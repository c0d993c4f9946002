------------------------- MODULE SpecialistSessions -------------------------
(***************************************************************************)
(* Delegations of one conversation's Planner to specialist sessions.  The  *)
(* Run that executes the Planner holds the conversation's lock, so one     *)
(* process at a time works here; it may crash, and a later Run repeats the *)
(* tool calls whose results the Planner's checkpoint does not have.        *)
(***************************************************************************)
EXTENDS Naturals, FiniteSets

CONSTANTS
    Sessions,     \* specialist sessions (checkpoint namespaces)
    Calls,        \* delegation tool calls; the tool_call_id is the delegation id
    Deletions,    \* delete_session tool calls
    Target,       \* session of each tool call, an argument the Planner saved
    Nobody,       \* no holder
    MaxSessions,  \* orchestration.max_sessions
    MaxParallel,  \* orchestration.max_parallel_sessions
    PoolSize,     \* connections of the lock pool left to these tool calls
    MaxCrashes,   \* bound on crashes of the process
    MaxCancels,   \* bound on cancellations of the Run
    MaxFaults     \* bound on failing checkpoint writes

Actors == Calls \cup Deletions

ASSUME BoundAssumption ==
    /\ MaxSessions \in Nat \ {0} /\ MaxParallel \in Nat \ {0} /\ PoolSize \in Nat \ {0}
    /\ MaxCrashes \in Nat /\ MaxCancels \in Nat /\ MaxFaults \in Nat
ASSUME ActorAssumption ==
    Calls \cap Deletions = {} /\ Nobody \notin Actors /\ Target \in [Actors -> Sessions]
ASSUME FiniteAssumption == IsFiniteSet(Calls) /\ IsFiniteSet(Deletions)

VARIABLES
    planner,   \* "running", "cancelling" or "stopped"
    pc,        \* phase of each tool call
    outcome,   \* status a call answers, "none" before
    kept,      \* answers that are in the Planner's checkpoint
    lock,      \* holder of a session's lock
    slot,      \* holder of a capacity slot
    permits,   \* parallel sessions in use
    seen,      \* sessions that existed when a call listed them
    saved,     \* sessions with a checkpoint
    record,    \* delegation record of a call in its session's checkpoint
    active,    \* sessions registered as active in the process
    finished,  \* history: calls with a result recorded since the session's deletion
    crashes, cancels, faults

lockVars == <<lock, slot, permits, active>>
storeVars == <<saved, record, finished>>
boundVars == <<crashes, cancels, faults>>
vars == <<planner, pc, outcome, kept, lockVars, seen, storeVars, boundVars>>

Slots == 0 .. MaxSessions - 1
Idle == {"issued", "answered"}
Phases == Idle \cup {"queued", "locked", "listed", "slotted", "reserved", "permitted",
                     "building", "running", "saving", "committed", "failing", "leaving",
                     "erased"}
Outcomes == {"none", "completed", "failed", "cancelled"}
Records == Outcomes \cup {"running"}

Init ==
    /\ planner = "running"
    /\ pc = [a \in Actors |-> "issued"]
    /\ outcome = [a \in Actors |-> "none"]
    /\ kept = {}
    /\ lock = [s \in Sessions |-> Nobody]
    /\ slot = [k \in Slots |-> Nobody]
    /\ permits = 0
    /\ seen = [c \in Calls |-> {}]
    /\ saved = {}
    /\ record = [c \in Calls |-> "none"]
    /\ active = {}
    /\ finished = {}
    /\ crashes = 0 /\ cancels = 0 /\ faults = 0

Advance(a, from, to) == pc[a] = from /\ pc' = [pc EXCEPT ![a] = to]

(* Every held lock but the one still waiting for it uses a connection.     *)
SessionConnections == {a \in Actors : pc[a] \notin Idle \cup {"queued"}}
SlotConnections == {k \in Slots : slot[k] # Nobody /\ pc[slot[k]] # "slotted"}
Connections == Cardinality(SessionConnections) + Cardinality(SlotConnections)

(* Mutant: only a delegation that ran to its end gives its permit back.    *)
ReleaseLeaks(a) ==
    /\ lock' = [s \in Sessions |-> IF lock[s] = a THEN Nobody ELSE lock[s]]
    /\ slot' = [k \in Slots |-> IF slot[k] = a THEN Nobody ELSE slot[k]]
    /\ permits' = IF pc[a] = "leaving" THEN permits - 1 ELSE permits
    /\ active' = IF pc[a] = "leaving" THEN active \ {Target[a]} ELSE active

(* The context managers release what a call holds, in whatever phase.      *)
Release(a) ==
    /\ lock' = [s \in Sessions |-> IF lock[s] = a THEN Nobody ELSE lock[s]]
    /\ slot' = [k \in Slots |-> IF slot[k] = a THEN Nobody ELSE slot[k]]
    /\ permits' = IF pc[a] \in {"permitted", "building", "running", "saving", "committed",
                                "failing", "leaving"}
                  THEN permits - 1 ELSE permits
    /\ active' = IF pc[a] \in {"building", "running", "saving", "committed", "failing",
                               "leaving"}
                 THEN active \ {Target[a]} ELSE active

(* The tool returns status r to the Planner.                               *)
Answer(a, r) ==
    /\ pc' = [pc EXCEPT ![a] = "answered"]
    /\ outcome' = [outcome EXCEPT ![a] = r]
    /\ Release(a)

-----------------------------------------------------------------------------
(* Locks, capacity and permits.                                            *)

(* Mutant: the session's lock is not looked at.                            *)
StartsBlind(a) == lock' = [lock EXCEPT ![Target[a]] = a]

Starts(a) == lock[Target[a]] = Nobody /\ lock' = [lock EXCEPT ![Target[a]] = a]

Start(a) ==
    /\ Advance(a, "issued", "queued")
    /\ Starts(a)
    /\ UNCHANGED <<planner, outcome, kept, slot, permits, active, seen, storeVars, boundVars>>

(* A busy session is refused at once.                                      *)
Refuse(a) ==
    /\ pc[a] = "issued"
    /\ lock[Target[a]] # Nobody
    /\ Answer(a, "failed")
    /\ UNCHANGED <<planner, kept, seen, storeVars, boundVars>>

Connect(a) ==
    /\ Connections < PoolSize
    /\ \/ Advance(a, "queued", "locked")
       \/ Advance(a, "slotted", "reserved")
    /\ UNCHANGED <<planner, outcome, kept, lockVars, seen, storeVars, boundVars>>

(* Mutant: the pool makes its callers wait for ever.                       *)
TimesOutNever(a) == FALSE

TimesOut(a) == pc[a] \in {"queued", "slotted"} /\ Connections >= PoolSize

(* Waiting for a connection ends with PoolTimeout, an ordinary failure.    *)
ConnectTimesOut(a) ==
    /\ TimesOut(a)
    /\ Answer(a, "failed")
    /\ UNCHANGED <<planner, kept, seen, storeVars, boundVars>>

ListNamespaces(c) ==
    /\ Advance(c, "locked", "listed")
    /\ seen' = [seen EXCEPT ![c] = saved]
    /\ UNCHANGED <<planner, outcome, kept, lockVars, storeVars, boundVars>>

FreeSlots(c) == {k \in Slots : k >= Cardinality(seen[c]) /\ slot[k] = Nobody}

(* A new session takes the first free slot above the sessions listed.      *)
ReserveCapacity(c) ==
    /\ IF Target[c] \in seen[c]
       THEN Advance(c, "listed", "reserved") /\ UNCHANGED slot
       ELSE \E k \in FreeSlots(c) :
                /\ \A j \in FreeSlots(c) : k <= j
                /\ Advance(c, "listed", "slotted")
                /\ slot' = [slot EXCEPT ![k] = c]
    /\ UNCHANGED <<planner, outcome, kept, lock, permits, active, seen, storeVars, boundVars>>

CapacityIsFull(c) ==
    /\ pc[c] = "listed" /\ Target[c] \notin seen[c] /\ FreeSlots(c) = {}
    /\ Answer(c, "failed")
    /\ UNCHANGED <<planner, kept, seen, storeVars, boundVars>>

(* Mutant: the permit is taken without a look at those in use.             *)
TakeAnyPermit(c) ==
    /\ Advance(c, "reserved", "permitted")
    /\ permits' = permits + 1
    /\ UNCHANGED <<planner, outcome, kept, lock, slot, active, seen, storeVars, boundVars>>

TakePermit(c) ==
    /\ permits < MaxParallel
    /\ Advance(c, "reserved", "permitted")
    /\ permits' = permits + 1
    /\ UNCHANGED <<planner, outcome, kept, lock, slot, active, seen, storeVars, boundVars>>

PermitsAreTaken(c) ==
    /\ pc[c] = "reserved" /\ permits >= MaxParallel
    /\ Answer(c, "failed")
    /\ UNCHANGED <<planner, kept, seen, storeVars, boundVars>>

-----------------------------------------------------------------------------
(* The specialist.                                                         *)

(* Mutant: only a completed result is reused.                              *)
HasCompleted(c) == record[c] = "completed"

HasResult(c) == record[c] \in {"completed", "failed"}

Replay(c) ==
    /\ pc[c] = "permitted" /\ HasResult(c)
    /\ Answer(c, record[c])
    /\ UNCHANGED <<planner, kept, seen, storeVars, boundVars>>

Invoke(c) ==
    /\ ~HasResult(c)
    /\ Advance(c, "permitted", "building")
    /\ active' = active \cup {Target[c]}
    /\ UNCHANGED <<planner, outcome, kept, lock, slot, permits, seen, storeVars, boundVars>>

Built(c) ==
    /\ Advance(c, "building", "running")
    /\ UNCHANGED <<planner, outcome, kept, lockVars, seen, storeVars, boundVars>>

BuildFails(c) ==
    /\ pc[c] = "building" /\ Answer(c, "failed")
    /\ UNCHANGED <<planner, kept, seen, storeVars, boundVars>>

(* A checkpoint of c's session is written with the record r.               *)
Save(c, r) ==
    /\ record' = [record EXCEPT ![c] = r]
    /\ saved' = saved \cup {Target[c]}
    /\ finished' = IF r \in {"completed", "failed"} THEN finished \cup {c} ELSE finished

(* The message and the running record are the first input of the stream.   *)
FirstCheckpoint(c) ==
    /\ pc[c] = "running" /\ record[c] # "running"
    /\ Save(c, "running")
    /\ UNCHANGED <<planner, pc, outcome, kept, lockVars, seen, boundVars>>

Completes(c) ==
    /\ record[c] = "running"
    /\ Advance(c, "running", "saving")
    /\ UNCHANGED <<planner, outcome, kept, lockVars, seen, storeVars, boundVars>>

Fails(c) ==
    /\ Advance(c, "running", "failing")
    /\ UNCHANGED <<planner, outcome, kept, lockVars, seen, storeVars, boundVars>>

(* The result is committed, but the await has not returned.                *)
SaveResult(c) ==
    /\ Advance(c, "saving", "committed")
    /\ Save(c, "completed")
    /\ UNCHANGED <<planner, outcome, kept, lockVars, seen, boundVars>>

(* Mutant: the specialist's result is returned before it is saved.         *)
ReturnsEarly(c) ==
    /\ pc[c] \in {"saving", "committed"} /\ pc' = [pc EXCEPT ![c] = "leaving"]
    /\ outcome' = [outcome EXCEPT ![c] = "completed"]
    /\ UNCHANGED <<planner, kept, lockVars, seen, storeVars, boundVars>>

Returns(c) ==
    /\ Advance(c, "committed", "leaving")
    /\ outcome' = [outcome EXCEPT ![c] = "completed"]
    /\ UNCHANGED <<planner, kept, lockVars, seen, storeVars, boundVars>>

(* An error from saving the result is a failure of the delegation.         *)
SaveFails(c) ==
    /\ faults < MaxFaults /\ faults' = faults + 1
    /\ pc[c] \in {"saving", "committed"} /\ pc' = [pc EXCEPT ![c] = "failing"]
    /\ UNCHANGED <<planner, outcome, kept, lockVars, seen, storeVars, crashes, cancels>>

SaveFailure(c) ==
    /\ Advance(c, "failing", "leaving")
    /\ outcome' = [outcome EXCEPT ![c] = "failed"]
    /\ \/ Save(c, "failed") /\ UNCHANGED faults
       \/ faults < MaxFaults /\ faults' = faults + 1 /\ UNCHANGED storeVars
    /\ UNCHANGED <<planner, kept, lockVars, seen, crashes, cancels>>

(* Background jobs are cleaned up, then everything is released.            *)
Leave(c) ==
    /\ pc[c] = "leaving" /\ Answer(c, outcome[c])
    /\ UNCHANGED <<planner, kept, seen, storeVars, boundVars>>

-----------------------------------------------------------------------------
(* Deleting a session.                                                     *)

Erase(d) ==
    /\ Advance(d, "locked", "erased")
    /\ saved' = saved \ {Target[d]}
    /\ record' = [c \in Calls |-> IF Target[c] = Target[d] THEN "none" ELSE record[c]]
    /\ finished' = {c \in finished : Target[c] # Target[d]}
    /\ UNCHANGED <<planner, outcome, kept, lockVars, seen, boundVars>>

(* The workspace is deleted, or the sandbox refuses.                       *)
DeletionEnds(d) ==
    /\ pc[d] = "erased" /\ \E r \in {"completed", "failed"} : Answer(d, r)
    /\ UNCHANGED <<planner, kept, seen, storeVars, boundVars>>

-----------------------------------------------------------------------------
(* The Run: keeping answers, cancellation, crash and resumption.           *)

Keep(a) ==
    /\ pc[a] = "answered" /\ a \notin kept
    /\ kept' = kept \cup {a}
    /\ UNCHANGED <<planner, pc, outcome, lockVars, seen, storeVars, boundVars>>

Cancel ==
    /\ planner = "running" /\ planner' = "cancelling"
    /\ cancels < MaxCancels /\ cancels' = cancels + 1
    /\ UNCHANGED <<pc, outcome, kept, lockVars, seen, storeVars, crashes, faults>>

Unwind(a) == pc' = [pc EXCEPT ![a] = "issued"] /\ Release(a)

(* CancelledError reaches a call that has no specialist yet, or is done.   *)
CancelEarly(a) ==
    /\ planner = "cancelling"
    /\ pc[a] \notin Idle \cup {"running", "saving", "committed", "failing"}
    /\ Unwind(a)
    /\ outcome' = [outcome EXCEPT ![a] = "none"]
    /\ UNCHANGED <<planner, kept, seen, storeVars, boundVars>>

(* The specialist is cancelled: its record is overwritten if that works.   *)
CancelSpecialist(c) ==
    /\ planner = "cancelling"
    /\ pc[c] \in {"running", "saving", "committed"} /\ pc' = [pc EXCEPT ![c] = "leaving"]
    /\ \/ Save(c, "cancelled") /\ UNCHANGED faults
       \/ faults < MaxFaults /\ faults' = faults + 1 /\ UNCHANGED storeVars
    /\ UNCHANGED <<planner, outcome, kept, lockVars, seen, crashes, cancels>>

(* While the failure is being saved the cancellation only interrupts that. *)
CancelFailure(c) ==
    /\ planner = "cancelling" /\ Advance(c, "failing", "leaving")
    /\ Save(c, "failed") \/ UNCHANGED storeVars
    /\ UNCHANGED <<planner, outcome, kept, lockVars, seen, boundVars>>

Unkept == {a \in Actors : pc[a] = "answered" /\ a \notin kept}

(* Answers the Planner's checkpoint does not have are lost with the Run.   *)
Stopped(lost) ==
    /\ planner' = "stopped"
    /\ pc' = [a \in Actors |-> IF a \in lost THEN "issued" ELSE pc[a]]
    /\ outcome' = [a \in Actors |-> IF a \in lost THEN "none" ELSE outcome[a]]

RunStops ==
    /\ planner = "cancelling" /\ \A a \in Actors : pc[a] \in Idle
    /\ Stopped(Unkept)
    /\ UNCHANGED <<kept, lockVars, seen, storeVars, boundVars>>

(* The connections of a dead process close and its locks with them.        *)
Crash ==
    /\ planner # "stopped"
    /\ crashes < MaxCrashes /\ crashes' = crashes + 1
    /\ Stopped({a \in Actors : pc[a] # "answered"} \cup Unkept)
    /\ lock' = [s \in Sessions |-> Nobody]
    /\ slot' = [k \in Slots |-> Nobody]
    /\ permits' = 0 /\ active' = {}
    /\ UNCHANGED <<kept, seen, storeVars, cancels, faults>>

Resume ==
    /\ planner = "stopped" /\ planner' = "running"
    /\ UNCHANGED <<pc, outcome, kept, lockVars, seen, storeVars, boundVars>>

LockStep(a) == Start(a) \/ Refuse(a) \/ Connect(a) \/ ConnectTimesOut(a)

CapacityStep(c) ==
    ListNamespaces(c) \/ ReserveCapacity(c) \/ CapacityIsFull(c) \/ TakePermit(c)
    \/ PermitsAreTaken(c)

SpecialistStep(c) ==
    \/ Replay(c) \/ Invoke(c) \/ Built(c) \/ BuildFails(c) \/ FirstCheckpoint(c)
    \/ Completes(c) \/ Fails(c) \/ SaveResult(c) \/ Returns(c) \/ SaveFails(c)
    \/ SaveFailure(c) \/ Leave(c)

(* One tool call at work.                                                  *)
Work(a) ==
    /\ planner = "running"
    /\ \/ LockStep(a)
       \/ a \in Calls /\ (CapacityStep(a) \/ SpecialistStep(a))
       \/ a \in Deletions /\ (Erase(a) \/ DeletionEnds(a))

Cancelled(a) == CancelEarly(a) \/ (a \in Calls /\ (CancelSpecialist(a) \/ CancelFailure(a)))

Next ==
    \/ \E a \in Actors : Work(a) \/ Cancelled(a) \/ (planner = "running" /\ Keep(a))
    \/ Cancel \/ RunStops \/ Crash \/ Resume

Spec == Init /\ [][Next]_vars

(* The event loop runs every task, the lock pool times out, and models and *)
(* their tool calls are bounded.  Nobody has to resume a stopped Run.      *)
Fairness == \A a \in Actors : WF_vars(Work(a)) /\ WF_vars(Cancelled(a))

FairSpec == Spec /\ Fairness

-----------------------------------------------------------------------------
(* Properties.                                                             *)

TypeOK ==
    /\ planner \in {"running", "cancelling", "stopped"}
    /\ pc \in [Actors -> Phases] /\ outcome \in [Actors -> Outcomes]
    /\ kept \subseteq Actors
    /\ lock \in [Sessions -> Actors \cup {Nobody}] /\ slot \in [Slots -> Calls \cup {Nobody}]
    /\ permits \in 0 .. MaxParallel
    /\ seen \in [Calls -> SUBSET Sessions] /\ saved \subseteq Sessions
    /\ record \in [Calls -> Records]
    /\ active \subseteq Sessions /\ finished \subseteq Calls
    /\ crashes \in 0 .. MaxCrashes /\ cancels \in 0 .. MaxCancels /\ faults \in 0 .. MaxFaults

Slotted(c) ==
    Target[c] \notin seen[c] /\ pc[c] \notin Idle \cup {"queued", "locked", "listed"}
InUse == {"building", "running", "saving", "committed", "failing", "leaving"}
Permitted == {c \in Calls : pc[c] \in InUse \cup {"permitted"}}
Tracked == {c \in Calls : pc[c] \in InUse}

LocksMatch ==
    /\ \A a \in Actors : pc[a] \notin Idle <=> lock[Target[a]] = a
    /\ \A s \in Sessions : lock[s] # Nobody => Target[lock[s]] = s

SlotsMatch ==
    /\ \A c \in Calls : Slotted(c) <=> \E k \in Slots : slot[k] = c
    /\ \A j, k \in Slots : slot[j] = slot[k] /\ slot[j] # Nobody => j = k

(* Whatever way a tool call ends - refused, failed, cancelled, crashed -   *)
(* exactly what it holds is given back: a session is locked, a slot taken, *)
(* a permit used and an activity registered just while a call needs it     *)
(* (execute_delegation's context managers; delete_session's lock).         *)
ResourcesMatchPhases ==
    /\ LocksMatch /\ SlotsMatch
    /\ permits = Cardinality(Permitted)
    /\ active = {Target[c] : c \in Tracked}
    /\ Connections <= PoolSize

(* A new session comes into being only under a capacity slot, although the *)
(* decision that it is new was taken long before its first checkpoint and  *)
(* sessions are deleted meanwhile (reserve_capacity).                      *)
NewSessionsHoldSlots ==
    [][\A s \in saved' \ saved : \E k \in Slots : slot[k] # Nobody /\ Target[slot[k]] = s]_vars

(* Deleting a session never pulls the checkpoint from under a delegation   *)
(* (delete_session and execute_delegation share the session's lock).       *)
DeletionSparesWork ==
    [][\A s \in saved \ saved' : \A c \in Calls : Target[c] = s => pc[c] \in Idle]_vars

(* What the Planner is told is completed is in the session's checkpoint,   *)
(* unless the session was deleted since: a crash cannot take it back.      *)
AnswersAreDurable ==
    \A c \in Calls : pc[c] = "answered" /\ outcome[c] = "completed" =>
        record[c] \in {"completed", "none"}

(* docs/06, 3.1: a tool call that is repeated reuses the recorded result:  *)
(* no work whose result was recorded is done again.                        *)
RecordedResultsAreReused ==
    [][\A c \in finished : pc[c] # "building" => pc'[c] # "building"]_vars

(* As long as no Run was cancelled that is so, crashes and failing writes  *)
(* notwithstanding: Replay finds what SaveResult recorded.                 *)
UncancelledResultsAreReused ==
    [][cancels = 0 => \A c \in finished : pc[c] # "building" => pc'[c] # "building"]_vars

(* docs/06, 3.2: the sessions of a conversation stay within max_sessions,  *)
(* including those whose first checkpoint is yet to be written.            *)
SessionsWithinLimit == Cardinality(saved) <= MaxSessions

(* A tool call that began ends, though all connections of the lock pool    *)
(* are held by calls that wait for a second one.                           *)
EveryCallEnds == \A a \in Actors : (pc[a] \notin Idle) ~> (pc[a] \in Idle)

-----------------------------------------------------------------------------
(* The inductive invariant.                                                *)

(* Which phases a delegation and a deletion go through; only a delegation  *)
(* that found its session new waits for a slot's connection.               *)
PhasesByKind ==
    /\ \A c \in Calls : pc[c] # "erased" /\ (pc[c] = "slotted" => Target[c] \notin seen[c])
    /\ \A d \in Deletions : pc[d] \in Idle \cup {"queued", "locked", "erased"}

(* A session listed by a call that holds its lock still exists.            *)
ListedSessionsStay ==
    \A c \in Calls :
        pc[c] \notin Idle \cup {"queued", "locked"} /\ Target[c] \in seen[c] => Target[c] \in saved

(* An answer is what the session's checkpoint says.                        *)
OutcomesMatch ==
    /\ \A a \in Actors : pc[a] \notin {"leaving", "answered"} => outcome[a] = "none"
    /\ \A c \in Calls :
        /\ pc[c] = "committed" => record[c] = "completed"
        /\ pc[c] \in {"leaving", "answered"} /\ outcome[c] = "completed" =>
             record[c] \in {"completed", "none"}

(* Only a cancellation replaces a result by something else.                *)
ResultsStay ==
    /\ planner = "cancelling" => cancels > 0
    /\ \A c \in Calls : pc[c] \in {"building", "running"} => ~HasResult(c)
    /\ cancels = 0 => \A c \in finished : HasResult(c)

SInv ==
    /\ TypeOK /\ PhasesByKind /\ ResourcesMatchPhases
    /\ ListedSessionsStay /\ OutcomesMatch /\ ResultsStay

=============================================================================
