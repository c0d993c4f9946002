---------------------------- MODULE QueryExecution ----------------------------
(***************************************************************************)
(* Running queries of the users of one role, in several processes: the     *)
(* identity is resolved, the guard checks the text, a connection pool with *)
(* the role's credentials is taken from the registry of the process, the   *)
(* result is streamed into an artifact, and what happened is recorded.     *)
(* Numbers stand for the credentials the role has had; 0 for none.         *)
(***************************************************************************)
EXTENDS Naturals, Sequences, FiniteSets

CONSTANTS
    Queries, Processes,
    Home,             \* the process a query runs in
    MaxGenerations,   \* bound on how often the role is created
    MaxFaults         \* bound on cancellations, closings and recordings that fail

QueriesAssumption ==
    /\ Home \in [Queries -> Processes] /\ MaxGenerations \in Nat \ {0} /\ MaxFaults \in Nat

VARIABLES
    generation,   \* how often the role has been created
    identity,     \* credentials in the row of the role, 0 if it is deleted
    retiring,     \* processes that still have to invalidate a deleted role
    pools,        \* credentials of each pool that was ever created
    closed,       \* pools whose connections were disposed of
    registry,     \* per process, its pool for the role, 0 if it has none
    popped,       \* per process, pools that were removed but not yet closed
    step, principal, pool, stale, outcome, record,    \* per query
    lost,         \* history: pools whose closing failed or was cancelled
    excused,      \* history: pools registered with void credentials, or in a
                  \* process that was not told of the deletion
    faults

roleState == <<generation, identity, retiring>>
poolState == <<pools, closed, registry, popped>>
queryState == <<step, principal, pool, stale, outcome, record>>
executionVars == <<roleState, poolState, queryState, lost, excused, faults>>

Init ==
    /\ generation = 1 /\ identity = 1 /\ retiring = {}
    /\ pools = <<>> /\ closed = {}
    /\ registry = [p \in Processes |-> 0] /\ popped = [p \in Processes |-> {}]
    /\ step = [q \in Queries |-> "idle"]
    /\ principal = [q \in Queries |-> 0] /\ pool = [q \in Queries |-> 0]
    /\ stale = [q \in Queries |-> 0]
    /\ outcome = [q \in Queries |-> "none"] /\ record = [q \in Queries |-> "none"]
    /\ lost = {} /\ excused = {} /\ faults = 0

Fault == faults < MaxFaults /\ faults' = faults + 1
Goto(q, to) == step' = [step EXCEPT ![q] = to]

-----------------------------------------------------------------------------
(* The role.                                                               *)

CreateRole ==
    /\ identity = 0 /\ generation < MaxGenerations
    /\ generation' = generation + 1 /\ identity' = generation'
    /\ UNCHANGED <<retiring, poolState, queryState, lost, excused, faults>>

(* The row is deleted, and the process that did it invalidates its pool.   *)
DeleteRole(p) ==
    /\ identity # 0 /\ retiring = {}
    /\ identity' = 0 /\ retiring' = {p}
    /\ UNCHANGED <<generation, poolState, queryState, lost, excused, faults>>

Invalidate(p) ==
    /\ p \in retiring /\ retiring' = {}
    /\ registry' = [registry EXCEPT ![p] = 0]
    /\ popped' = [popped EXCEPT ![p] = @ \cup ({registry[p]} \ {0})]
    /\ excused' = excused \cup ({registry[o] : o \in Processes \ {p}} \ {0})
    /\ UNCHANGED <<generation, identity, pools, closed, queryState, lost, faults>>

ClosesPopped(p) ==
    /\ popped[p] # {}
    /\ popped' = [popped EXCEPT ![p] = {}]
    /\ \/ closed' = closed \cup popped[p] /\ UNCHANGED <<lost, faults>>
       \/ Fault /\ lost' = lost \cup popped[p] /\ UNCHANGED closed
    /\ UNCHANGED <<roleState, pools, registry, queryState, excused>>

-----------------------------------------------------------------------------
(* execute                                                                 *)

Resolves(q) ==
    /\ step[q] = "idle"
    /\ principal' = [principal EXCEPT ![q] = identity]
    /\ \/ /\ identity # 0 /\ Goto(q, "checking") /\ UNCHANGED outcome
       \/ /\ identity = 0 /\ Goto(q, "ended") /\ outcome' = [outcome EXCEPT ![q] = "failed"]
    /\ UNCHANGED <<roleState, poolState, pool, stale, record, lost, excused, faults>>

Checks(q) ==
    /\ step[q] = "checking"
    /\ \/ Goto(q, "connecting") /\ UNCHANGED outcome
       \/ Goto(q, "recording") /\ outcome' = [outcome EXCEPT ![q] = "rejected"]
    /\ UNCHANGED <<roleState, poolState, principal, pool, stale, record, lost, excused, faults>>

(* Mutant: the entry is found by the name of the role alone.               *)
FitsByName(q) == registry[Home[q]] # 0

Fits(q) == registry[Home[q]] \in {i \in DOMAIN pools : pools[i] = principal[q]}

(* The registry's lock is never held across an await: one step.            *)
Reuses(q) ==
    /\ step[q] = "connecting" /\ Fits(q)
    /\ pool' = [pool EXCEPT ![q] = registry[Home[q]]]
    /\ Goto(q, "running")
    /\ UNCHANGED <<roleState, poolState, principal, stale, outcome, record, lost, excused, faults>>

Opens(q) ==
    LET p == Home[q]
        new == Len(pools) + 1
    IN
    /\ step[q] = "connecting" /\ ~Fits(q)
    /\ pools' = Append(pools, principal[q])
    /\ registry' = [registry EXCEPT ![p] = new]
    /\ pool' = [pool EXCEPT ![q] = new]
    /\ stale' = [stale EXCEPT ![q] = registry[p]]
    /\ excused' = IF principal[q] = identity THEN excused ELSE excused \cup {new}
    /\ Goto(q, IF registry[p] = 0 THEN "running" ELSE "closing")
    /\ UNCHANGED <<roleState, closed, popped, principal, outcome, record, lost, faults>>

(* A pool that cannot be closed fails the query.                           *)
ClosesStale(q) ==
    /\ step[q] = "closing"
    /\ stale' = [stale EXCEPT ![q] = 0]
    /\ \/ /\ closed' = closed \cup {stale[q]} /\ Goto(q, "running")
          /\ UNCHANGED <<outcome, lost, faults>>
       \/ /\ Fault /\ lost' = lost \cup {stale[q]} /\ Goto(q, "recording")
          /\ outcome' = [outcome EXCEPT ![q] = "failed"]
          /\ UNCHANGED closed
    /\ UNCHANGED <<roleState, pools, registry, popped, principal, pool, record, excused>>

(* Doris only knows the newest credentials: older ones cannot log in.      *)
Streams(q) ==
    /\ step[q] = "running" /\ Goto(q, "recording")
    /\ \E result \in {"failed"} \cup (IF pools[pool[q]] = generation THEN {"succeeded"} ELSE {}) :
           outcome' = [outcome EXCEPT ![q] = result]
    /\ UNCHANGED <<roleState, poolState, principal, pool, stale, record, lost, excused, faults>>

(* A failure to record is only logged: the caller gets result or error.    *)
Records(q) ==
    /\ step[q] = "recording" /\ Goto(q, "ended")
    /\ \/ record' = [record EXCEPT ![q] = outcome[q]] /\ UNCHANGED faults
       \/ Fault /\ UNCHANGED record
    /\ UNCHANGED <<roleState, poolState, principal, pool, stale, outcome, lost, excused>>

(* CancelledError passes the handlers of execute: nothing is recorded.     *)
Cancel(q) ==
    /\ step[q] \notin {"idle", "ended"} /\ Fault /\ Goto(q, "ended")
    /\ lost' = lost \cup ({stale[q]} \ {0})
    /\ stale' = [stale EXCEPT ![q] = 0]
    /\ outcome' = [outcome EXCEPT ![q] = "cancelled"]
    /\ UNCHANGED <<roleState, poolState, principal, pool, record, excused>>

QueryNext(q) ==
    \/ Resolves(q) \/ Checks(q) \/ Reuses(q) \/ Opens(q) \/ ClosesStale(q)
    \/ Streams(q) \/ Records(q) \/ Cancel(q)

Next ==
    \/ CreateRole
    \/ \E p \in Processes : DeleteRole(p) \/ Invalidate(p) \/ ClosesPopped(p)
    \/ \E q \in Queries : QueryNext(q)

Spec == Init /\ [][Next]_executionVars

-----------------------------------------------------------------------------
(* Properties.                                                             *)

TypeOK ==
    /\ generation \in 1 .. MaxGenerations /\ identity \in {0, generation}
    /\ retiring \subseteq Processes
    /\ pools \in Seq(1 .. MaxGenerations) /\ closed \cup lost \cup excused \subseteq DOMAIN pools
    /\ registry \in [Processes -> {0} \cup DOMAIN pools]
    /\ popped \in [Processes -> SUBSET DOMAIN pools]
    /\ step \in [Queries -> {"idle", "checking", "connecting", "closing", "running",
                             "recording", "ended"}]
    /\ principal \in [Queries -> 0 .. MaxGenerations]
    /\ pool \in [Queries -> {0} \cup DOMAIN pools] /\ stale \in [Queries -> {0} \cup DOMAIN pools]
    /\ outcome \in [Queries -> {"none", "failed", "rejected", "succeeded", "cancelled"}]
    /\ record \in [Queries -> {"none", "failed", "rejected", "succeeded", "cancelled"}]
    /\ faults \in 0 .. MaxFaults

Live(q) == step[q] \in {"closing", "running"}

(* A query runs with the credentials its own resolution found, however the *)
(* role was deleted and created in between (get_or_create).                *)
RunsAsResolved == \A q \in Queries : pool[q] # 0 => pools[pool[q]] = principal[q]

(* No pool is forgotten: each is registered, closed, about to be closed, or *)
(* was lost by a closing that failed or was cancelled; and a registered    *)
(* pool is not closed under the queries that will take it.                 *)
Registered == {registry[p] : p \in Processes}
Pending == (UNION {popped[p] : p \in Processes}) \cup {stale[q] : q \in Queries}

PoolsAreAccounted ==
    /\ DOMAIN pools \subseteq Registered \cup closed \cup Pending \cup lost
    /\ Registered \cap (closed \cup Pending \cup lost) \subseteq {0}

(* After a deleted role was invalidated, a pool of its old credentials is  *)
(* only registered where nobody invalidated it or by a query that resolved *)
(* them before.                                                            *)
OldPoolsAreExcused ==
    \A p \in Processes :
        retiring = {} /\ registry[p] # 0 /\ pools[registry[p]] # identity
            => registry[p] \in excused

(* The audit tells the truth: what ended is recorded as it ended, unless   *)
(* the query had no identity, was cancelled or its recording failed, and   *)
(* nothing a guard rejected ever had a connection.                         *)
RecordsAreTrue ==
    \A q \in Queries :
        /\ record[q] # "none" => record[q] = outcome[q] /\ principal[q] # 0
        /\ step[q] = "ended" /\ outcome[q] # "cancelled" /\ principal[q] # 0 /\ faults = 0
               => record[q] # "none"
        /\ outcome[q] = "rejected" => pool[q] = 0

QueriesAreSafe == RunsAsResolved /\ PoolsAreAccounted /\ OldPoolsAreExcused /\ RecordsAreTrue

=============================================================================
