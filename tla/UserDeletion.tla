---------------------------- MODULE UserDeletion ----------------------------
(***************************************************************************)
(* Removing one user.  An administrator's request disables the account and *)
(* leaves a durable task; workers that get a message about it delete the   *)
(* conversations, what is left in the stores, the sandbox volume and at    *)
(* last the account, while requests the user made before are still under   *)
(* way.  Messages are lost and repeated, workers crash and lose the lock,  *)
(* a periodic dispatcher repeats what did not end.  How one conversation   *)
(* is started and deleted is the subject of ConversationLifecycle.         *)
(***************************************************************************)
EXTENDS Naturals, FiniteSets

CONSTANTS
    Workers,         \* Celery workers
    Requests,        \* requests of the user
    Conversations,   \* ids of conversations, each used once
    Nobody,          \* no holder, no conversation
    MaxMessages,     \* bound on messages under way
    MaxFaults,       \* bound on failures, crashes, lost messages and lost locks
    MaxVolumeFaults  \* bound on removals of the sandbox volume that fail

ASSUME BoundAssumption ==
    MaxMessages \in Nat \ {0} /\ MaxFaults \in Nat /\ MaxVolumeFaults \in Nat
ASSUME HolderAssumption ==
    /\ Workers \cap Requests = {}
    /\ Nobody \notin Workers \cup Requests \cup Conversations

VARIABLES
    account,      \* "active", "disabled" or "gone"
    task,         \* row of user_deletion_tasks
    publishing,   \* the request still has to send its message
    claimed,      \* the dispatcher still has to send its message
    messages,     \* messages in the broker
    pc,           \* phase of each worker
    batch,        \* conversations a worker has listed and not yet deleted
    target,       \* conversation a worker is deleting
    lock,         \* holder of the user's execution lock
    lost,         \* history: workers that lost that lock and go on
    request,      \* phase of each request of the user
    wants,        \* conversation a request is about, Nobody: it creates one
    row,          \* row of each conversation
    convLock,     \* holder of each conversation's lifecycle lock
    stores,       \* conversations with data, for each store
    tombstone,    \* conversations with a tombstone
    volume,       \* the sandbox volume exists
    userSealed,   \* the sandbox has marked the user as deleted
    late,         \* history: conversations created after the account was disabled
    faults, volumeFaults

taskVars == <<account, task>>
messageVars == <<publishing, claimed, messages>>
workerVars == <<pc, batch, target, lock, lost>>
requestVars == <<request, wants>>
dataVars == <<row, stores, tombstone, volume, userSealed, late>>
faultVars == <<faults, volumeFaults>>
vars == <<taskVars, messageVars, workerVars, requestVars, dataVars, convLock, faultVars>>

Stores == {"thread", "recall", "files"}
Status == {"none", "pending", "completed"}
Erasing == {"thread", "recall", "files", "row"}
Clearing == {"threads", "recalls", "sandbox", "complete"}
Cleaning == {"listing", "deleting"} \cup Erasing \cup Clearing
Phases == Cleaning \cup {"idle", "taken", "locked", "refused", "failing"}

(* The store a step empties, and the step after it.                        *)
StoreOf == [threads |-> "thread", recalls |-> "recall"]
After == [thread |-> "recall", recall |-> "files", files |-> "row",
          threads |-> "recalls", recalls |-> "sandbox", sandbox |-> "complete"]

Live == {c \in Conversations : row[c] \in {"draft", "formal"}}

Init ==
    /\ account = "active"
    /\ task = [status |-> "none", due |-> FALSE, failed |-> FALSE]
    /\ publishing = FALSE /\ claimed = FALSE /\ messages = 0
    /\ pc = [w \in Workers |-> "idle"]
    /\ batch = [w \in Workers |-> {}] /\ target = [w \in Workers |-> Nobody]
    /\ lock = Nobody /\ lost = {}
    /\ request = [r \in Requests |-> "idle"] /\ wants = [r \in Requests |-> Nobody]
    /\ row = [c \in Conversations |-> "unused"]
    /\ convLock = [c \in Conversations |-> Nobody]
    /\ stores = [s \in Stores |-> {}] /\ tombstone = {}
    /\ volume \in BOOLEAN \* of conversations that were deleted before
    /\ userSealed = FALSE /\ late = {}
    /\ faults = 0 /\ volumeFaults = 0

Fault == faults < MaxFaults /\ faults' = faults + 1 /\ UNCHANGED volumeFaults

-----------------------------------------------------------------------------
(* Requests of the user.                                                   *)

(* Mutant: a request of a disabled account is let in.                      *)
AdmitsAnyone(r, c) ==
    /\ request[r] = "idle"
    /\ c \in Live \cup {Nobody}
    /\ request' = [request EXCEPT ![r] = "admitted"]
    /\ wants' = [wants EXCEPT ![r] = c]
    /\ UNCHANGED <<taskVars, messageVars, workerVars, dataVars, convLock, faultVars>>

(* The account is looked at once, when the request is authenticated; the   *)
(* user knows the ids of conversations that exist.                         *)
Admit(r, c) ==
    /\ request[r] = "idle" /\ account = "active"
    /\ c \in Live \cup {Nobody}
    /\ request' = [request EXCEPT ![r] = "admitted"]
    /\ wants' = [wants EXCEPT ![r] = c]
    /\ UNCHANGED <<taskVars, messageVars, workerVars, dataVars, convLock, faultVars>>

Ends(r) ==
    /\ request' = [request EXCEPT ![r] = "idle"]
    /\ wants' = [wants EXCEPT ![r] = Nobody]

Create(r, c) ==
    /\ request[r] = "admitted" /\ wants[r] = Nobody
    /\ row[c] = "unused"
    /\ \E kind \in {"draft", "formal"} : row' = [row EXCEPT ![c] = kind]
    /\ late' = IF account = "active" THEN late ELSE late \cup {c}
    /\ Ends(r)
    /\ UNCHANGED <<taskVars, messageVars, workerVars, stores, tombstone, volume, userSealed,
                   convLock, faultVars>>

(* The turn gets the lifecycle lock and finds the row; it becomes formal.  *)
StartTurn(r) ==
    /\ request[r] = "admitted"
    /\ wants[r] \in Live /\ convLock[wants[r]] = Nobody
    /\ request' = [request EXCEPT ![r] = "running"]
    /\ row' = [row EXCEPT ![wants[r]] = "formal"]
    /\ convLock' = [convLock EXCEPT ![wants[r]] = r]
    /\ UNCHANGED <<taskVars, messageVars, workerVars, wants, stores, tombstone, volume,
                   userSealed, late, faultVars>>

(* Creating fails, the conversation is busy or its row is gone.            *)
Rejected(r) ==
    /\ request[r] = "admitted"
    /\ \/ wants[r] = Nobody
       \/ wants[r] # Nobody /\ (wants[r] \notin Live \/ convLock[wants[r]] # Nobody)
    /\ Ends(r)
    /\ UNCHANGED <<taskVars, messageVars, workerVars, dataVars, convLock, faultVars>>

(* A turn that the tombstone lets in leaves data in the stores.            *)
TurnWrites(r, s) ==
    /\ request[r] = "running" /\ wants[r] \notin tombstone
    /\ s = "files" => ~userSealed
    /\ stores' = [stores EXCEPT ![s] = @ \cup {wants[r]}]
    /\ volume' = (volume \/ s = "files")
    /\ UNCHANGED <<taskVars, messageVars, workerVars, requestVars, row, tombstone, userSealed,
                   late, convLock, faultVars>>

EndTurn(r) ==
    /\ request[r] = "running"
    /\ convLock' = [convLock EXCEPT ![wants[r]] = Nobody]
    /\ Ends(r)
    /\ UNCHANGED <<taskVars, messageVars, workerVars, dataVars, faultVars>>

-----------------------------------------------------------------------------
(* The task and its messages.                                              *)

(* Account, refresh tokens and task are changed in one transaction; a      *)
(* request that finds a task changes nothing.                              *)
RequestDeletion ==
    /\ account = "active" /\ task.status = "none"
    /\ account' = "disabled"
    /\ task' = [status |-> "pending", due |-> TRUE, failed |-> FALSE]
    /\ publishing' = TRUE
    /\ UNCHANGED <<claimed, messages, workerVars, requestVars, dataVars, convLock, faultVars>>

Room == messages < MaxMessages /\ messages' = messages + 1

PublishRequest ==
    /\ publishing /\ publishing' = FALSE
    /\ \/ Room /\ UNCHANGED faultVars
       \/ Fault /\ UNCHANGED messages
    /\ UNCHANGED <<taskVars, claimed, workerVars, requestVars, dataVars, convLock>>

(* The lease or the waiting time in next_attempt_at is over.               *)
BecomesDue ==
    /\ task.status = "pending" /\ ~task.due
    /\ task' = [task EXCEPT !.due = TRUE]
    /\ UNCHANGED <<account, messageVars, workerVars, requestVars, dataVars, convLock, faultVars>>

(* Mutant: a task that has failed once is not claimed again.               *)
ClaimFresh ==
    /\ ~claimed /\ task.status = "pending" /\ task.due /\ ~task.failed
    /\ claimed' = TRUE
    /\ task' = [task EXCEPT !.due = FALSE]
    /\ UNCHANGED <<account, publishing, messages, workerVars, requestVars, dataVars, convLock,
                   faultVars>>

ClaimDue ==
    /\ ~claimed /\ task.status = "pending" /\ task.due
    /\ claimed' = TRUE
    /\ task' = [task EXCEPT !.due = FALSE]
    /\ UNCHANGED <<account, publishing, messages, workerVars, requestVars, dataVars, convLock,
                   faultVars>>

(* Mutant: a failure is written whatever became of the task.               *)
RecordsAlways == task' = [task EXCEPT !.due = FALSE, !.failed = TRUE]

(* A failure of a task that is completed is not written.                   *)
Records ==
    task' = IF task.status = "pending" THEN [task EXCEPT !.due = FALSE, !.failed = TRUE]
            ELSE task

PublishClaim ==
    /\ claimed /\ claimed' = FALSE
    /\ Room
    /\ UNCHANGED <<taskVars, publishing, workerVars, requestVars, dataVars, convLock, faultVars>>

(* Sending fails, and is recorded unless the dispatcher dies before.       *)
PublishClaimFails ==
    /\ claimed /\ claimed' = FALSE
    /\ Fault
    /\ Records \/ UNCHANGED task
    /\ UNCHANGED <<account, publishing, messages, workerVars, requestVars, dataVars, convLock>>

LoseMessage ==
    /\ messages > 0 /\ messages' = messages - 1
    /\ Fault
    /\ UNCHANGED <<taskVars, publishing, claimed, workerVars, requestVars, dataVars, convLock>>

-----------------------------------------------------------------------------
(* A worker.                                                               *)

Goto(w, phase) == pc' = [pc EXCEPT ![w] = phase]
Advance(w, from, to) == pc[w] = from /\ Goto(w, to)

(* Leaving the task gives back the execution lock.                         *)
Leaves(w) ==
    /\ Goto(w, "idle")
    /\ lock' = IF lock = w THEN Nobody ELSE lock
    /\ lost' = lost \ {w}
    /\ batch' = [batch EXCEPT ![w] = {}] /\ target' = [target EXCEPT ![w] = Nobody]

(* Mutant: a worker does not wait for a message.                           *)
TakeNothing(w) ==
    /\ Advance(w, "idle", "taken") /\ messages' = messages - 1
    /\ UNCHANGED <<taskVars, publishing, claimed, batch, target, lock, lost, requestVars,
                   dataVars, convLock, faultVars>>

TakeMessage(w) ==
    /\ Advance(w, "idle", "taken")
    /\ messages > 0 /\ messages' = messages - 1
    /\ UNCHANGED <<taskVars, publishing, claimed, batch, target, lock, lost, requestVars,
                   dataVars, convLock, faultVars>>

(* The lock is tried once; a message that finds it taken is dropped.       *)
TryLock(w) ==
    /\ pc[w] = "taken"
    /\ \/ lock = Nobody /\ Goto(w, "locked") /\ lock' = w /\ UNCHANGED <<batch, target, lost>>
       \/ lock # Nobody /\ Leaves(w)
    /\ UNCHANGED <<taskVars, messageVars, requestVars, dataVars, convLock, faultVars>>

(* The lease is extended, unless the task is completed.                    *)
ExtendClaim(w) ==
    /\ pc[w] = "locked"
    /\ \/ task.status = "pending" /\ Goto(w, "listing")
          /\ task' = [task EXCEPT !.due = FALSE] /\ UNCHANGED <<batch, target, lock, lost>>
       \/ task.status # "pending" /\ Leaves(w) /\ UNCHANGED task
    /\ UNCHANGED <<account, messageVars, requestVars, dataVars, convLock, faultVars>>

(* All conversations are listed again and again until there are none.      *)
ListConversations(w) ==
    /\ Advance(w, "listing", IF Live = {} THEN "threads" ELSE "deleting")
    /\ batch' = [batch EXCEPT ![w] = Live]
    /\ UNCHANGED <<taskVars, messageVars, target, lock, lost, requestVars, dataVars, convLock,
                   faultVars>>

DeleteConversation(w, c) ==
    /\ pc[w] = "deleting" /\ c \in batch[w] /\ convLock[c] = Nobody
    /\ batch' = [batch EXCEPT ![w] = @ \ {c}]
    /\ \/ c \in Live /\ Goto(w, "thread") /\ target' = [target EXCEPT ![w] = c]
          /\ convLock' = [convLock EXCEPT ![c] = w]
       \/ c \notin Live /\ UNCHANGED <<pc, target, convLock>>
    /\ UNCHANGED <<taskVars, messageVars, lock, lost, requestVars, dataVars, faultVars>>

BatchEnds(w) ==
    /\ Advance(w, "deleting", "listing") /\ batch[w] = {}
    /\ UNCHANGED <<taskVars, messageVars, batch, target, lock, lost, requestVars, dataVars,
                   convLock, faultVars>>

(* Deleting files needs the user's container, and a user that is marked as *)
(* deleted gets none while there is a volume.                              *)
NoContainer == volume /\ userSealed

EraseConversation(w) ==
    /\ pc[w] \in Stores /\ (pc[w] = "files" => ~NoContainer)
    /\ Goto(w, After[pc[w]])
    /\ stores' = [stores EXCEPT ![pc[w]] = @ \ {target[w]}]
    /\ tombstone' = tombstone \cup {target[w]}
    /\ UNCHANGED <<taskVars, messageVars, batch, target, lock, lost, requestVars, row, volume,
                   userSealed, late, convLock, faultVars>>

DropRow(w) ==
    /\ Advance(w, "row", "deleting")
    /\ row' = [row EXCEPT ![target[w]] = "deleted"]
    /\ convLock' = [convLock EXCEPT ![target[w]] = Nobody]
    /\ target' = [target EXCEPT ![w] = Nobody]
    /\ UNCHANGED <<taskVars, messageVars, batch, lock, lost, requestVars, stores, tombstone,
                   volume, userSealed, late, faultVars>>

(* What is left of the user: threads with all tombstones, then recalls.    *)
ClearStore(w) ==
    /\ pc[w] \in {"threads", "recalls"} /\ Goto(w, After[pc[w]])
    /\ stores' = [stores EXCEPT ![StoreOf[pc[w]]] = {}]
    /\ tombstone' = IF pc[w] = "threads" THEN {} ELSE tombstone
    /\ UNCHANGED <<taskVars, messageVars, batch, target, lock, lost, requestVars, row, volume,
                   userSealed, late, convLock, faultVars>>

(* The sandbox marks the user as deleted, then removes container and volume.*)
DeleteSandbox(w) ==
    /\ pc[w] = "sandbox" /\ userSealed' = TRUE
    /\ \/ Goto(w, "complete") /\ volume' = FALSE /\ stores' = [stores EXCEPT !["files"] = {}]
          /\ UNCHANGED faultVars
       \/ Goto(w, "failing") /\ UNCHANGED <<volume, stores, faults>>
          /\ volumeFaults < MaxVolumeFaults /\ volumeFaults' = volumeFaults + 1
    /\ UNCHANGED <<taskVars, messageVars, batch, target, lock, lost, requestVars, row,
                   tombstone, late, convLock>>

(* One transaction deletes the account and completes the task.             *)
Complete(w) ==
    /\ pc[w] = "complete" /\ Leaves(w)
    /\ account' = "gone"
    /\ task' = IF task.status = "completed" THEN task
               ELSE [task EXCEPT !.status = "completed", !.failed = FALSE]
    /\ UNCHANGED <<messageVars, requestVars, dataVars, convLock, faultVars>>

-----------------------------------------------------------------------------
(* Failures of a worker.                                                   *)

(* An exception gives back the conversation, not yet the execution lock.   *)
Raises(w) ==
    /\ Goto(w, IF pc[w] = "taken" THEN "refused" ELSE "failing")
    /\ convLock' = [c \in Conversations |-> IF convLock[c] = w THEN Nobody ELSE convLock[c]]
    /\ UNCHANGED <<taskVars, messageVars, batch, target, lock, lost, requestVars, dataVars>>

(* A conversation that is running or being cleaned up.                     *)
ConversationIsBusy(w, c) ==
    /\ pc[w] = "deleting" /\ c \in batch[w] /\ convLock[c] # Nobody
    /\ Raises(w) /\ UNCHANGED faultVars

SandboxRefuses(w) ==
    /\ pc[w] = "files" /\ NoContainer
    /\ Raises(w) /\ UNCHANGED faultVars

Fails(w) ==
    /\ pc[w] \in Cleaning \cup {"taken", "locked"}
    /\ Raises(w) /\ Fault

(* The failure and the time of the next attempt are written, or that fails *)
(* as well; the lock is given back afterwards.                             *)
RecordFailure(w) ==
    /\ pc[w] \in {"refused", "failing"} /\ Leaves(w)
    /\ \/ Records /\ UNCHANGED faultVars
       \/ Fault /\ UNCHANGED task
    /\ UNCHANGED <<account, messageVars, requestVars, dataVars, convLock>>

(* The message of a lost worker is delivered again.                        *)
Crash(w) ==
    /\ pc[w] # "idle" /\ Leaves(w)
    /\ Room /\ Fault
    /\ convLock' = [c \in Conversations |-> IF convLock[c] = w THEN Nobody ELSE convLock[c]]
    /\ UNCHANGED <<taskVars, publishing, claimed, requestVars, dataVars>>

(* The connection that holds the lock breaks and the worker goes on.       *)
LoseLock(w) ==
    /\ lock = w /\ lock' = Nobody /\ lost' = lost \cup {w}
    /\ Fault
    /\ UNCHANGED <<taskVars, messageVars, pc, batch, target, requestVars, dataVars, convLock>>

-----------------------------------------------------------------------------
(* The periodic cleanup deletes a draft that has expired.                  *)
ExpireDraft(c) ==
    /\ row[c] = "draft" /\ convLock[c] = Nobody /\ ~NoContainer
    /\ row' = [row EXCEPT ![c] = "deleted"]
    /\ stores' = [s \in Stores |-> stores[s] \ {c}]
    /\ tombstone' = tombstone \cup {c}
    /\ UNCHANGED <<taskVars, messageVars, workerVars, requestVars, volume, userSealed, late,
                   convLock, faultVars>>

UserStep ==
    \E r \in Requests :
        \/ \E c \in Conversations \cup {Nobody} : Admit(r, c)
        \/ \E c \in Conversations : Create(r, c)
        \/ \E s \in Stores : TurnWrites(r, s)
        \/ StartTurn(r) \/ Rejected(r) \/ EndTurn(r)

Works(w) ==
    \/ TryLock(w) \/ ExtendClaim(w) \/ ListConversations(w) \/ BatchEnds(w)
    \/ \E c \in Conversations : DeleteConversation(w, c) \/ ConversationIsBusy(w, c)
    \/ EraseConversation(w) \/ SandboxRefuses(w) \/ DropRow(w)
    \/ ClearStore(w) \/ DeleteSandbox(w) \/ Complete(w) \/ RecordFailure(w)

Schedule ==
    RequestDeletion \/ PublishRequest \/ BecomesDue \/ ClaimDue \/ PublishClaim
    \/ PublishClaimFails \/ LoseMessage

Next ==
    \/ UserStep \/ Schedule
    \/ \E w \in Workers : TakeMessage(w) \/ Works(w) \/ Fails(w) \/ Crash(w) \/ LoseLock(w)
    \/ \E c \in Conversations : ExpireDraft(c)

Spec == Init /\ [][Next]_vars

(* Turns and workers are bounded in time, a waiting message is taken, time *)
(* passes and the dispatcher runs periodically.                            *)
Fairness ==
    /\ \A r \in Requests : WF_vars(EndTurn(r))
    /\ \A w \in Workers : WF_vars(Works(w))
    /\ WF_vars(\E w \in Workers : TakeMessage(w))
    /\ WF_vars(BecomesDue) /\ WF_vars(ClaimDue) /\ WF_vars(PublishClaim)

FairSpec == Spec /\ Fairness

-----------------------------------------------------------------------------
(* Properties.                                                             *)

Holders == Workers \cup Requests \cup {Nobody}

TypeOK ==
    /\ account \in {"active", "disabled", "gone"}
    /\ task \in [status : Status, due : BOOLEAN, failed : BOOLEAN]
    /\ publishing \in BOOLEAN /\ claimed \in BOOLEAN /\ messages \in 0 .. MaxMessages
    /\ pc \in [Workers -> Phases]
    /\ batch \in [Workers -> SUBSET Conversations]
    /\ target \in [Workers -> Conversations \cup {Nobody}]
    /\ lock \in Workers \cup {Nobody} /\ lost \subseteq Workers
    /\ request \in [Requests -> {"idle", "admitted", "running"}]
    /\ wants \in [Requests -> Conversations \cup {Nobody}]
    /\ row \in [Conversations -> {"unused", "draft", "formal", "deleted"}]
    /\ convLock \in [Conversations -> Holders]
    /\ stores \in [Stores -> SUBSET Conversations] /\ tombstone \subseteq Conversations
    /\ volume \in BOOLEAN /\ userSealed \in BOOLEAN /\ late \subseteq Conversations
    /\ faults \in 0 .. MaxFaults /\ volumeFaults \in 0 .. MaxVolumeFaults

(* Repeated messages never make two workers clean up the same user at the  *)
(* same time, unless one of them lost the lock; a failure is written while *)
(* the lock is still held (_process_user_deletion).                        *)
OneCleaner ==
    \A v, w \in Workers \ lost :
        pc[v] \in Cleaning \cup {"failing"} /\ pc[w] \in Cleaning \cup {"failing"} => v = w

(* A completed removal left nothing behind - neither the account nor data  *)
(* in any store, the volume or a running turn - whatever failed and was    *)
(* repeated before.  What may appear later is only the empty conversation  *)
(* of a request that was admitted before the account was disabled.         *)
CompletedMeansClean ==
    task.status = "completed" =>
        /\ account = "gone" /\ ~task.failed
        /\ ~volume /\ \A s \in Stores : stores[s] = {}
        /\ \A r \in Requests : request[r] # "running"
        /\ Live \subseteq late

(* The completed state is final: no late failure, repeated message or      *)
(* overtaken worker changes the task again (complete, record_failure).     *)
CompletionIsFinal == [][task.status = "completed" => task' = task]_vars

(* docs/07, 4: a pending task is scheduled again until it succeeds.        *)
DeletionFinishes == (task.status = "pending") ~> (task.status = "completed")

(* The only thing that can keep a removal from ever ending is a late       *)
(* conversation that meets a half-removed sandbox: its files cannot be     *)
(* deleted (NoContainer) and the volume is only removed after them.        *)
Overtaken == NoContainer /\ Live \cap late # {}
OnlyLateRowsStall == (task.status = "pending") ~> (task.status = "completed" \/ Overtaken)

-----------------------------------------------------------------------------
(* Why a completed removal is clean: the inductive invariant.              *)

(* A conversation in work is locked by who works on it, its row is live,   *)
(* and requests know only conversations that were created.                 *)
LocksMatch ==
    /\ \A r \in Requests :
        /\ request[r] = "running" =>
            wants[r] \in Live /\ row[wants[r]] = "formal" /\ convLock[wants[r]] = r
        /\ wants[r] # Nobody => row[wants[r]] # "unused"
    /\ \A w \in Workers :
        pc[w] \in Erasing => target[w] \in Live /\ convLock[target[w]] = w

AccountMatches ==
    /\ account = "active" <=> task.status = "none"
    /\ account = "gone" <=> task.status = "completed"
    /\ task.status = "completed" => ~task.failed
    /\ \A w \in Workers : pc[w] \in Cleaning => task.status # "none"

(* Nobody who was admitted knows a late conversation, so it stays empty.   *)
LateRowsAreEmpty ==
    /\ account = "active" => late = {}
    /\ \A r \in Requests : wants[r] \notin late
    /\ \A s \in Stores : stores[s] \cap late = {}

ErasedBefore == [recall |-> {"thread"}, files |-> {"thread", "recall"}, row |-> Stores]

(* Data belongs to a live row: it is erased before its row, under its lock.*)
DataHasRows ==
    /\ \A s \in Stores : stores[s] \subseteq Live
    /\ \A w \in Workers : pc[w] \in Erasing \ {"thread"} =>
        \A s \in ErasedBefore[pc[w]] : target[w] \notin stores[s]

(* After the last listing only late rows are left, and no turn runs.       *)
ListedAll ==
    /\ (task.status = "completed" \/ \E w \in Workers : pc[w] \in Clearing) => Live \subseteq late
    /\ (task.status = "completed" \/ \E w \in Workers : pc[w] = "complete") => ~volume

CleanInv ==
    TypeOK /\ LocksMatch /\ AccountMatches /\ LateRowsAreEmpty /\ DataHasRows /\ ListedAll

(* A worker that goes on after it got the lock has it, or lost it.         *)
LockInv ==
    \A w \in Workers : pc[w] \in Cleaning \cup {"locked", "failing"} => lock = w \/ w \in lost

=============================================================================
