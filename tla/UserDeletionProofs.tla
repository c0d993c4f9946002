------------------------- MODULE UserDeletionProofs -------------------------
(***************************************************************************)
(* Proofs about UserDeletion, for every number of workers, requests and    *)
(* conversations and every number of faults.  CleanInv is inductive and    *)
(* implies that a completed removal is clean; LockInv is inductive of its  *)
(* own and implies that one worker at a time cleans up.                    *)
(***************************************************************************)
EXTENDS UserDeletion, TLAPS

USE DEF Stores, Status, Erasing, Clearing, Cleaning, Phases, Live, StoreOf, After, Holders,
        Goto, Advance, Leaves, Ends, Fault, Room, Raises, Records, NoContainer, ErasedBefore,
        taskVars, messageVars, workerVars, requestVars, dataVars, faultVars
USE BoundAssumption, HolderAssumption

TaskType == [status : Status, due : BOOLEAN, failed : BOOLEAN]

(* Writing a failure changes no status, and nothing of a completed task.   *)
LEMMA RecordsKeepsStatus ==
    ASSUME task \in TaskType, Records \/ UNCHANGED task
    PROVE  /\ task' \in TaskType /\ task'.status = task.status
           /\ task.status # "pending" => task' = task
BY DEF TaskType

(* Nothing has happened yet.                                               *)
LEMMA InitClean == Init => CleanInv /\ LockInv
<1> SUFFICES ASSUME Init PROVE CleanInv /\ LockInv
  OBVIOUS
<1> USE DEF Init
<1>1. TypeOK
  <2>1. task \in [status : Status, due : BOOLEAN, failed : BOOLEAN]
    OBVIOUS
  <2>2. /\ request \in [Requests -> {"idle", "admitted", "running"}]
        /\ wants \in [Requests -> Conversations \cup {Nobody}]
        /\ pc \in [Workers -> Phases]
    OBVIOUS
  <2>3. /\ batch \in [Workers -> SUBSET Conversations]
        /\ target \in [Workers -> Conversations \cup {Nobody}]
        /\ stores \in [Stores -> SUBSET Conversations]
    OBVIOUS
  <2>4. /\ row \in [Conversations -> {"unused", "draft", "formal", "deleted"}]
        /\ convLock \in [Conversations -> Holders]
    OBVIOUS
  <2>5. account \in {"active", "disabled", "gone"} /\ lock \in Workers \cup {Nobody}
    OBVIOUS
  <2>7. publishing \in BOOLEAN /\ claimed \in BOOLEAN /\ volume \in BOOLEAN /\ userSealed \in BOOLEAN
    OBVIOUS
  <2>8. messages \in 0 .. MaxMessages /\ faults \in 0 .. MaxFaults
        /\ volumeFaults \in 0 .. MaxVolumeFaults
    OBVIOUS
  <2>6. lost \subseteq Workers /\ tombstone \subseteq Conversations /\ late \subseteq Conversations
    OBVIOUS
  <2> QED BY ONLY <2>1, <2>2, <2>3, <2>4, <2>5, <2>6, <2>7, <2>8 DEF TypeOK
<1>2. LocksMatch /\ AccountMatches /\ LateRowsAreEmpty
  BY DEF LocksMatch, AccountMatches, LateRowsAreEmpty
<1>3. DataHasRows /\ ListedAll /\ LockInv
  BY DEF DataHasRows, ListedAll, LockInv
<1> QED BY <1>1, <1>2, <1>3 DEF CleanInv

-----------------------------------------------------------------------------
(* The requests of the user.                                               *)
LEMMA RequestsStayClean ==
    ASSUME CleanInv, NEW r \in Requests,
           \/ \E c \in Conversations \cup {Nobody} : Admit(r, c)
           \/ \E c \in Conversations : Create(r, c)
           \/ \E s \in Stores : TurnWrites(r, s)
           \/ StartTurn(r) \/ Rejected(r) \/ EndTurn(r)
    PROVE  CleanInv'
<1> USE DEF CleanInv
<1>1. ASSUME NEW c \in Conversations \cup {Nobody}, Admit(r, c) PROVE CleanInv'
  <2> USE <1>1 DEF Admit
  <2>1. TypeOK'
    BY DEF TypeOK
  <2>2. LocksMatch' /\ AccountMatches'
    BY DEF TypeOK, LocksMatch, AccountMatches
  <2>3. LateRowsAreEmpty'
    BY DEF TypeOK, LateRowsAreEmpty
  <2>4. DataHasRows' /\ ListedAll'
    BY DEF DataHasRows, ListedAll
  <2> QED BY <2>1, <2>2, <2>3, <2>4
<1>2. ASSUME NEW c \in Conversations, Create(r, c) PROVE CleanInv'
  <2> USE <1>2 DEF Create
  <2>1. TypeOK'
    BY DEF TypeOK
  <2>2. LocksMatch' /\ AccountMatches'
    BY DEF TypeOK, LocksMatch, AccountMatches
  <2>3. LateRowsAreEmpty'
    BY DEF TypeOK, LateRowsAreEmpty, LocksMatch, DataHasRows
  <2>4. DataHasRows'
    BY DEF TypeOK, DataHasRows
  <2>5. ListedAll'
    BY DEF TypeOK, ListedAll, AccountMatches
  <2> QED BY <2>1, <2>2, <2>3, <2>4, <2>5
<1>3. ASSUME NEW s \in Stores, TurnWrites(r, s) PROVE CleanInv'
  <2> USE <1>3 DEF TurnWrites
  <2>1. TypeOK'
    BY DEF TypeOK, LocksMatch
  <2>2. LocksMatch' /\ AccountMatches'
    BY DEF TypeOK, LocksMatch, AccountMatches
  <2>3. LateRowsAreEmpty'
    BY DEF TypeOK, LateRowsAreEmpty
  <2>4. DataHasRows'
    BY DEF TypeOK, DataHasRows, LocksMatch
  <2>5. ListedAll'
    BY DEF TypeOK, ListedAll, LocksMatch, LateRowsAreEmpty
  <2> QED BY <2>1, <2>2, <2>3, <2>4, <2>5
<1>4. CASE StartTurn(r)
  <2> USE <1>4 DEF StartTurn
  <2>1. TypeOK'
    BY DEF TypeOK
  <2>2. LocksMatch' /\ AccountMatches'
    BY DEF TypeOK, LocksMatch, AccountMatches
  <2>3. LateRowsAreEmpty' /\ DataHasRows'
    BY DEF TypeOK, LateRowsAreEmpty, DataHasRows
  <2>4. ListedAll'
    BY DEF TypeOK, ListedAll
  <2> QED BY <2>1, <2>2, <2>3, <2>4
<1>5. CASE Rejected(r) \/ EndTurn(r)
  <2> USE <1>5 DEF Rejected, EndTurn
  <2>1. TypeOK'
    BY DEF TypeOK
  <2>2. LocksMatch'
    BY DEF TypeOK, LocksMatch
  <2>3. AccountMatches' /\ LateRowsAreEmpty'
    BY DEF TypeOK, AccountMatches, LateRowsAreEmpty
  <2>4. DataHasRows' /\ ListedAll'
    BY DEF TypeOK, DataHasRows, ListedAll
  <2> QED BY <2>1, <2>2, <2>3, <2>4
<1> QED BY <1>1, <1>2, <1>3, <1>4, <1>5

-----------------------------------------------------------------------------
(* The task, its messages and the cleanup of drafts.                       *)
LEMMA ScheduleStaysClean ==
    ASSUME CleanInv, Schedule \/ \E c \in Conversations : ExpireDraft(c) PROVE CleanInv'
<1> USE DEF CleanInv
<1>1. CASE RequestDeletion \/ BecomesDue \/ ClaimDue
  <2> USE <1>1 DEF RequestDeletion, BecomesDue, ClaimDue
  <2>0. task' \in [status : Status, due : BOOLEAN, failed : BOOLEAN]
    <3>1. CASE RequestDeletion
      BY <3>1
    <3>2. CASE BecomesDue \/ ClaimDue
      BY <3>2 DEF TypeOK
    <3> QED BY <3>1, <3>2
  <2>1. TypeOK'
    BY <2>0 DEF TypeOK
  <2>2. LocksMatch' /\ AccountMatches'
    BY DEF TypeOK, LocksMatch, AccountMatches
  <2>3. LateRowsAreEmpty' /\ DataHasRows'
    BY DEF LateRowsAreEmpty, DataHasRows
  <2>4. ListedAll'
    BY DEF TypeOK, ListedAll
  <2> QED BY <2>1, <2>2, <2>3, <2>4
<1>2. CASE PublishRequest \/ PublishClaim \/ PublishClaimFails \/ LoseMessage
  <2> USE <1>2 DEF PublishRequest, PublishClaim, PublishClaimFails, LoseMessage
  <2>0. /\ task' \in TaskType /\ task'.status = task.status
        /\ task.status # "pending" => task' = task
    BY RecordsKeepsStatus DEF TypeOK, TaskType
  <2> HIDE DEF Records
  <2>a. messages' \in 0 .. MaxMessages /\ faults' \in 0 .. MaxFaults
    BY DEF TypeOK
  <2>1. TypeOK'
    BY <2>0, <2>a DEF TypeOK, TaskType
  <2>2. LocksMatch' /\ AccountMatches'
    BY <2>0 DEF TypeOK, LocksMatch, AccountMatches
  <2>3. LateRowsAreEmpty' /\ DataHasRows'
    BY DEF LateRowsAreEmpty, DataHasRows
  <2>4. ListedAll'
    BY <2>0 DEF TypeOK, ListedAll
  <2> QED BY <2>1, <2>2, <2>3, <2>4
<1>3. ASSUME NEW c \in Conversations, ExpireDraft(c) PROVE CleanInv'
  <2> USE <1>3 DEF ExpireDraft
  <2>1. TypeOK'
    BY DEF TypeOK
  <2>2. LocksMatch' /\ AccountMatches'
    BY DEF TypeOK, LocksMatch, AccountMatches
  <2>3. LateRowsAreEmpty'
    BY DEF TypeOK, LateRowsAreEmpty
  <2>4. DataHasRows'
    BY DEF TypeOK, DataHasRows
  <2>5. ListedAll'
    BY DEF TypeOK, ListedAll
  <2> QED BY <2>1, <2>2, <2>3, <2>4, <2>5
<1> QED BY <1>1, <1>2, <1>3 DEF Schedule

-----------------------------------------------------------------------------
(* A worker from its message to its list of conversations.                 *)
LEMMA StartStaysClean ==
    ASSUME CleanInv, NEW w \in Workers,
           \/ TakeMessage(w) \/ TryLock(w) \/ ExtendClaim(w)
           \/ ListConversations(w) \/ BatchEnds(w)
    PROVE  CleanInv'
<1> USE DEF CleanInv
<1>1. CASE TakeMessage(w) \/ TryLock(w) \/ BatchEnds(w)
  <2> USE <1>1 DEF TakeMessage, TryLock, BatchEnds
  <2>1. TypeOK'
    BY DEF TypeOK
  <2>2. LocksMatch'
    BY DEF TypeOK, LocksMatch
  <2>3. AccountMatches' /\ LateRowsAreEmpty'
    BY DEF TypeOK, AccountMatches, LateRowsAreEmpty
  <2>4. DataHasRows' /\ ListedAll'
    BY DEF TypeOK, DataHasRows, ListedAll
  <2> QED BY <2>1, <2>2, <2>3, <2>4
<1>2. CASE ExtendClaim(w)
  <2> USE <1>2 DEF ExtendClaim
  <2>1. TypeOK'
    BY DEF TypeOK
  <2>2. LocksMatch'
    BY DEF TypeOK, LocksMatch
  <2>3. AccountMatches' /\ LateRowsAreEmpty'
    BY DEF TypeOK, AccountMatches, LateRowsAreEmpty
  <2>4. DataHasRows' /\ ListedAll'
    BY DEF TypeOK, DataHasRows, ListedAll
  <2> QED BY <2>1, <2>2, <2>3, <2>4
<1>3. CASE ListConversations(w)
  <2> USE <1>3 DEF ListConversations
  <2>1. TypeOK'
    BY DEF TypeOK
  <2>2. LocksMatch'
    BY DEF TypeOK, LocksMatch
  <2>3. AccountMatches' /\ LateRowsAreEmpty'
    BY DEF TypeOK, AccountMatches, LateRowsAreEmpty
  <2>4. DataHasRows'
    BY DEF TypeOK, DataHasRows
  <2>5. ListedAll'
    BY DEF TypeOK, ListedAll
  <2> QED BY <2>1, <2>2, <2>3, <2>4, <2>5
<1> QED BY <1>1, <1>2, <1>3

(* A worker that deletes one conversation.                                 *)
LEMMA DeletionStaysClean ==
    ASSUME CleanInv, NEW w \in Workers,
           \/ \E c \in Conversations : DeleteConversation(w, c)
           \/ EraseConversation(w) \/ DropRow(w)
    PROVE  CleanInv'
<1> USE DEF CleanInv
<1>1. ASSUME NEW c \in Conversations, DeleteConversation(w, c) PROVE CleanInv'
  <2> USE <1>1 DEF DeleteConversation
  <2>1. TypeOK'
    BY DEF TypeOK
  <2>2. LocksMatch'
    BY DEF TypeOK, LocksMatch
  <2>3. AccountMatches' /\ LateRowsAreEmpty'
    BY DEF TypeOK, AccountMatches, LateRowsAreEmpty
  <2>4. DataHasRows' /\ ListedAll'
    BY DEF TypeOK, DataHasRows, ListedAll
  <2> QED BY <2>1, <2>2, <2>3, <2>4
<1>2. CASE EraseConversation(w)
  <2> USE <1>2 DEF EraseConversation
  <2>1. TypeOK'
    BY DEF TypeOK, LocksMatch
  <2>2. LocksMatch'
    BY DEF TypeOK, LocksMatch
  <2>3. AccountMatches' /\ LateRowsAreEmpty'
    BY DEF TypeOK, AccountMatches, LateRowsAreEmpty
  <2>4. DataHasRows'
    BY DEF TypeOK, DataHasRows, LocksMatch
  <2>5. ListedAll'
    BY DEF TypeOK, ListedAll
  <2> QED BY <2>1, <2>2, <2>3, <2>4, <2>5
<1>3. CASE DropRow(w)
  <2> USE <1>3 DEF DropRow
  <2>1. TypeOK'
    BY DEF TypeOK
  <2>2. LocksMatch'
    BY DEF TypeOK, LocksMatch
  <2>3. AccountMatches' /\ LateRowsAreEmpty'
    BY DEF TypeOK, AccountMatches, LateRowsAreEmpty
  <2>4. DataHasRows'
    BY DEF TypeOK, DataHasRows, LocksMatch
  <2>5. ListedAll'
    BY DEF TypeOK, ListedAll
  <2> QED BY <2>1, <2>2, <2>3, <2>4, <2>5
<1> QED BY <1>1, <1>2, <1>3

(* A worker that removes the rest of the user.                             *)
LEMMA ClearingStaysClean ==
    ASSUME CleanInv, NEW w \in Workers, ClearStore(w) \/ DeleteSandbox(w) \/ Complete(w)
    PROVE  CleanInv'
<1> USE DEF CleanInv
<1>1. CASE ClearStore(w)
  <2> USE <1>1 DEF ClearStore
  <2>1. TypeOK'
    BY DEF TypeOK
  <2>2. LocksMatch'
    BY DEF TypeOK, LocksMatch
  <2>3. AccountMatches' /\ LateRowsAreEmpty'
    BY DEF TypeOK, AccountMatches, LateRowsAreEmpty
  <2>4. DataHasRows'
    BY DEF TypeOK, DataHasRows
  <2>5. ListedAll'
    BY DEF TypeOK, ListedAll
  <2> QED BY <2>1, <2>2, <2>3, <2>4, <2>5
<1>2. CASE DeleteSandbox(w)
  <2> USE <1>2 DEF DeleteSandbox
  <2>0. /\ stores' \in [Stores -> SUBSET Conversations] /\ pc' \in [Workers -> Phases]
        /\ volumeFaults' \in 0 .. MaxVolumeFaults
    BY DEF TypeOK
  <2>1. TypeOK'
    BY <2>0 DEF TypeOK
  <2>2. LocksMatch'
    BY DEF TypeOK, LocksMatch
  <2>3. AccountMatches' /\ LateRowsAreEmpty'
    BY DEF TypeOK, AccountMatches, LateRowsAreEmpty
  <2>4. DataHasRows'
    BY DEF TypeOK, DataHasRows
  <2>5. ListedAll'
    BY DEF TypeOK, ListedAll
  <2> QED BY <2>1, <2>2, <2>3, <2>4, <2>5
<1>3. CASE Complete(w)
  <2> USE <1>3 DEF Complete
  <2>1. TypeOK'
    BY DEF TypeOK
  <2>2. LocksMatch' /\ AccountMatches'
    BY DEF TypeOK, LocksMatch, AccountMatches
  <2>3. LateRowsAreEmpty' /\ DataHasRows'
    BY DEF TypeOK, LateRowsAreEmpty, DataHasRows, AccountMatches
  <2>4. ListedAll'
    BY DEF TypeOK, ListedAll
  <2> QED BY <2>1, <2>2, <2>3, <2>4
<1> QED BY <1>1, <1>2, <1>3

(* A worker that fails, in whatever way.                                   *)
LEMMA FailureStaysClean ==
    ASSUME CleanInv, NEW w \in Workers,
           \/ \E c \in Conversations : ConversationIsBusy(w, c)
           \/ SandboxRefuses(w) \/ Fails(w)
           \/ RecordFailure(w) \/ Crash(w) \/ LoseLock(w)
    PROVE  CleanInv'
<1> USE DEF CleanInv
<1>1. CASE (\E c \in Conversations : ConversationIsBusy(w, c)) \/ SandboxRefuses(w) \/ Fails(w)
  <2> USE <1>1 DEF ConversationIsBusy, SandboxRefuses, Fails
  <2>1. TypeOK'
    BY DEF TypeOK
  <2>2. LocksMatch'
    BY DEF TypeOK, LocksMatch
  <2>3. AccountMatches' /\ LateRowsAreEmpty'
    BY DEF TypeOK, AccountMatches, LateRowsAreEmpty
  <2>4. DataHasRows' /\ ListedAll'
    BY DEF TypeOK, DataHasRows, ListedAll
  <2> QED BY <2>1, <2>2, <2>3, <2>4
<1>2. CASE RecordFailure(w) \/ Crash(w) \/ LoseLock(w)
  <2> USE <1>2 DEF RecordFailure, Crash, LoseLock
  <2>0. /\ task' \in TaskType /\ task'.status = task.status
        /\ task.status # "pending" => task' = task
    BY RecordsKeepsStatus DEF TypeOK, TaskType
  <2> HIDE DEF Records
  <2>1. TypeOK'
    BY <2>0 DEF TypeOK, TaskType
  <2>2. LocksMatch'
    BY DEF TypeOK, LocksMatch
  <2>3. AccountMatches' /\ LateRowsAreEmpty'
    BY <2>0 DEF TypeOK, AccountMatches, LateRowsAreEmpty
  <2>4. DataHasRows' /\ ListedAll'
    BY <2>0 DEF TypeOK, DataHasRows, ListedAll
  <2> QED BY <2>1, <2>2, <2>3, <2>4
<1> QED BY <1>1, <1>2

(* Nothing happens.                                                        *)
LEMMA StutterStaysClean == CleanInv /\ UNCHANGED vars => CleanInv'
<1> SUFFICES ASSUME CleanInv, UNCHANGED vars PROVE CleanInv'
  OBVIOUS
<1> USE DEF vars, CleanInv
<1>1. TypeOK' /\ LocksMatch' /\ AccountMatches'
  BY DEF TypeOK, LocksMatch, AccountMatches
<1>2. LateRowsAreEmpty' /\ DataHasRows' /\ ListedAll'
  BY DEF LateRowsAreEmpty, DataHasRows, ListedAll
<1> QED BY <1>1, <1>2

-----------------------------------------------------------------------------
(* Theorems.                                                               *)

(* Everything that happens keeps CleanInv, and it holds in every state.    *)
THEOREM Inductive == Spec => []CleanInv
<1>1. CleanInv /\ [Next]_vars => CleanInv'
  BY RequestsStayClean, ScheduleStaysClean, StartStaysClean, DeletionStaysClean,
     ClearingStaysClean, FailureStaysClean, StutterStaysClean
     DEF Next, UserStep, Works
<1> QED BY <1>1, InitClean, PTL DEF Spec

(* Every variable keeps its type.                                          *)
THEOREM TypeCorrect == Spec => []TypeOK
<1>1. CleanInv => TypeOK
  BY DEF CleanInv
<1> QED BY <1>1, Inductive, PTL

(* However many messages, failures and crashes there were, a removal that  *)
(* is completed has left neither account, data, volume nor running turn.   *)
THEOREM CompletedIsClean == Spec => []CompletedMeansClean
<1>1. CleanInv => CompletedMeansClean
  <2> SUFFICES ASSUME CleanInv, task.status = "completed"
               PROVE  /\ account = "gone" /\ ~task.failed
                      /\ ~volume /\ \A s \in Stores : stores[s] = {}
                      /\ \A r \in Requests : request[r] # "running"
                      /\ Live \subseteq late
    BY DEF CompletedMeansClean
  <2> USE DEF CleanInv
  <2>1. account = "gone" /\ ~task.failed
    BY DEF AccountMatches
  <2>2. ~volume /\ Live \subseteq late
    BY DEF ListedAll
  <2>3. ASSUME NEW s \in Stores PROVE stores[s] = {}
    BY <2>2 DEF DataHasRows, LateRowsAreEmpty
  <2>4. ASSUME NEW r \in Requests, request[r] = "running" PROVE FALSE
    BY <2>2, <2>4 DEF LocksMatch, LateRowsAreEmpty
  <2> QED BY <2>1, <2>2, <2>3, <2>4
<1> QED BY <1>1, Inductive, PTL

(* No step of anybody changes the task of a removal that is completed.     *)
THEOREM CompletedForEver == Spec => CompletionIsFinal
<1>1. TypeOK /\ [Next]_vars => [task.status = "completed" => task' = task]_vars
  <2> SUFFICES ASSUME TypeOK, Next, task.status = "completed" PROVE task' = task
    BY DEF vars
  <2>1. CASE UserStep
    BY <2>1 DEF UserStep, Admit, Create, TurnWrites, StartTurn, Rejected, EndTurn
  <2>2. CASE Schedule
    BY <2>2 DEF Schedule, RequestDeletion, PublishRequest, BecomesDue, ClaimDue, PublishClaim,
                PublishClaimFails, LoseMessage
  <2>3. ASSUME NEW w \in Workers, Works(w) PROVE task' = task
    BY <2>3 DEF Works, TryLock, ExtendClaim, ListConversations, BatchEnds, DeleteConversation,
                ConversationIsBusy, EraseConversation, SandboxRefuses, DropRow, ClearStore,
                DeleteSandbox, Complete, RecordFailure
  <2>4. ASSUME NEW w \in Workers, TakeMessage(w) \/ Fails(w) \/ Crash(w) \/ LoseLock(w)
        PROVE  task' = task
    BY <2>4 DEF TakeMessage, Fails, Crash, LoseLock
  <2>5. ASSUME NEW c \in Conversations, ExpireDraft(c) PROVE task' = task
    BY <2>5 DEF ExpireDraft
  <2> QED BY <2>1, <2>2, <2>3, <2>4, <2>5 DEF Next
<1> QED BY <1>1, TypeCorrect, PTL DEF Spec, CompletionIsFinal

(* Workers and nobody else take and leave the execution lock.              *)
LEMMA LockStays == TypeOK /\ LockInv /\ [Next]_vars => LockInv'
<1> SUFFICES ASSUME TypeOK, LockInv, [Next]_vars PROVE LockInv'
  OBVIOUS
<1> USE DEF LockInv
<1>1. ASSUME UNCHANGED <<pc, lock, lost>> PROVE LockInv'
  BY <1>1
<1>2. CASE UserStep
  BY <1>1, <1>2 DEF UserStep, Admit, Create, TurnWrites, StartTurn, Rejected, EndTurn
<1>3. CASE Schedule
  BY <1>1, <1>3 DEF Schedule, RequestDeletion, PublishRequest, BecomesDue, ClaimDue,
                    PublishClaim, PublishClaimFails, LoseMessage
<1>4. ASSUME NEW w \in Workers, TakeMessage(w) \/ TryLock(w) \/ ExtendClaim(w)
      PROVE  LockInv'
  BY <1>4 DEF TypeOK, TakeMessage, TryLock, ExtendClaim
<1>5. ASSUME NEW w \in Workers,
             \/ ListConversations(w) \/ BatchEnds(w) \/ EraseConversation(w) \/ DropRow(w)
             \/ ClearStore(w) \/ DeleteSandbox(w)
             \/ \E c \in Conversations : DeleteConversation(w, c)
      PROVE  LockInv'
  BY <1>5 DEF TypeOK, ListConversations, BatchEnds, EraseConversation, DropRow, ClearStore,
              DeleteSandbox, DeleteConversation
<1>6. ASSUME NEW w \in Workers, Complete(w) \/ RecordFailure(w) \/ Crash(w) \/ LoseLock(w)
      PROVE  LockInv'
  <2> HIDE DEF Records
  <2> QED BY <1>6 DEF TypeOK, Complete, RecordFailure, Crash, LoseLock
<1>7. ASSUME NEW w \in Workers,
             \/ \E c \in Conversations : ConversationIsBusy(w, c)
             \/ SandboxRefuses(w) \/ Fails(w)
      PROVE  LockInv'
  BY <1>7 DEF TypeOK, ConversationIsBusy, SandboxRefuses, Fails
<1>8. ASSUME NEW c \in Conversations, ExpireDraft(c) PROVE LockInv'
  BY <1>1, <1>8 DEF ExpireDraft
<1>9. CASE UNCHANGED vars
  BY <1>1, <1>9 DEF vars
<1> QED BY <1>2, <1>3, <1>4, <1>5, <1>6, <1>7, <1>8, <1>9 DEF Next, Works

(* Two workers that have not lost the lock never clean up at the same time,*)
(* nor does one of them while the failure of another is being written.     *)
THEOREM OneCleanerAtATime == Spec => []OneCleaner
<1>1. LockInv => OneCleaner
  BY DEF LockInv, OneCleaner
<1> QED BY <1>1, InitClean, TypeCorrect, LockStays, PTL DEF Spec

-----------------------------------------------------------------------------
(* What a removal waits for.                                               *)

(* No lock is left behind: the execution lock belongs to a worker that has *)
(* not left the task, the lock of a conversation to a turn of it that runs *)
(* or to a worker that is erasing it, also after failures and crashes, so  *)
(* that a message is dropped, or a conversation busy, only because of      *)
(* somebody at work.                                                       *)
LocksAreUsed ==
    /\ lock # Nobody => pc[lock] \in Cleaning \cup {"locked", "failing"}
    /\ \A c \in Conversations :
        /\ convLock[c] \in Workers =>
              pc[convLock[c]] \in Erasing /\ target[convLock[c]] = c
        /\ convLock[c] \in Requests =>
              request[convLock[c]] = "running" /\ wants[convLock[c]] = c

(* When files cannot be deleted, since the sandbox is marked and its       *)
(* volume is still there, only late conversations are left: whatever was   *)
(* created before the removal was requested cannot block it (Overtaken).   *)
OnlyLateRowsBlock == NoContainer => Live \subseteq late

(* A removal meets no conversation again and again: once the account is    *)
(* disabled, only late conversations are added to those to delete.         *)
OnlyLateRowsAppear == [][account # "active" => Live' \ late' \subseteq Live \ late]_vars

(* The sandbox is marked after the last listing of the conversations.      *)
SealedAfterListing == userSealed => account # "active" /\ Live \subseteq late

LEMMA LocksStayUsed == TypeOK /\ LocksAreUsed /\ [Next]_vars => LocksAreUsed'
<1> SUFFICES ASSUME TypeOK, LocksAreUsed, [Next]_vars PROVE LocksAreUsed'
  OBVIOUS
<1> USE DEF LocksAreUsed
<1>1. ASSUME UNCHANGED <<pc, target, lock, convLock, requestVars>> PROVE LocksAreUsed'
  BY <1>1
<1>2. ASSUME NEW r \in Requests,
             \/ \E c \in Conversations \cup {Nobody} : Admit(r, c)
             \/ \E c \in Conversations : Create(r, c)
             \/ StartTurn(r) \/ Rejected(r) \/ EndTurn(r)
      PROVE  LocksAreUsed'
  BY <1>2 DEF TypeOK, Admit, Create, StartTurn, Rejected, EndTurn
<1>3. ASSUME NEW r \in Requests, NEW s \in Stores, TurnWrites(r, s) PROVE LocksAreUsed'
  BY <1>1, <1>3 DEF TurnWrites
<1>4. CASE Schedule
  BY <1>1, <1>4 DEF Schedule, RequestDeletion, PublishRequest, BecomesDue, ClaimDue,
                    PublishClaim, PublishClaimFails, LoseMessage
<1>5. ASSUME NEW w \in Workers, TakeMessage(w) \/ TryLock(w) \/ ExtendClaim(w)
      PROVE  LocksAreUsed'
  BY <1>5 DEF TypeOK, TakeMessage, TryLock, ExtendClaim
<1>6. ASSUME NEW w \in Workers,
             \/ ListConversations(w) \/ BatchEnds(w) \/ EraseConversation(w) \/ DropRow(w)
             \/ ClearStore(w) \/ DeleteSandbox(w)
             \/ \E c \in Conversations : DeleteConversation(w, c)
      PROVE  LocksAreUsed'
  BY <1>6 DEF TypeOK, ListConversations, BatchEnds, EraseConversation, DropRow, ClearStore,
              DeleteSandbox, DeleteConversation
<1>7. ASSUME NEW w \in Workers, Complete(w) \/ RecordFailure(w) \/ Crash(w) \/ LoseLock(w)
      PROVE  LocksAreUsed'
  <2> HIDE DEF Records
  <2> QED BY <1>7 DEF TypeOK, Complete, RecordFailure, Crash, LoseLock
<1>8. ASSUME NEW w \in Workers,
             \/ \E c \in Conversations : ConversationIsBusy(w, c)
             \/ SandboxRefuses(w) \/ Fails(w)
      PROVE  LocksAreUsed'
  BY <1>8 DEF TypeOK, ConversationIsBusy, SandboxRefuses, Fails
<1>9. ASSUME NEW c \in Conversations, ExpireDraft(c) PROVE LocksAreUsed'
  BY <1>1, <1>9 DEF ExpireDraft
<1>10. CASE UNCHANGED vars
  BY <1>1, <1>10 DEF vars
<1> QED BY <1>2, <1>3, <1>4, <1>5, <1>6, <1>7, <1>8, <1>9, <1>10 DEF Next, UserStep, Works

(* What becomes of the rows: only a request adds one.                      *)
LEMMA RowsMove ==
    ASSUME TypeOK, [Next]_vars
    PROVE  /\ \/ Live' \subseteq Live /\ late' = late
              \/ \E r \in Requests, c \in Conversations : Create(r, c)
           /\ account # "active" => account' # "active"
<1>1. ASSUME NEW r \in Requests, StartTurn(r) PROVE Live' \subseteq Live /\ late' = late
  BY <1>1 DEF StartTurn, TypeOK
<1>2. ASSUME NEW w \in Workers, DropRow(w) PROVE Live' \subseteq Live /\ late' = late
  BY <1>2 DEF DropRow, TypeOK
<1>3. ASSUME NEW c \in Conversations, ExpireDraft(c) PROVE Live' \subseteq Live /\ late' = late
  BY <1>3 DEF ExpireDraft, TypeOK
<1>4. UNCHANGED <<row, late>> => Live' \subseteq Live /\ late' = late
  OBVIOUS
<1>5. CASE UserStep
  BY <1>1, <1>4, <1>5 DEF UserStep, Admit, Create, StartTurn, TurnWrites, Rejected, EndTurn
<1>6. CASE Schedule
  BY <1>4, <1>6 DEF Schedule, RequestDeletion, PublishRequest, BecomesDue, ClaimDue,
                    PublishClaim, PublishClaimFails, LoseMessage
<1>7. ASSUME NEW w \in Workers, Works(w)
      PROVE  Live' \subseteq Live /\ late' = late /\ (account # "active" => account' # "active")
  <2> HIDE DEF Live
  <2> QED BY <1>2, <1>4, <1>7 DEF Works, TryLock, ExtendClaim, ListConversations, BatchEnds,
             DeleteConversation, ConversationIsBusy, EraseConversation, SandboxRefuses, DropRow,
             ClearStore, DeleteSandbox, Complete, RecordFailure
<1>8. ASSUME NEW w \in Workers, TakeMessage(w) \/ Fails(w) \/ Crash(w) \/ LoseLock(w)
      PROVE  UNCHANGED <<row, late, account>>
  BY <1>8 DEF TakeMessage, Fails, Crash, LoseLock
<1>9. ASSUME NEW c \in Conversations, ExpireDraft(c) PROVE account' = account
  BY <1>9 DEF ExpireDraft
<1>10. CASE UNCHANGED vars
  BY <1>4, <1>10 DEF vars
<1> QED BY <1>3, <1>4, <1>5, <1>6, <1>7, <1>8, <1>9, <1>10 DEF Next

(* A row that a request adds is late, unless the account is active.        *)
LEMMA CreatedIsLate ==
    ASSUME TypeOK, NEW r \in Requests, NEW c \in Conversations, Create(r, c)
    PROVE  /\ Live' = Live \cup {c} /\ account' = account
           /\ account # "active" => late' = late \cup {c}
BY DEF Create, TypeOK

(* Whoever finds a lock taken finds somebody at work: a lock does not      *)
(* outlive what it was taken for.                                          *)
THEOREM LocksAreNotLost == Spec => []LocksAreUsed
<1>1. Init => LocksAreUsed
  BY DEF Init, LocksAreUsed
<1> QED BY <1>1, LocksStayUsed, TypeCorrect, PTL DEF Spec

(* From the request of the removal on, the conversations still to delete   *)
(* become fewer, apart from late ones.                                     *)
THEOREM RowsOnlyGetFewer == Spec => OnlyLateRowsAppear
<1>1. TypeOK /\ [Next]_vars => [account # "active" => Live' \ late' \subseteq Live \ late]_vars
  <2> HIDE DEF Live
  <2> QED BY RowsMove, CreatedIsLate
<1> QED BY <1>1, TypeCorrect, PTL DEF Spec, OnlyLateRowsAppear

(* Only a late conversation can meet a sandbox that refuses to delete its  *)
(* files: the one reason why a removal may not come to its end.            *)
THEOREM OthersAreNotRefused == Spec => []OnlyLateRowsBlock
<1>1. Init => SealedAfterListing
  BY DEF Init, SealedAfterListing
<1>2. CleanInv /\ SealedAfterListing /\ [Next]_vars => SealedAfterListing'
  <2> SUFFICES ASSUME CleanInv, SealedAfterListing, [Next]_vars, userSealed'
               PROVE  account' # "active" /\ Live' \subseteq late'
    BY DEF SealedAfterListing
  <2>1. TypeOK
    BY DEF CleanInv
  <2>2. CASE userSealed
    <3>1. account # "active" /\ Live \subseteq late
      BY <2>2 DEF SealedAfterListing
    <3> HIDE DEF Live
    <3> QED BY <2>1, <3>1, RowsMove, CreatedIsLate
  <2>3. CASE ~userSealed
    <3>1. PICK w \in Workers : DeleteSandbox(w)
      <4>1. ~UserStep /\ ~Schedule
        BY <2>3 DEF UserStep, Admit, Create, StartTurn, TurnWrites, Rejected, EndTurn, Schedule,
             RequestDeletion, PublishRequest, BecomesDue, ClaimDue, PublishClaim,
             PublishClaimFails, LoseMessage
      <4>2. \A w \in Workers : Works(w) => DeleteSandbox(w)
        BY <2>3 DEF Works, TryLock, ExtendClaim, ListConversations, BatchEnds,
             DeleteConversation, ConversationIsBusy, EraseConversation, SandboxRefuses, DropRow,
             ClearStore, Complete, RecordFailure
      <4>3. \A w \in Workers : ~(TakeMessage(w) \/ Fails(w) \/ Crash(w) \/ LoseLock(w))
        BY <2>3 DEF TakeMessage, Fails, Crash, LoseLock
      <4>4. (\A c \in Conversations : ~ExpireDraft(c)) /\ ~UNCHANGED vars
        BY <2>3 DEF ExpireDraft, vars
      <4> QED BY <4>1, <4>2, <4>3, <4>4 DEF Next
    <3>2. Live \subseteq late /\ UNCHANGED <<row, late, account>>
      BY <3>1 DEF DeleteSandbox, CleanInv, ListedAll
    <3>3. account # "active"
      BY <3>1 DEF DeleteSandbox, CleanInv, AccountMatches
    <3> QED BY <3>2, <3>3
  <2> QED BY <2>2, <2>3
<1>3. SealedAfterListing => OnlyLateRowsBlock
  BY DEF SealedAfterListing, OnlyLateRowsBlock
<1> QED BY <1>1, <1>2, <1>3, Inductive, PTL DEF Spec

=============================================================================
