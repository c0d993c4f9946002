------------------------------ MODULE ShellJobs -----------------------------
(***************************************************************************)
(* The shell commands of one agent run.  A command runs in the sandbox     *)
(* under a wrapper that notes its state in a control file; a monitor task  *)
(* turns its end into one verdict; tools wait for it, read it or cancel    *)
(* it; cleanup() stops what is left when the agent run ends.               *)
(***************************************************************************)
EXTENDS Naturals, FiniteSets

CONSTANTS
    Jobs,
    Callers,    \* calls of get_shell_job and cancel_shell_job, one each
    Nobody,
    MaxErrors   \* bound on failures of cancellation requests, wrappers and the backend

Sweeps == Jobs                \* cleanup's own cancellation of each job
Actors == Callers \cup Sweeps

ShellAssumption ==
    /\ Jobs # {} /\ Callers \cap Jobs = {} /\ Nobody \notin Actors
    /\ MaxErrors \in Nat

VARIABLES
    process,    \* the command's process group
    wrapper,    \* phase of the wrapper that starts and watches the command
    control,    \* the control file in the sandbox
    lapsed,     \* history: jobs the backend called failed while the command could run
    records,    \* _records
    status,     \* status of each record
    detached, consumed, requested, confirmed, resolved,   \* flags of the records
    monitor,    \* phase of each monitor task
    outcome,    \* what the backend reported
    starter,    \* phase of each start()
    pc, target, \* phase and job of each actor
    reply,      \* what an actor's cancellation request returned
    holder,     \* cancel_lock of each record
    cleanup,    \* phase of cleanup(), whose first act is to set _closing
    told,       \* history: how often a job's verdict was handed over
    errors

flagVars == <<detached, consumed, requested, confirmed, resolved>>
remoteVars == <<process, wrapper, control, lapsed>>
callVars == <<pc, target, reply, holder>>
vars == <<remoteVars, records, status, flagVars, monitor, outcome, starter, callVars,
          cleanup, told, errors>>

Verdicts == {"completed", "failed", "cancelled", "interrupted"}
Over(j) == status[j] \in Verdicts
Available(j) == j \in records /\ j \in detached /\ j \notin consumed
Active == {j \in records : ~Over(j)}

Init ==
    /\ process = [j \in Jobs |-> "none"]
    /\ wrapper = [j \in Jobs |-> "none"]
    /\ control = [j \in Jobs |-> "none"]
    /\ lapsed = {}
    /\ records = {}
    /\ status = [j \in Jobs |-> "none"]
    /\ detached = {} /\ consumed = {} /\ requested = {} /\ confirmed = {} /\ resolved = {}
    /\ monitor = [j \in Jobs |-> "none"]
    /\ outcome = [j \in Jobs |-> "none"]
    /\ starter = [j \in Jobs |-> "none"]
    /\ pc = [a \in Actors |-> "idle"]
    /\ target = [a \in Actors |-> CHOOSE j \in Jobs : TRUE]
    /\ reply = [a \in Actors |-> "none"]
    /\ holder = [j \in Jobs |-> Nobody]
    /\ cleanup = "none"
    /\ told = [j \in Jobs |-> 0]
    /\ errors = 0

-----------------------------------------------------------------------------
(* The command in the sandbox and its wrapper.                             *)

RemoteOnly == UNCHANGED <<lapsed, records, status, flagVars, monitor, outcome, starter, callVars,
                          cleanup, told>>

GoesWrong == errors < MaxErrors /\ errors' = errors + 1

(* The command is started and noted, or refused, or started and not noted. *)
Launch(j) ==
    /\ wrapper[j] = "starting"
    /\ \/ /\ process' = [process EXCEPT ![j] = "alive"]
          /\ control' = [control EXCEPT ![j] = "running"]
          /\ wrapper' = [wrapper EXCEPT ![j] = "watching"]
          /\ UNCHANGED errors
       \/ /\ \/ UNCHANGED process /\ wrapper' = [wrapper EXCEPT ![j] = "failed"]
             \/ /\ process' = [process EXCEPT ![j] = "alive"]
                /\ wrapper' = [wrapper EXCEPT ![j] = "failing"]
          /\ \E c \in {"none", "failed"} : control' = [control EXCEPT ![j] = c]
          /\ GoesWrong
    /\ RemoteOnly

(* The command ends; processes it left in the background may live on.      *)
Exits(j) ==
    /\ \/ /\ process[j] = "alive"
          /\ \E p \in {"orphaned", "dead"} : process' = [process EXCEPT ![j] = p]
       \/ process[j] = "orphaned" /\ process' = [process EXCEPT ![j] = "dead"]
    /\ UNCHANGED <<wrapper, control, errors>> /\ RemoteOnly

(* The wrapper notes the end when no process of the group is left.         *)
WritesControl(j) ==
    /\ wrapper[j] = "watching" /\ process[j] = "dead"
    /\ control' = [control EXCEPT ![j] = "finished"]
    /\ wrapper' = [wrapper EXCEPT ![j] = "over"]
    /\ UNCHANGED <<process, errors>> /\ RemoteOnly

(* Writing the log, looking for the group or noting its end goes wrong at  *)
(* any time: the wrapper notes the failure, if it can.                     *)
WrapperFails(j) ==
    /\ wrapper[j] = "watching"
    /\ wrapper' = [wrapper EXCEPT ![j] = "failing"]
    /\ control' = control \/ control' = [control EXCEPT ![j] = "failed"]
    /\ GoesWrong
    /\ UNCHANGED process /\ RemoteOnly

(* Then it kills the group, but only if the command itself still runs.     *)
WrapperEnds(j) ==
    /\ wrapper[j] = "failing"
    /\ wrapper' = [wrapper EXCEPT ![j] = "failed"]
    /\ process' = [process EXCEPT ![j] = IF @ = "alive" THEN "dead" ELSE @]
    /\ UNCHANGED <<control, errors>> /\ RemoteOnly

-----------------------------------------------------------------------------
(* The monitor task.                                                       *)

(* The command runs or may still be started.                               *)
MayRun(j) == wrapper[j] = "starting" \/ process[j] \in {"alive", "orphaned"}

Reports(j, o) ==
    /\ monitor[j] = "running"
    /\ outcome' = [outcome EXCEPT ![j] = o]
    /\ monitor' = [monitor EXCEPT ![j] = "returned"]
    /\ UNCHANGED <<process, wrapper, control, records, status, flagVars, starter, callVars, cleanup,
                   told>>

(* The stream of the command ends with its wrapper, or breaks off: the     *)
(* control file decides.                                                   *)
RunReturns(j) ==
    /\ \E o \in Verdicts \ {"cancelled"} :
        /\ o = "completed" => control[j] = "finished"
        /\ o = "failed" => control[j] \in {"finished", "failed"}
        /\ Reports(j, o)
    /\ UNCHANGED <<lapsed, errors>>

(* The operation is refused, the command cannot be created or started, the *)
(* control file cannot be asked for, or leaving the operation raises       *)
(* (also after an answer was found): failed, whatever the command does.    *)
RunFails(j) ==
    /\ GoesWrong /\ Reports(j, "failed")
    /\ lapsed' = IF MayRun(j) THEN lapsed \cup {j} ELSE lapsed

(* While a cancellation is under way the verdict waits for its answer.     *)
Undecided(j) == j \in requested /\ j \notin resolved

AwaitsCancellation(j) ==
    /\ monitor[j] = "returned" /\ Undecided(j)
    /\ monitor' = [monitor EXCEPT ![j] = "waiting"]
    /\ UNCHANGED <<remoteVars, records, status, flagVars, outcome, starter, callVars, cleanup,
                   told, errors>>

MayCommit(j) == monitor[j] = "woken" \/ (monitor[j] = "returned" /\ ~Undecided(j))

(* Mutant: the monitor's word is the last one.                             *)
CommitsAlways(j) ==
    /\ MayCommit(j)
    /\ status' = [status EXCEPT ![j] = outcome[j]]
    /\ monitor' = [monitor EXCEPT ![j] = "over"]
    /\ UNCHANGED <<remoteVars, records, flagVars, outcome, starter, callVars, cleanup, told,
                   errors>>

(* The verdict, unless there is one; the command of a confirmed            *)
(* cancellation counts as cancelled however it ended.                      *)
Commits(j) ==
    /\ MayCommit(j)
    /\ status' = [status EXCEPT ![j] =
           IF Over(j) THEN @
           ELSE IF j \in confirmed /\ outcome[j] # "interrupted" THEN "cancelled"
           ELSE outcome[j]]
    /\ monitor' = [monitor EXCEPT ![j] = "over"]
    /\ UNCHANGED <<remoteVars, records, flagVars, outcome, starter, callVars, cleanup, told,
                   errors>>

-----------------------------------------------------------------------------
(* start()                                                                 *)

Start(j) ==
    /\ cleanup = "none" /\ starter[j] = "none"
    /\ records' = records \cup {j}
    /\ status' = [status EXCEPT ![j] = "running"]
    /\ monitor' = [monitor EXCEPT ![j] = "running"]
    /\ wrapper' = [wrapper EXCEPT ![j] = "starting"]
    /\ starter' = [starter EXCEPT ![j] = "waiting"]
    /\ UNCHANGED <<process, control, lapsed, flagVars, outcome, callVars, cleanup, told, errors>>

(* The foreground wait, which begins when the command runs, is over: the   *)
(* job goes to the background.                                             *)
Detach(j) ==
    /\ starter[j] = "waiting" /\ wrapper[j] # "starting" /\ ~Over(j)
    /\ detached' = detached \cup {j}
    /\ starter' = [starter EXCEPT ![j] = "returned"]
    /\ UNCHANGED <<remoteVars, records, status, consumed, requested, confirmed, resolved,
                   monitor, outcome, callVars, cleanup, told, errors>>

StartEnds(j) ==
    /\ starter[j] = "waiting" /\ Over(j)
    /\ starter' = [starter EXCEPT ![j] = "discarding"]
    /\ UNCHANGED <<remoteVars, records, status, flagVars, monitor, outcome, callVars, cleanup,
                   told, errors>>

(* The control file is removed before the record; the call may be          *)
(* cancelled meanwhile.                                                    *)
Discard(j) ==
    /\ starter[j] = "discarding"
    /\ records' = records \ {j}
    /\ control' = [control EXCEPT ![j] = "none"]
    /\ \/ starter' = [starter EXCEPT ![j] = "returned"] /\ told' = [told EXCEPT ![j] = @ + 1]
       \/ starter' = [starter EXCEPT ![j] = "left"] /\ UNCHANGED told
    /\ UNCHANGED <<process, wrapper, lapsed, status, flagVars, monitor, outcome, callVars, cleanup,
                   errors>>

StartIsCancelled(j) ==
    /\ starter[j] = "waiting"
    /\ detached' = IF Over(j) THEN detached ELSE detached \cup {j}
    /\ starter' = [starter EXCEPT ![j] = "left"]
    /\ UNCHANGED <<remoteVars, records, status, consumed, requested, confirmed, resolved,
                   monitor, outcome, callVars, cleanup, told, errors>>

-----------------------------------------------------------------------------
(* get()                                                                   *)

Answers(a) == pc' = [pc EXCEPT ![a] = "answered"]

(* The caller gets the record; a verdict is consumed by whoever gets it.   *)
Tell(j) ==
    IF Over(j) THEN consumed' = consumed \cup {j} /\ told' = [told EXCEPT ![j] = @ + 1]
    ELSE UNCHANGED <<consumed, told>>

Get(c, j) ==
    /\ pc[c] = "idle" /\ starter[j] # "none"
    /\ \/ ~Available(j) /\ Answers(c) /\ UNCHANGED <<target, consumed, told>>
       \/ Available(j) /\ Answers(c) /\ Tell(j) /\ UNCHANGED target
       \/ /\ Available(j) /\ ~Over(j)
          /\ pc' = [pc EXCEPT ![c] = "getting"] /\ target' = [target EXCEPT ![c] = j]
          /\ UNCHANGED <<consumed, told>>
    /\ UNCHANGED <<remoteVars, records, status, detached, requested, confirmed, resolved,
                   monitor, outcome, starter, reply, holder, cleanup, errors>>

(* Mutant: the record is not looked up again after the wait.               *)
GetEndsBlind(c) ==
    /\ pc[c] = "getting"
    /\ Answers(c)
    /\ Tell(target[c])
    /\ UNCHANGED <<remoteVars, records, status, detached, requested, confirmed, resolved,
                   monitor, outcome, starter, target, reply, holder, cleanup, errors>>

(* The job is over or the caller has waited long enough.                   *)
GetEnds(c) ==
    /\ pc[c] = "getting"
    /\ Answers(c)
    /\ IF Available(target[c]) THEN Tell(target[c]) ELSE UNCHANGED <<consumed, told>>
    /\ UNCHANGED <<remoteVars, records, status, detached, requested, confirmed, resolved,
                   monitor, outcome, starter, target, reply, holder, cleanup, errors>>

-----------------------------------------------------------------------------
(* _cancel(): a caller's, or one of cleanup's, which takes any record and  *)
(* consumes nothing.                                                       *)

Reachable(a, j) == IF a \in Sweeps THEN j \in records ELSE Available(j)

CancelBegins(c, j) ==
    /\ pc[c] = "idle" /\ starter[j] # "none"
    /\ target' = [target EXCEPT ![c] = j]
    /\ pc' = [pc EXCEPT ![c] = IF Available(j) THEN "queued" ELSE "answered"]
    /\ UNCHANGED <<remoteVars, records, status, flagVars, monitor, outcome, starter, reply,
                   holder, cleanup, told, errors>>

(* With the record's cancel_lock.                                          *)
CancelLocks(a) ==
    LET j == target[a]
    IN  /\ pc[a] = "queued" /\ holder[j] = Nobody
        /\ \/ /\ ~Reachable(a, j) \/ Over(j)
              /\ Answers(a)
              /\ IF a \in Callers /\ Reachable(a, j) THEN Tell(j) ELSE UNCHANGED <<consumed, told>>
              /\ UNCHANGED <<status, requested, resolved, holder>>
           \/ /\ Reachable(a, j) /\ ~Over(j)
              /\ pc' = [pc EXCEPT ![a] = "requesting"]
              /\ holder' = [holder EXCEPT ![j] = a]
              /\ status' = [status EXCEPT ![j] = "cancelling"]
              /\ requested' = requested \cup {j}
              /\ resolved' = resolved \ {j}
              /\ UNCHANGED <<consumed, told>>
    /\ UNCHANGED <<remoteVars, records, detached, confirmed, monitor, outcome, starter, target,
                   reply, cleanup, errors>>

(* The cancellation script: it reads the control file, signals the group   *)
(* and watches it for a while.  A group whose leader is not reaped yet     *)
(* takes the signal.                                                       *)
CancelRuns(a) ==
    LET j == target[a]
    IN  /\ pc[a] = "requesting" /\ reply[a] = "none"
        /\ \/ /\ control[j] = "none" /\ reply' = [reply EXCEPT ![a] = "not ready"]
              /\ UNCHANGED <<process, errors>>
           \/ /\ control[j] \in {"finished", "failed"} /\ reply' = [reply EXCEPT ![a] = "exited"]
              /\ UNCHANGED <<process, errors>>
           \/ /\ control[j] = "running" /\ process[j] = "dead"
              /\ \E r \in {"exited", "killed"} : reply' = [reply EXCEPT ![a] = r]
              /\ UNCHANGED <<process, errors>>
           \/ /\ control[j] = "running" /\ process[j] \in {"alive", "orphaned"}
              /\ \/ /\ reply' = [reply EXCEPT ![a] = "killed"]
                    /\ process' = [process EXCEPT ![j] = "dead"]
                 \/ reply' = [reply EXCEPT ![a] = "signalled"] /\ UNCHANGED process
              /\ UNCHANGED errors
           \/ /\ GoesWrong
              /\ reply' = [reply EXCEPT ![a] = "error"]
              /\ UNCHANGED process
    /\ UNCHANGED <<wrapper, control, lapsed, records, status, flagVars, monitor, outcome, starter, pc,
                   target, holder, cleanup, told>>

(* The end of _cancel: the lock goes, a verdict is told and consumed.      *)
CancelEnds(a) ==
    LET j == target[a]
    IN  /\ Answers(a)
        /\ holder' = [holder EXCEPT ![j] = Nobody]
        /\ IF a \in Callers /\ Available(j) THEN Tell(j) ELSE UNCHANGED <<consumed, told>>

(* The request has an answer: a waiting monitor may go on.  A request that *)
(* failed shows the record as it is and consumes nothing.                  *)
CancelResolves(a) ==
    LET j == target[a]
    IN  /\ pc[a] = "requesting" /\ reply[a] # "none"
        /\ resolved' = resolved \cup {j}
        /\ monitor' = [monitor EXCEPT ![j] = IF @ = "waiting" THEN "woken" ELSE @]
        /\ confirmed' = IF reply[a] \in {"killed", "signalled"} THEN confirmed \cup {j} ELSE confirmed
        /\ reply' = [reply EXCEPT ![a] = "none"]
        /\ \/ /\ reply[a] = "error"
              /\ Answers(a) /\ holder' = [holder EXCEPT ![j] = Nobody]
              /\ UNCHANGED <<consumed, told>>
           \/ /\ reply[a] \in {"exited", "killed"} /\ ~Over(j)
              /\ pc' = [pc EXCEPT ![a] = "settling"]
              /\ UNCHANGED <<holder, consumed, told>>
           \/ /\ reply[a] \in {"not ready", "signalled"} \/ (reply[a] # "error" /\ Over(j))
              /\ CancelEnds(a)
    /\ UNCHANGED <<remoteVars, records, status, detached, requested, outcome, starter, target,
                   cleanup, errors>>

(* It waits a moment for the verdict of a command that has ended.          *)
CancelSettles(a) ==
    /\ pc[a] = "settling"
    /\ CancelEnds(a)
    /\ UNCHANGED <<remoteVars, records, status, detached, requested, confirmed, resolved,
                   monitor, outcome, starter, target, reply, cleanup, errors>>

-----------------------------------------------------------------------------
(* cleanup()                                                               *)

Sweep == [a \in Actors |-> IF a \in Active THEN "queued" ELSE pc[a]]

CleanupBegins ==
    /\ cleanup = "none"
    /\ cleanup' = "sweeping"
    /\ pc' = Sweep
    /\ target' = [a \in Actors |-> IF a \in Active THEN a ELSE target[a]]
    /\ UNCHANGED <<remoteVars, records, status, flagVars, monitor, outcome, starter, reply,
                   holder, told, errors>>

SweepEnds == cleanup = "sweeping" /\ \A j \in Sweeps : pc[j] \in {"idle", "answered"}

SweepAgain ==
    /\ SweepEnds /\ Active # {}
    /\ pc' = Sweep
    /\ UNCHANGED <<remoteVars, records, status, flagVars, monitor, outcome, starter, target,
                   reply, holder, cleanup, told, errors>>

(* Nothing is active, or the time is up: what has no verdict is called     *)
(* interrupted.                                                            *)
Interrupt ==
    /\ SweepEnds
    /\ status' = [j \in Jobs |-> IF j \in Active THEN "interrupted" ELSE status[j]]
    /\ cleanup' = "waiting"
    /\ UNCHANGED <<remoteVars, records, flagVars, monitor, outcome, starter, callVars, told,
                   errors>>

(* Mutant: the monitors are waited for without a time limit.               *)
StopMonitorsWaits ==
    /\ cleanup = "waiting"
    /\ \A j \in records : monitor[j] \in {"none", "over"}
    /\ cleanup' = "removing"
    /\ UNCHANGED <<remoteVars, records, status, flagVars, monitor, outcome, starter, callVars,
                   told, errors>>

(* Monitors have a second to end; the others are cancelled.                *)
StopMonitors ==
    /\ cleanup = "waiting"
    /\ monitor' = [j \in Jobs |-> IF j \in records THEN "over" ELSE monitor[j]]
    /\ cleanup' = "removing"
    /\ UNCHANGED <<remoteVars, records, status, flagVars, outcome, starter, callVars, told,
                   errors>>

RemoveFiles ==
    /\ cleanup = "removing"
    /\ control' = [j \in Jobs |-> IF j \in records THEN "none" ELSE control[j]]
    /\ records' = {}
    /\ cleanup' = "done"
    /\ UNCHANGED <<process, wrapper, lapsed, status, flagVars, monitor, outcome, starter, callVars,
                   told, errors>>

JobStep(j) ==
    \/ Launch(j) \/ Exits(j) \/ WritesControl(j) \/ WrapperFails(j) \/ WrapperEnds(j)
    \/ RunReturns(j) \/ RunFails(j) \/ AwaitsCancellation(j) \/ Commits(j)
    \/ Start(j) \/ Detach(j) \/ StartEnds(j) \/ Discard(j) \/ StartIsCancelled(j)
CancelStep(a) == CancelLocks(a) \/ CancelRuns(a) \/ CancelResolves(a) \/ CancelSettles(a)
CleanupStep == SweepAgain \/ Interrupt \/ StopMonitors \/ RemoveFiles

Next ==
    \/ \E j \in Jobs : JobStep(j)
    \/ \E c \in Callers : GetEnds(c) \/ \E j \in Jobs : Get(c, j) \/ CancelBegins(c, j)
    \/ \E a \in Actors : CancelStep(a)
    \/ CleanupBegins \/ CleanupStep

Spec == Init /\ [][Next]_vars

(* A cancellation script has a time limit and the event loop schedules     *)
(* every task; sweeps are repeated only until the deadline.  A command     *)
(* need not end.                                                           *)
Fairness ==
    /\ \A a \in Actors : WF_vars(CancelStep(a))
    /\ SF_vars(Interrupt) /\ WF_vars(StopMonitors \/ RemoveFiles)

-----------------------------------------------------------------------------
(* Properties                                                              *)

Phases == {"idle", "queued", "getting", "requesting", "settling", "answered"}

TypeOK ==
    /\ process \in [Jobs -> {"none", "alive", "orphaned", "dead"}]
    /\ wrapper \in [Jobs -> {"none", "starting", "watching", "failing", "failed", "over"}]
    /\ lapsed \subseteq Jobs
    /\ control \in [Jobs -> {"none", "running", "finished", "failed"}]
    /\ records \subseteq Jobs
    /\ status \in [Jobs -> Verdicts \cup {"none", "running", "cancelling"}]
    /\ detached \subseteq Jobs /\ consumed \subseteq Jobs
    /\ requested \subseteq Jobs /\ confirmed \subseteq Jobs /\ resolved \subseteq Jobs
    /\ monitor \in [Jobs -> {"none", "running", "returned", "waiting", "woken", "over"}]
    /\ outcome \in [Jobs -> Verdicts \cup {"none"}]
    /\ starter \in [Jobs -> {"none", "waiting", "discarding", "returned", "left"}]
    /\ pc \in [Actors -> Phases] /\ target \in [Actors -> Jobs]
    /\ reply \in [Actors -> {"none", "not ready", "exited", "killed", "signalled", "error"}]
    /\ holder \in [Jobs -> Actors \cup {Nobody}]
    /\ cleanup \in {"none", "sweeping", "waiting", "removing", "done"}
    /\ told \in [Jobs -> Nat] /\ errors \in 0 .. MaxErrors

(* The docstring of get(): only one caller may consume the result of a job *)
(* that ended.  Whatever start(), get(), cancel() and cleanup() do at the  *)
(* same time, a verdict is handed over at most once.                       *)
OneCallerIsTold == \A j \in Jobs : told[j] <= 1

(* The backend failed without seeing the end, or the wrapper did: it is    *)
(* about to kill the command, or the command is over and what it left in   *)
(* the background is not killed.                                           *)
Unseen(j) ==
    \/ j \in lapsed
    \/ wrapper[j] = "failing"
    \/ wrapper[j] = "failed" /\ process[j] = "orphaned"

(* A verdict is true: a job called completed has no process left; one      *)
(* called failed or cancelled may have one only if the backend or the      *)
(* wrapper failed before the end was seen; and after cleanup() a command   *)
(* runs on only in these cases or if its job was called interrupted.       *)
VerdictsAreTrue ==
    \A j \in Jobs :
        /\ status[j] = "completed" => process[j] = "dead"
        /\ status[j] \in {"failed", "cancelled"} /\ MayRun(j) => Unseen(j)
        /\ cleanup = "done" /\ MayRun(j) => status[j] = "interrupted" \/ Unseen(j)

JobsAreAccounted == OneCallerIsTold /\ VerdictsAreTrue

(* A verdict is final, and cleanup() ends whatever the commands do.        *)
VerdictsAreFinal == [][\A j \in Jobs : Over(j) => status'[j] = status[j]]_vars
CleanupEnds == (cleanup = "sweeping") ~> (cleanup = "done")

=============================================================================
