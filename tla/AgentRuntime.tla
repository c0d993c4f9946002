---------------------------- MODULE AgentRuntime ----------------------------
(***************************************************************************)
(* Three components of an API process that share no state: the initial     *)
(* state chooses the part that moves.                                      *)
(***************************************************************************)
EXTENDS Naturals, FiniteSets, Sequences

CONSTANTS Runs, Clients, NoRun, QueueLimit, EventLimit, ByteLimit, Large, MaxEvents
VARIABLES registry, phase, ready, published, window, listeners, stream, heard
eventVars == <<registry, phase, ready, published, window, listeners, stream, heard>>
Events == INSTANCE RunEvents WITH seen <- heard

CONSTANTS Turns, Builds, NoBuild, Chat, MaxCached
VARIABLES turn, got, users, cached, older, building, build, owner, discarding, gone, tombs,
          deletion, victim, closing, cleaned
cacheVars == <<turn, got, users, cached, older, building, build, owner, discarding, gone, tombs,
               deletion, victim, closing, cleaned>>
Cache == INSTANCE RuntimeCache

CONSTANTS Jobs, Callers, NoCaller, MaxErrors
VARIABLES process, wrapper, control, lapsed, records, status, detached, consumed, requested,
          confirmed, resolved, monitor, verdict, starter, callerPc, target, reply, holder, cleanup, told, errors
shellVars == <<process, wrapper, control, lapsed, records, status, detached, consumed, requested,
               confirmed, resolved, monitor, verdict, starter, callerPc, target, reply, holder, cleanup, told,
               errors>>
Shell == INSTANCE ShellJobs WITH
             Nobody <- NoCaller, outcome <- verdict, pc <- callerPc

ASSUME RuntimeAssumption ==
    Events!EventsAssumption /\ Cache!CacheAssumption /\ Shell!ShellAssumption

VARIABLE part
processVars == <<part, eventVars, cacheVars, shellVars>>

ProcessInit == Events!Init /\ Cache!Init /\ Shell!Init /\ part \in {"events", "cache", "shell"}

EventStep == part = "events" /\ Events!Next /\ UNCHANGED <<part, cacheVars, shellVars>>
CacheStep == part = "cache" /\ Cache!Next /\ UNCHANGED <<part, eventVars, shellVars>>
ShellStep == part = "shell" /\ Shell!Next /\ UNCHANGED <<part, eventVars, cacheVars>>

ProcessNext == EventStep \/ CacheStep \/ ShellStep

ProcessSpec == ProcessInit /\ [][ProcessNext]_processVars

(* The fair steps of a part that does not move are disabled for ever.      *)
ProcessFairSpec == ProcessSpec /\ Events!Fairness /\ Shell!Fairness

(* An invariant is asked of the part that moves.                           *)
ProcessTypes ==
    CASE part = "events" -> Events!TypeOK
      [] part = "cache" -> Cache!TypeOK
      [] part = "shell" -> Shell!TypeOK
StreamsAreGapless == part = "events" => Events!StreamsAreGapless
RuntimesAreSafe == part = "cache" => Cache!RuntimesAreSafe
JobsAreAccounted == part = "shell" => Shell!JobsAreAccounted
EndedRunsReleaseClients == Events!EndedRunsReleaseClients
VerdictsAreFinal == Shell!VerdictsAreFinal
CleanupEnds == Shell!CleanupEnds
=============================================================================
