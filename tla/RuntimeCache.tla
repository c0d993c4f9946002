---------------------------- MODULE RuntimeCache ----------------------------
(***************************************************************************)
(* The agents of the conversations of one process.  A runtime is built by  *)
(* a task that several callers may wait for, cached in order of use,       *)
(* evicted when nobody uses it, and cleaned up when it is discarded.  No   *)
(* section that holds the state lock awaits, so each is one step.  A build *)
(* and the runtime it makes have one name.                                 *)
(***************************************************************************)
EXTENDS Naturals, FiniteSets

CONSTANTS
    Turns,       \* turns that use a runtime
    Builds,      \* build tasks
    NoBuild,
    Chat,        \* conversation of each turn
    MaxCached    \* max_cached_runtimes

CacheAssumption == Turns # {} /\ NoBuild \notin Builds

Chats == {Chat[u] : u \in Turns}

VARIABLES
    turn,        \* phase of each turn
    got,         \* the build a turn waits for, or the runtime it has
    users,       \* _runtime_users
    cached,      \* _conversation_runtimes
    older,       \* its order: pairs of runtimes, the first one used before the second
    building,    \* _runtime_build_tasks
    build,       \* phase of each build
    owner,       \* conversation of each build
    discarding,  \* runtimes a build still has to clean up
    gone,        \* _deleted_conversation_keys
    tombs,       \* tombstones in the database
    deletion,    \* phase of the deletion of each conversation
    victim,      \* build a deletion waits for, or the runtime it cleans up
    closing,     \* phase of close()
    cleaned      \* runtimes whose shell_jobs.cleanup() was called

turnVars == <<turn, got, users>>
cacheVars == <<cached, older>>
buildVars == <<build, owner, discarding>>
endVars == <<deletion, victim, closing>>
vars == <<turnVars, cacheVars, building, buildVars, gone, tombs, endVars, cleaned>>

Out == {"away", "left"}
CachedFor(k) == {b \in cached : owner[b] = k}
Ended(b) == build[b] \in {"built", "failed"}

(* The lifecycle lock of a conversation, held by its turn or its deletion. *)
Free(k) ==
    /\ \A u \in Turns : Chat[u] = k => turn[u] \in Out
    /\ deletion[k] \in {"none", "done"}

Init ==
    /\ turn = [u \in Turns |-> "away"]
    /\ got = [u \in Turns |-> NoBuild]
    /\ users = [k \in Chats |-> 0]
    /\ cached = {} /\ older = {}
    /\ building = [k \in Chats |-> NoBuild]
    /\ build = [b \in Builds |-> "new"]
    /\ owner = [b \in Builds |-> CHOOSE k \in Chats : TRUE]
    /\ discarding = [b \in Builds |-> {}]
    /\ gone = {}
    /\ tombs = {}
    /\ deletion = [k \in Chats |-> "none"]
    /\ victim = [k \in Chats |-> NoBuild]
    /\ closing = "open"
    /\ cleaned = {}

-----------------------------------------------------------------------------
(* use_runtime                                                             *)

Exit(u) ==
    /\ turn' = [turn EXCEPT ![u] = "left"]
    /\ got' = [got EXCEPT ![u] = NoBuild]
    /\ users' = [users EXCEPT ![Chat[u]] = @ - 1]

Moves(u, from, to) == turn[u] = from /\ turn' = [turn EXCEPT ![u] = to]

(* Mutant: a caller that finds the conversation gone leaves like a user.   *)
EnterUncounted(u) ==
    /\ closing = "open" /\ Free(Chat[u]) /\ turn[u] = "away"
    /\ IF Chat[u] \in gone THEN Exit(u)
       ELSE /\ Moves(u, "away", "entered") /\ users' = [users EXCEPT ![Chat[u]] = @ + 1]
            /\ UNCHANGED got
    /\ UNCHANGED <<cacheVars, building, buildVars, gone, tombs, endVars, cleaned>>

(* A caller counts as a user before it waits for anything.                 *)
Enter(u) ==
    /\ closing = "open" /\ Free(Chat[u])
    /\ IF Chat[u] \in gone
       THEN Moves(u, "away", "left") /\ UNCHANGED users
       ELSE Moves(u, "away", "entered") /\ users' = [users EXCEPT ![Chat[u]] = @ + 1]
    /\ UNCHANGED <<got, cacheVars, building, buildVars, gone, tombs, endVars, cleaned>>

LookForTombstone(u) ==
    /\ turn[u] = "entered"
    /\ IF Chat[u] \in tombs
       THEN Exit(u) /\ gone' = gone \cup {Chat[u]}
       ELSE Moves(u, "entered", "checked") /\ UNCHANGED <<got, users, gone>>
    /\ UNCHANGED <<cacheVars, building, buildVars, tombs, endVars, cleaned>>

(* The order in which b was used last of all in S.                         *)
MovedToEnd(b, S) ==
    {p \in older : p[1] \in S \ {b} /\ p[2] \in S} \cup ((S \ {b}) \X {b})

(* The cached runtime, the build under way, or a new build.                *)
GetRuntime(u) ==
    LET k == Chat[u]
    IN  /\ turn[u] = "checked"
        /\ \/ /\ k \in gone
              /\ Exit(u) /\ UNCHANGED <<cacheVars, building, build, owner>>
           \/ /\ k \notin gone /\ CachedFor(k) # {}
              /\ Moves(u, "checked", "got")
              /\ \E b \in CachedFor(k) :
                    got' = [got EXCEPT ![u] = b] /\ older' = MovedToEnd(b, cached)
              /\ UNCHANGED <<users, cached, building, build, owner>>
           \/ /\ k \notin gone /\ CachedFor(k) = {} /\ building[k] # NoBuild
              /\ Moves(u, "checked", "waiting")
              /\ got' = [got EXCEPT ![u] = building[k]]
              /\ UNCHANGED <<users, cacheVars, building, build, owner>>
           \/ /\ k \notin gone /\ CachedFor(k) = {} /\ building[k] = NoBuild
              /\ \E b \in Builds :
                    /\ build[b] = "new"
                    /\ build' = [build EXCEPT ![b] = "creating"]
                    /\ owner' = [owner EXCEPT ![b] = k]
                    /\ building' = [building EXCEPT ![k] = b]
                    /\ got' = [got EXCEPT ![u] = b]
              /\ Moves(u, "checked", "waiting")
              /\ UNCHANGED <<users, cacheVars>>
    /\ UNCHANGED <<discarding, gone, tombs, endVars, cleaned>>

BuildAnswers(u) ==
    /\ turn[u] = "waiting"
    /\ \/ /\ build[got[u]] = "built"
          /\ Moves(u, "waiting", "got") /\ UNCHANGED <<got, users>>
       \/ build[got[u]] = "failed" /\ Exit(u)
    /\ UNCHANGED <<cacheVars, building, buildVars, gone, tombs, endVars, cleaned>>

(* The second look at the tombstone, with the runtime in hand.             *)
LookAgain(u) ==
    /\ turn[u] = "got"
    /\ IF Chat[u] \in tombs THEN Exit(u)
       ELSE Moves(u, "got", "using") /\ UNCHANGED <<got, users>>
    /\ UNCHANGED <<cacheVars, building, buildVars, gone, tombs, endVars, cleaned>>

(* The turn is over, or cancelled while it waits: the build goes on.       *)
Leave(u) ==
    /\ turn[u] \notin Out
    /\ Exit(u)
    /\ UNCHANGED <<cacheVars, building, buildVars, gone, tombs, endVars, cleaned>>

-----------------------------------------------------------------------------
(* Builds                                                                  *)

(* Mutant: a runtime is evicted by its age alone.                          *)
EvictableAny(S, k) == {b \in S : owner[b] # k}

Evictable(S, k) == {b \in S : owner[b] # k /\ users[owner[b]] = 0}

(* The cache loses its oldest unused runtimes until it is small enough or  *)
(* every other one is in use.                                              *)
Evicted(S, k) ==
    LET excess == IF Cardinality(S) > MaxCached THEN Cardinality(S) - MaxCached ELSE 0
        old == Evictable(S, k)
    IN  {b \in old : Cardinality({x \in old : <<x, b>> \in older}) < excess}

(* The runtime is made and, if the task is still registered, cached.       *)
CreateSucceeds(b) ==
    LET k == owner[b]
        registered == building[k] = b
        kept == registered /\ k \notin gone
        grown == (cached \ CachedFor(k)) \cup {b}
        out == IF kept THEN Evicted(grown, k) ELSE {b}
    IN  /\ build[b] = "creating"
        /\ building' = IF registered THEN [building EXCEPT ![k] = NoBuild] ELSE building
        /\ cached' = IF kept THEN grown \ out ELSE cached
        /\ older' = IF kept THEN MovedToEnd(b, grown \ out) ELSE older
        /\ discarding' = [discarding EXCEPT ![b] = out]
        /\ build' = [build EXCEPT ![b] = IF out # {} THEN "cleaning" ELSE "built"]
    /\ UNCHANGED <<turnVars, owner, gone, tombs, endVars, cleaned>>

(* create() fails, or the task was cancelled while it waited for it.       *)
CreateFails(b) ==
    /\ build[b] \in {"creating", "cancelled"}
    /\ build' = [build EXCEPT ![b] = "failed"]
    /\ building' = [k \in Chats |-> IF building[k] = b THEN NoBuild ELSE building[k]]
    /\ UNCHANGED <<turnVars, cacheVars, owner, discarding, gone, tombs, endVars, cleaned>>

(* The discarded runtimes are cleaned up one by one; a build that discards *)
(* its own runtime fails.                                                  *)
CleanEvicted(b) ==
    /\ build[b] = "cleaning"
    /\ \E x \in discarding[b] :
        /\ cleaned' = cleaned \cup {x}
        /\ discarding' = [discarding EXCEPT ![b] = @ \ {x}]
        /\ build' = [build EXCEPT ![b] = IF discarding[b] # {x} THEN "cleaning"
                                         ELSE IF x = b THEN "failed" ELSE "built"]
    /\ UNCHANGED <<turnVars, cacheVars, building, owner, gone, tombs, endVars>>

Cancelled(tasks) ==
    [b \in Builds |-> IF b \in tasks /\ build[b] = "creating" THEN "cancelled" ELSE build[b]]

-----------------------------------------------------------------------------
(* Deletion of a conversation, close(), and a deletion in another process. *)

CancelBuild(k) ==
    /\ Free(k) /\ deletion[k] = "none" /\ closing = "open"
    /\ gone' = gone \cup {k}
    /\ victim' = [victim EXCEPT ![k] = building[k]]
    /\ build' = Cancelled({building[k]})
    /\ building' = [building EXCEPT ![k] = NoBuild]
    /\ deletion' = [deletion EXCEPT ![k] = "cancelling"]
    /\ UNCHANGED <<turnVars, cacheVars, owner, discarding, tombs, closing, cleaned>>

PopRuntime(k) ==
    /\ deletion[k] = "cancelling"
    /\ victim[k] # NoBuild => Ended(victim[k])
    /\ cached' = cached \ CachedFor(k)
    /\ older' = {p \in older : p[1] \in cached' /\ p[2] \in cached'}
    /\ victim' = [victim EXCEPT ![k] = IF CachedFor(k) = {} THEN NoBuild
                                       ELSE CHOOSE b \in CachedFor(k) : TRUE]
    /\ deletion' = [deletion EXCEPT ![k] = "popped"]
    /\ UNCHANGED <<turnVars, building, buildVars, gone, tombs, closing, cleaned>>

CleanAndBury(k) ==
    /\ deletion[k] = "popped"
    /\ cleaned' = cleaned \cup ({victim[k]} \ {NoBuild})
    /\ victim' = [victim EXCEPT ![k] = NoBuild]
    /\ tombs' = tombs \cup {k}
    /\ deletion' = [deletion EXCEPT ![k] = "done"]
    /\ UNCHANGED <<turnVars, cacheVars, building, buildVars, gone, closing>>

BuryElsewhere(k) ==
    /\ Free(k) /\ k \notin tombs
    /\ tombs' = tombs \cup {k}
    /\ UNCHANGED <<turnVars, cacheVars, building, buildVars, gone, endVars, cleaned>>

(* The application stops: its Runs have been closed before.                *)
CloseBegins ==
    /\ closing = "open"
    /\ \A u \in Turns : turn[u] \in Out
    /\ \A k \in Chats : deletion[k] \in {"none", "done"}
    /\ build' = Cancelled({building[k] : k \in Chats})
    /\ building' = [k \in Chats |-> NoBuild]
    /\ closing' = "cancelling"
    /\ UNCHANGED <<turnVars, cacheVars, owner, discarding, gone, tombs, deletion, victim, cleaned>>

CloseCleans ==
    /\ closing = "cancelling"
    /\ \A b \in Builds : build[b] # "cancelled"
    /\ cleaned' = cleaned \cup cached
    /\ cached' = {} /\ older' = {}
    /\ closing' = "closed"
    /\ UNCHANGED <<turnVars, building, buildVars, gone, tombs, deletion, victim>>

Next ==
    \/ \E u \in Turns :
          Enter(u) \/ LookForTombstone(u) \/ GetRuntime(u) \/ BuildAnswers(u) \/ LookAgain(u)
          \/ Leave(u)
    \/ \E b \in Builds : CreateSucceeds(b) \/ CreateFails(b) \/ CleanEvicted(b)
    \/ \E k \in Chats : CancelBuild(k) \/ PopRuntime(k) \/ CleanAndBury(k) \/ BuryElsewhere(k)
    \/ CloseBegins \/ CloseCleans

Spec == Init /\ [][Next]_vars

-----------------------------------------------------------------------------
(* Properties                                                              *)

TypeOK ==
    /\ turn \in [Turns -> Out \cup {"entered", "checked", "waiting", "got", "using"}]
    /\ got \in [Turns -> Builds \cup {NoBuild}]
    /\ users \in [Chats -> Nat]
    /\ cached \subseteq Builds /\ older \subseteq cached \X cached
    /\ building \in [Chats -> Builds \cup {NoBuild}]
    /\ build \in [Builds -> {"new", "creating", "cancelled", "cleaning", "built", "failed"}]
    /\ owner \in [Builds -> Chats]
    /\ discarding \in [Builds -> SUBSET Builds]
    /\ gone \subseteq Chats /\ tombs \subseteq Chats
    /\ deletion \in [Chats -> {"none", "cancelling", "popped", "done"}]
    /\ victim \in [Chats -> Builds \cup {NoBuild}]
    /\ closing \in {"open", "cancelling", "closed"}
    /\ cleaned \subseteq Builds

(* The docstring of use_runtime: a runtime is protected from the wait for  *)
(* its build on.  What a turn has in hand was not cleaned up, nor is it    *)
(* about to be, and it is the runtime the cache has for the conversation.  *)
RuntimesInUseAreIntact ==
    \A u \in Turns : turn[u] \in {"got", "using"} =>
        /\ CachedFor(Chat[u]) = {got[u]}
        /\ got[u] \notin cleaned
        /\ \A b \in Builds : got[u] \notin discarding[b]

(* Whatever is cancelled, evicted or deleted meanwhile, a runtime that was *)
(* made is cached, about to be cleaned up or cleaned up, and no runtime is *)
(* twice in the cache's hands.  After close() none is left.                *)
Made(b) == build[b] \in {"cleaning", "built"}
NoRuntimeLeaks ==
    /\ \A b \in Builds : Made(b) =>
        \/ b \in cached \/ b \in cleaned
        \/ \E x \in Builds : b \in discarding[x]
        \/ \E k \in Chats : victim[k] = b /\ deletion[k] = "popped"
    /\ \A b, c \in cached : owner[b] = owner[c] => b = c
    /\ closing = "closed" => cached = {} /\ \A k \in Chats : building[k] = NoBuild

RuntimesAreSafe == RuntimesInUseAreIntact /\ NoRuntimeLeaks

=============================================================================
