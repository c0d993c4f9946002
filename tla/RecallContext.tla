---------------------------- MODULE RecallContext ----------------------------
(* The recalled context of each query of a conversation, as snapshots that   *)
(* recalls extend and that merges and deletions rewrite. Tools of one answer *)
(* of a model run at the same time: a search happens outside every lock, its *)
(* result is added under the advisory lock of the query, and the policy of a *)
(* call is the one read when it began.                                       *)
EXTENDS SemanticResources, Sequences

CONSTANTS
    Queries, Rank,   \* the sorted order of the queries
    Calls, Crews,    \* the sets of calls that run together
    Kind,            \* "recall", "read", "merge" or "delete"
    On,              \* the queries a call is about
    Target,          \* of these, the one a merge keeps
    Retried,         \* the failure scopes that the request of a recall covers
    Cut,             \* what a deletion names of a query, or Whole
    Whole,
    Experiences, Uses,   \* the columns an experience is about
    MadeUnder,           \* the role and fingerprint an experience was made under
    Searches,        \* what the indexes match: columns, metrics, values, failures
    Rights,          \* the policies that the user may get
    MaxChanges       \* bound: changes of rights and of the catalog

(* What a deletion may name.                                                 *)
Cuts == [columns : SUBSET Columns, tables : SUBSET Tables, values : SUBSET Values,
         metrics : SUBSET Metrics, experiences : SUBSET Experiences]

(* A snapshot holds a response and the experiences of a role and fingerprint.*)
Snapshots == [response : Responses, experiences : SUBSET Experiences,
              retrieved : 0 .. MaxChanges + 1, scope : Rights]

ContextAssumption ==
    /\ ResourcesAssumption /\ Rights \subseteq Policies /\ MaxChanges \in Nat
    /\ IsFiniteSet(Queries) /\ Rank \in [Queries -> Nat]
    /\ \A p, q \in Queries : Rank[p] = Rank[q] => p = q
    /\ Crews \subseteq SUBSET Calls
    /\ Kind \in [Calls -> {"recall", "read", "merge", "delete"}]
    /\ On \in [Calls -> (SUBSET Queries) \ {{}}] /\ Target \in [Calls -> Queries]
    /\ \A c \in Calls :
           /\ Kind[c] = "recall" => \E q \in Queries : On[c] = {q}
           /\ Kind[c] = "merge" => \E q \in Queries \ {Target[c]} : On[c] = {q, Target[c]}
           /\ Kind[c] = "delete" => \A q \in On[c] : Cut[c][q] \in Cuts \cup {Whole}
    /\ Retried \in [Calls -> SUBSET Failures] /\ Uses \in [Experiences -> SUBSET Columns]
    /\ MadeUnder \in [Experiences -> Rights]
    /\ Searches \subseteq [columns : SUBSET Columns, metrics : SUBSET Metrics,
                           values : SUBSET Values, failures : SUBSET Failures]
    /\ None \notin Calls \cup Rights \cup Responses \cup Snapshots

VARIABLES
    rights,      \* the user's policy now
    version,     \* the version of the catalog now
    changes,
    day,         \* experiences may be reused on the day they were retrieved
    latest,      \* the newest snapshot of each query, or None
    holder,      \* who holds the advisory lock of a query
    pc,
    policy,      \* the policy a call works with
    found,       \* what the search of a recall returned
    cache,       \* the experiences of a recall and the day they are from
    before,      \* the snapshots a writer has read
    removed,     \* the experiences deleted from a query
    revivers     \* the recalls that had them before they were deleted

vars == <<rights, version, changes, day, latest, holder, pc, policy, found, cache, before,
          removed, revivers>>

TypeOK ==
    /\ rights \in Rights /\ version \in 1 .. MaxVersion /\ changes \in 0 .. MaxChanges
    /\ day \in 1 .. MaxChanges + 1
    /\ latest \in [Queries -> Snapshots \cup {None}]
    /\ holder \in [Queries -> Calls \cup {None}]
    /\ pc \in [Calls -> {"new", "search", "look", "retrieve", "lock", "read", "commit", "done"}]
    /\ policy \in [Calls -> Rights \cup {None}]
    /\ found \in [Calls -> Responses \cup {None}]
    /\ cache \in [Calls -> [experiences : SUBSET Experiences, retrieved : 0 .. MaxChanges + 1]]
    /\ before \in [Calls -> [Queries -> Snapshots \cup {None}]]
    /\ removed \in [Queries -> SUBSET Experiences] /\ revivers \in [Queries -> SUBSET Calls]

NoCache == [experiences |-> {}, retrieved |-> 0]
Unread == [q \in Queries |-> None]

(* A conversation that has recalled everything for some of its queries.      *)
Earlier(p) ==
    [response |-> Response(p, 1, AllowedColumns(p), AllowedMetrics(p), {}, {}),
     experiences |-> {e \in Experiences : MadeUnder[e] = p /\ Uses[e] \subseteq AllowedColumns(p)},
     retrieved |-> 1, scope |-> p]

Init ==
    /\ rights \in Rights /\ version = 1 /\ changes = 0 /\ day = 1
    /\ \E recalled \in SUBSET Queries :
           latest = [q \in Queries |-> IF q \in recalled THEN Earlier(rights) ELSE None]
    /\ holder = [q \in Queries |-> None]
    /\ \E crew \in Crews : pc = [c \in Calls |-> IF c \in crew THEN "new" ELSE "done"]
    /\ policy = [c \in Calls |-> None]
    /\ found = [c \in Calls |-> None] /\ cache = [c \in Calls |-> NoCache]
    /\ before = [c \in Calls |-> Unread]
    /\ removed = [q \in Queries |-> {}] /\ revivers = [q \in Queries |-> {}]

-----------------------------------------------------------------------------
(* _authorize_record: a snapshot as the policy p leaves it.                  *)
Usable(p, experiences) == {e \in experiences : Uses[e] \subseteq AllowedColumns(p)}

Readable(p, snapshot) ==
    [snapshot EXCEPT !.response = Filtered(p, @),
                     !.experiences = IF snapshot.scope = p THEN Usable(p, @) ELSE {}]

(* Of two responses, the newer version of a resource; of the same version    *)
(* the earlier one, unless the later column ranked higher.                   *)
Newer(a, b) == [i \in DOMAIN a |-> IF b[i] > a[i] THEN b[i] ELSE a[i]]
Taken(a, b, higher) == {i \in DOMAIN a : b[i] > a[i] \/ (b[i] = a[i] /\ i \in higher)}

(* _merge_semantic_recall_responses: failures that the request covers are    *)
(* dropped unless they happened again.                                       *)
Merged(a, b, refreshed, higher) ==
    LET columns == Taken(a.columns, b.columns, higher)
        tables == Taken(a.tables, b.tables, {})
        KeysFrom(r, kept) == {c \in r.keys : TableOf[c] \in kept}
    IN  [columns |-> Newer(a.columns, b.columns),
         shown |-> (a.shown \ columns) \cup (b.shown \cap columns),
         tables |-> Newer(a.tables, b.tables),
         keys |-> KeysFrom(a, Tables \ tables) \cup KeysFrom(b, tables),
         metrics |-> Newer(a.metrics, b.metrics), values |-> a.values \cup b.values,
         failures |-> (a.failures \ refreshed) \cup b.failures]

(* _remove_semantic_resources: what is left is closed again.                 *)
Without(r, cut) ==
    LET columns == {c \in In(r.columns) : TableOf[c] \notin cut.tables /\ c \notin cut.columns}
    IN  [columns |-> Kept(r.columns, columns),
         shown |-> {c \in r.shown \cap columns : Reference[c] \in columns},
         tables |-> Kept(r.tables, TablesOf(columns)),
         keys |-> r.keys \cap columns,
         metrics |-> Kept(r.metrics, {m \in Metrics \ cut.metrics : Needs[m] \subseteq columns}),
         values |-> {v \in r.values \ cut.values : ColumnOf[v] \in columns},
         failures |-> r.failures]

-----------------------------------------------------------------------------
(* What a tool has told of a snapshot, and what it tells of the next one.    *)
(* semantic_recall_payload: columns of a table that is not shown are not     *)
(* told.                                                                     *)
View(s) ==
    LET told == {c \in In(s.response.columns) : TableOf[c] \in In(s.response.tables)}
    IN  [tables |-> {<<t, s.response.tables[t], {k \in s.response.keys : TableOf[k] = t}>> :
                        t \in In(s.response.tables)},
         columns |-> {<<c, s.response.columns[c], c \in s.response.shown>> : c \in told},
         values |-> {v \in s.response.values : ColumnOf[v] \in told},
         metrics |-> {<<m, s.response.metrics[m]>> : m \in In(s.response.metrics)},
         experiences |-> s.experiences]

Names(items) == {i[1] : i \in items}

(* semantic_recall_update: the additions and changes, and what is gone.      *)
Changed(old, new) ==
    [tables |-> new.tables \ old.tables, columns |-> new.columns \ old.columns,
     values |-> new.values \ old.values, metrics |-> new.metrics \ old.metrics,
     experiences |-> new.experiences \ old.experiences]
Gone(old, new) ==
    [tables |-> Names(old.tables) \ Names(new.tables),
     columns |-> {c \in Names(old.columns) \ Names(new.columns) : TableOf[c] \in Names(new.tables)},
     values |-> {v \in old.values \ new.values : ColumnOf[v] \in Names(new.columns)},
     metrics |-> Names(old.metrics) \ Names(new.metrics),
     experiences |-> old.experiences \ new.experiences]

(* A reader of the changes: what it knew, less what is gone or replaced.     *)
Follow(old, changed, gone) ==
    LET Replace(items, by, less) == {i \in items : i[1] \notin Names(by) \cup less} \cup by
        columns == {i \in Replace(old.columns, changed.columns, gone.columns) :
                       TableOf[i[1]] \notin gone.tables}
    IN  [tables |-> Replace(old.tables, changed.tables, gone.tables), columns |-> columns,
         values |-> {v \in (old.values \ gone.values) \cup changed.values :
                        ColumnOf[v] \in Names(columns)},
         metrics |-> Replace(old.metrics, changed.metrics, gone.metrics),
         experiences |-> (old.experiences \ gone.experiences) \cup changed.experiences]

-----------------------------------------------------------------------------
Goto(c, step) == pc' = [pc EXCEPT ![c] = step]
First(queries) == CHOOSE q \in queries : \A other \in queries : Rank[q] <= Rank[other]
Holds(c, q) == holder[q] = c
Missing(c) == {q \in On[c] : ~Holds(c, q)}

(* The end of a transaction frees its locks, the end of a call what it knew. *)
Ends(c) ==
    /\ Goto(c, "done") /\ holder' = [q \in Queries |-> IF Holds(c, q) THEN None ELSE holder[q]]
    /\ policy' = [policy EXCEPT ![c] = None] /\ found' = [found EXCEPT ![c] = None]
    /\ cache' = [cache EXCEPT ![c] = NoCache] /\ before' = [before EXCEPT ![c] = Unread]

Writes(c) == Kind[c] # "read"
External == <<rights, version, changes, day>>
History == <<removed, revivers>>

(* An administrator changes the rights, or someone the catalog.              *)
RightsChange ==
    /\ changes < MaxChanges /\ changes' = changes + 1
    /\ \E p \in Rights \ {rights} : rights' = p
    /\ UNCHANGED <<version, day, latest, holder, pc, policy, found, cache, before, History>>

CatalogChanges ==
    /\ changes < MaxChanges /\ changes' = changes + 1
    /\ version < MaxVersion /\ version' = version + 1
    /\ UNCHANGED <<rights, day, latest, holder, pc, policy, found, cache, before, History>>

(* The experiences of the day before may not be reused.                      *)
DayPasses ==
    /\ changes < MaxChanges /\ changes' = changes + 1 /\ day' = day + 1
    /\ UNCHANGED <<rights, version, latest, holder, pc, policy, found, cache, before, History>>

(* The policy is read once, at the start.                                    *)
Begin(c) ==
    /\ pc[c] = "new" /\ Goto(c, IF Kind[c] = "recall" THEN "search"
                                ELSE IF Writes(c) THEN "lock" ELSE "read")
    /\ policy' = [policy EXCEPT ![c] = rights]
    /\ UNCHANGED <<External, latest, holder, found, cache, before, History>>

Search(c) ==
    /\ pc[c] = "search" /\ Goto(c, "look")
    /\ \E s \in Searches :
           LET p == policy[c]
               allowed == AllowedColumns(p)
               values == {v \in s.values : ColumnOf[v] \in allowed}
               wanted == (s.columns \cap allowed) \cup {ColumnOf[v] : v \in values}
           IN  found' = [found EXCEPT ![c] =
                            Response(p, version, InContext(allowed, wanted),
                                     s.metrics \cap AllowedMetrics(p), values,
                                     s.failures \cap Retried[c])]
    /\ UNCHANGED <<External, latest, holder, policy, cache, before, History>>

(* Mutant: experiences that can be reused are recorded without the lock.     *)
LookUnlocked(c) ==
    /\ pc[c] = "look"
    /\ LET s == latest[First(On[c])]
       IN  IF s # None /\ s.scope = policy[c] /\ s.retrieved = day
           THEN /\ Goto(c, "read")
                /\ cache' = [cache EXCEPT ![c] =
                                [experiences |-> Readable(policy[c], s).experiences,
                                 retrieved |-> s.retrieved]]
           ELSE Goto(c, "retrieve") /\ UNCHANGED cache
    /\ UNCHANGED <<External, latest, holder, policy, found, before, History>>

(* get_fresh_query_experiences, outside the lock: experiences of the same    *)
(* scope and of less than a day are taken as they are.                       *)
Look(c) ==
    /\ pc[c] = "look"
    /\ LET s == latest[First(On[c])]
       IN  IF s # None /\ s.scope = policy[c] /\ s.retrieved = day
           THEN /\ Goto(c, "lock")
                /\ cache' = [cache EXCEPT ![c] =
                                [experiences |-> Readable(policy[c], s).experiences,
                                 retrieved |-> s.retrieved]]
           ELSE Goto(c, "retrieve") /\ UNCHANGED cache
    /\ UNCHANGED <<External, latest, holder, policy, found, before, History>>

(* The experiences that the index and the policy give now; a retrieval that  *)
(* fails leaves an empty cache that is never fresh.                          *)
Retrieve(c) ==
    /\ pc[c] = "retrieve" /\ Goto(c, "lock")
    /\ LET own == {e \in Experiences : MadeUnder[e] = policy[c]}
       IN  \/ cache' = [cache EXCEPT ![c] = [experiences |-> Usable(policy[c], own),
                                            retrieved |-> day]]
           \/ UNCHANGED cache
    /\ revivers' = [revivers EXCEPT ![First(On[c])] = @ \cup {c}]
    /\ UNCHANGED <<External, latest, holder, policy, found, before, removed>>

(* pg_advisory_xact_lock, query by query in sorted order.                    *)
Lock(c) ==
    /\ pc[c] = "lock" /\ Missing(c) # {} /\ holder[First(Missing(c))] = None
    /\ holder' = [holder EXCEPT ![First(Missing(c))] = c]
    /\ Goto(c, IF Cardinality(Missing(c)) = 1 THEN "read" ELSE "lock")
    /\ UNCHANGED <<External, latest, policy, found, cache, before, History>>

(* The newest snapshots, under the locks; a read ends here.                  *)
ReadOnly(c) ==
    /\ pc[c] = "read" /\ Kind[c] = "read" /\ Ends(c)
    /\ UNCHANGED <<External, latest, History>>

NotFound(c) ==
    /\ pc[c] = "read" /\ Kind[c] \in {"merge", "delete"} /\ Ends(c)
    /\ \E q \in On[c] : latest[q] = None
    /\ UNCHANGED <<External, latest, History>>

Read(c) ==
    /\ pc[c] = "read" /\ Writes(c) /\ Goto(c, "commit")
    /\ Kind[c] = "recall" \/ \A q \in On[c] : latest[q] # None
    /\ before' = [before EXCEPT ![c] =
                     [q \in Queries |-> IF q \notin On[c] \/ latest[q] = None THEN None
                                        ELSE Readable(policy[c], latest[q])]]
    /\ UNCHANGED <<External, latest, holder, policy, found, cache, History>>

(* record: the authorized snapshot with what was found, filtered once more.  *)
Recorded(c, higher) ==
    LET old == before[c][First(On[c])]
        all == IF old = None THEN found[c]
               ELSE Merged(old.response, found[c], Retried[c], higher)
    IN  [response |-> Filtered(policy[c], all),
         experiences |-> Usable(policy[c], cache[c].experiences), retrieved |-> cache[c].retrieved,
         scope |-> policy[c]]

Record(c) ==
    /\ pc[c] = "commit" /\ Kind[c] = "recall" /\ Ends(c)
    /\ LET q == First(On[c])
       IN  /\ \E higher \in {{}, Columns} : latest' = [latest EXCEPT ![q] = Recorded(c, higher)]
           /\ removed' = [removed EXCEPT ![q] =
                             IF c \in revivers[q] THEN @ \ cache[c].experiences ELSE @]
    /\ UNCHANGED <<External, revivers>>

(* merge: the target takes the resources and keeps its own experiences.      *)
Absorbed(c, higher) ==
    LET source == CHOOSE q \in On[c] : q # Target[c]
    IN  [before[c][Target[c]] EXCEPT
            !.response = Merged(@, before[c][source].response, {}, higher)]

Merge(c) ==
    /\ pc[c] = "commit" /\ Kind[c] = "merge" /\ Ends(c)
    /\ \E higher \in {{}, Columns} :
           latest' = [q \in Queries |-> IF q = Target[c] THEN Absorbed(c, higher)
                                        ELSE IF q \in On[c] THEN None ELSE latest[q]]
    /\ removed' = [q \in Queries |-> IF q \in On[c] \ {Target[c]} THEN {} ELSE removed[q]]
    /\ UNCHANGED <<External, revivers>>

(* delete: a query that loses nothing is not saved again.                    *)
Cleared(c, q) ==
    [before[c][q] EXCEPT !.response = Without(@, Cut[c][q]),
                         !.experiences = @ \ Cut[c][q].experiences]

Delete(c) ==
    /\ pc[c] = "commit" /\ Kind[c] = "delete" /\ Ends(c)
    /\ LET After(q) == IF Cut[c][q] = Whole THEN None
                       ELSE IF Cleared(c, q) = before[c][q] THEN latest[q] ELSE Cleared(c, q)
           Dropped(q) == before[c][q].experiences \cap (IF Cut[c][q] = Whole THEN Experiences
                                                        ELSE Cut[c][q].experiences)
           Had(q) == {d \in Calls : /\ Kind[d] = "recall" /\ q \in On[d]
                                    /\ pc[d] \in {"lock", "read", "commit"}}
       IN  /\ latest' = [q \in Queries |-> IF q \in On[c] THEN After(q) ELSE latest[q]]
           /\ removed' = [q \in Queries |-> IF q \in On[c] THEN removed[q] \cup Dropped(q)
                                            ELSE removed[q]]
           /\ revivers' = [q \in Queries |-> IF q \in On[c] THEN revivers[q] \cup Had(q)
                                             ELSE revivers[q]]
    /\ UNCHANGED External

(* The transaction of a call fails and leaves nothing.                       *)
Fail(c) ==
    /\ pc[c] \in {"lock", "commit"} /\ Ends(c)
    /\ UNCHANGED <<External, latest, History>>

Next ==
    \/ RightsChange \/ CatalogChanges \/ DayPasses
    \/ \E c \in Calls : \/ Begin(c) \/ Search(c) \/ Look(c) \/ Retrieve(c) \/ Lock(c) \/ ReadOnly(c)
                        \/ NotFound(c) \/ Read(c) \/ Record(c) \/ Merge(c) \/ Delete(c) \/ Fail(c)

Spec == Init /\ [][Next]_vars

-----------------------------------------------------------------------------
(* A writer rewrites the newest snapshot and no other: what a call that runs *)
(* beside it committed is still there to be extended.                        *)
NothingIsLost ==
    \A c \in Calls : pc[c] = "commit" =>
        \A q \in On[c] : before[c][q] = IF latest[q] = None THEN None
                                        ELSE Readable(policy[c], latest[q])

(* What a call that is about to end returns.                                 *)
Answers(c) ==
    CASE pc[c] = "commit" /\ Kind[c] = "recall" -> {Recorded(c, higher) : higher \in {{}, Columns}}
      [] pc[c] = "commit" /\ Kind[c] = "merge" -> {Absorbed(c, higher) : higher \in {{}, Columns}}
      [] pc[c] = "read" /\ Kind[c] = "read" -> {Readable(policy[c], latest[q]) :
                                                  q \in {q \in On[c] : latest[q] # None}}
      [] OTHER -> {}

(* No call returns more than the policy it began with grants.                *)
AnswersAreAuthorized ==
    \A c \in Calls : \A s \in Answers(c) :
        /\ Authorized(policy[c], s.response)
        /\ \A e \in s.experiences :
               Uses[e] \subseteq AllowedColumns(policy[c]) /\ MadeUnder[e] = policy[c]

(* Stored experiences are of the role and fingerprint stored with them, under *)
(* which they are reused.                                                    *)
CachesKeepTheirScope ==
    \A q \in Queries : latest[q] # None =>
        \A e \in latest[q].experiences : MadeUnder[e] = latest[q].scope

(* Recalls, narrowed rights, merges and deletions in any order leave no value *)
(* or key without its column and no column without its table.                *)
SnapshotsAreClosed == \A q \in Queries : latest[q] # None => Closed(latest[q].response)

(* The changes a recall tells bring a reader of the former snapshot to the   *)
(* new one.                                                                  *)
ChangesAreComplete ==
    \A c \in Calls :
        (pc[c] = "commit" /\ Kind[c] = "recall" /\ before[c][First(On[c])] # None) =>
            \A higher \in {{}, Columns} :
                LET old == View(before[c][First(On[c])])
                    new == View(Recorded(c, higher))
                IN  Follow(old, Changed(old, new), Gone(old, new)) = new

(* A deleted experience comes back only with a recall that had it already or *)
(* that retrieved it anew.                                                   *)
DeletedStaysDeleted ==
    \A q \in Queries : latest[q] # None => latest[q].experiences \cap removed[q] = {}

(* However many calls wait, somebody they wait for goes on.                  *)
WaitsFor(c, d) == pc[c] = "lock" /\ Missing(c) # {} /\ holder[First(Missing(c))] = d
NobodyWaitsInACircle ==
    ~ \E S \in SUBSET {c \in Calls : pc[c] = "lock"} :
          S # {} /\ \A c \in S : \E d \in S : WaitsFor(c, d)

RecallsAreSafe ==
    /\ NothingIsLost /\ AnswersAreAuthorized /\ CachesKeepTheirScope /\ SnapshotsAreClosed
    /\ ChangesAreComplete /\ DeletedStaysDeleted /\ NobodyWaitsInACircle

=============================================================================
