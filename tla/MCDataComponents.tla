-------------------------- MODULE MCDataComponents --------------------------
(* Components that share no state, each explored on its own: the initial   *)
(* state chooses the part that moves, the others keep one initial state.   *)
EXTENDS Access, Sandboxes, Metadata, Recall, Answers, TLC

-----------------------------------------------------------------------------
(* The sandboxes of three users, where one container may run.              *)
CONSTANTS uA, uB, uC, kA, kB, kC, o1, o2, o3, p1, d1, t1, x1, n1
UserOfWorker == [a \in Workers |-> CASE a = o2 -> uB [] a = o3 -> uC [] OTHER -> uA]
ChatOfWorker == [a \in Workers |-> CASE a = o2 -> kB [] a = o3 -> kC [] OTHER -> kA]
KindOfWorker == o1 :> "operate" @@ o2 :> "operate" @@ o3 :> "operate" @@ p1 :> "prepare"
                @@ d1 :> "removeChat" @@ t1 :> "tidy" @@ x1 :> "removeUser" @@ n1 :> "clean"
(* Whoever can meet: every kind of work with every other on a container.   *)
CrewsOfWorkers ==
    {{o1, o2, o3}, {o1, o2, d1}, {o1, p1, x1}, {d1, x1, p1}, {o1, o2, n1}, {o1, o2, x1},
     {o2, d1, n1}, {p1, n1}, {t1, d1, x1}, {o2, t1}}

(* Two conversations and a session, whose uids collide.                    *)
CONSTANTS k1, k2, s1
HomeOfSession == s1 :> k1
DigestsOfUids == k1 :> <<1, 2, 3>> @@ k2 :> <<1, 3, 2>> @@ s1 :> <<2, 1, 3>>

(* A writer, an upload and two edits of a file of at most two pieces.      *)
CONSTANTS w1, w2, e1, e2
ToolOfCall == w1 :> "write" @@ w2 :> "upload" @@ e1 :> "edit" @@ e2 :> "edit"

(* Every path of three components.                                         *)
RootPath == <<"data", "k">>
SessionPath == <<"data", "k", "sessions", "s">>

(* One request of each kind, and a second refresh with the same token.     *)
CONSTANTS l1, f1, f2, u1
KindOfRequest == l1 :> "login" @@ f1 :> "refresh" @@ f2 :> "refresh" @@ o1 :> "logout"
                 @@ p1 :> "password" @@ u1 :> "update" @@ d1 :> "delete"

(* Two administrators and a reader of one role, one fault; of the rate     *)
(* limits, three keys where two are counted, once in two seconds.          *)
CONSTANTS a1, a2, r1, u2

(* Three requests of any kind to a catalogue of two tables.                *)
CONSTANTS fa, kb, vb, ta, tb, ma, mb, va, vk
TableOfColumn == fa :> ta @@ kb :> tb @@ vb :> tb
Full == [tables |-> ta :> 1 @@ tb :> 1, columns |-> fa :> kb @@ kb :> None @@ vb :> None,
         metrics |-> ma :> {vb}]
Smaller == [tables |-> tb :> 2, columns |-> kb :> None, metrics |-> ma :> {kb}]
Torn == [tables |-> ta :> 2, columns |-> fa :> kb, metrics |-> <<>>]
Beginnings == {Full}
PutJob(x, k, v) == [kind |-> "put", field |-> x, key |-> k, value |-> v]
DeleteJob(x, S) == [kind |-> "delete", field |-> x, keys |-> S]
JobsOfAdministrators ==
    {PutJob("tables", ta, 2), PutJob("columns", fa, None), PutJob("columns", fa, kb),
     PutJob("columns", vb, kb), PutJob("metrics", ma, {kb}), PutJob("metrics", ma, {fa, vb}),
     DeleteJob("tables", {ta}), DeleteJob("tables", {tb}), DeleteJob("tables", {ta, tb}),
     DeleteJob("columns", {vb}), DeleteJob("columns", {kb}), DeleteJob("columns", {fa, kb}),
     DeleteJob("metrics", {ma})}
    \cup [kind : {"import"}, document : {Full, Smaller, Torn}, replace : BOOLEAN]

(* Three writers of an entry, two tasks, one fault; two runs over three    *)
(* values of a column, two changes of its configuration.                   *)
CONSTANTS v1, v2, t2

-----------------------------------------------------------------------------
(* One ranked resource of a type, two columns of context; a table refers   *)
(* to another by its key.                                                  *)
ReferenceOfColumn == fa :> kb @@ kb :> Absent @@ vb :> Absent
NeedsOfMetric == ma :> {fa, vb} @@ mb :> {}
ColumnOfValue == va :> vb @@ vk :> fa
SpellingOfResource == fa :> 1 @@ kb :> 2 @@ vb :> 3 @@ ma :> 1 @@ mb :> 2 @@ va :> 1 @@ vk :> 2

(* Recalls, a merge, deletions and a read of two queries, while the rights *)
(* or the catalog change once or a day passes.                             *)
CONSTANTS c1, c2, c3, g1, g2
RankOfQuery == k1 :> 1 @@ k2 :> 2
CrewsOfCalls == {{c1, c2, d1}, {c1, g1, g2}, {c3, g1}, {d1, g2}, {x1, c1, d1}, {x1, g1}}
KindOfRecall == [c \in Calls |-> CASE c \in {c1, c2, c3} -> "recall" [] c = g1 -> "merge"
                                   [] c = x1 -> "read" [] OTHER -> "delete"]
QueriesOfCall == [c \in Calls |-> CASE c = c3 -> {k2} [] c \in {g1, g2} -> {k1, k2} [] OTHER -> {k1}]
TargetOfMerge == [c \in Calls |-> k1]
ScopesOfRecall == [c \in Calls |-> IF c = c2 THEN {} ELSE {t1}]
Uncut == [columns |-> {}, tables |-> {}, values |-> {}, metrics |-> {}, experiences |-> {}]
CutOfDeletion ==
    [c \in Calls |-> IF c = d1 THEN k1 :> [Uncut EXCEPT !.experiences = {e1}, !.tables = {tb}]
                     ELSE k1 :> Whole @@ k2 :> [Uncut EXCEPT !.columns = {vb}]]
Everything == [columns |-> {fa, kb, vb}, database |-> FALSE]
OnlyFacts == [columns |-> {fa}, database |-> FALSE]
RightsOfUser == {Everything, OnlyFacts}
UsesOfExperience == e1 :> {vb} @@ e2 :> {fa}
PolicyOfExperience == [e \in Experiences |-> Everything]
SearchesOfRecalls ==
    {[columns |-> {fa}, metrics |-> {ma}, values |-> {va}, failures |-> {}],
     [columns |-> {}, metrics |-> {}, values |-> {}, failures |-> {t1}]}

-----------------------------------------------------------------------------
(* Queries of up to two joins; results of up to three rows, two of them in *)
(* the sample; two queries of a role that is deleted and created again,    *)
(* perhaps by another process, one fault.                                  *)
ServerOfStatement == w1 :> p1 @@ w2 :> p1

-----------------------------------------------------------------------------
vars == <<sandboxVars, accessVars, metadataVars, recallingVars, answerVars>>

Init ==
    /\ part \in {"owners", "store", "files", "paths", "values", "entries", "auth",
                 "roles", "rates", "guard", "results", "execution", "search", "recalls",
                 "catalog"}
    /\ \/ part = "search"
       \/ part # "search" /\ policy = [columns |-> {}, database |-> FALSE] /\ types = {"value"}
    /\ \/ part = "recalls"
       \/ part # "recalls" /\ rights = Everything /\ latest = [q \in RecallQueries |-> Absent]
    /\ RecallInit /\ (part # "recalls" => callPc[c3] = "new")
    /\ AnswersInit
    /\ part # "guard" => kind = "show" /\ flaws = {}
    /\ SandboxInit
    /\ part # "owners" => ownerPc[o1] = "new" /\ ownerPc[o3] = "new"
    /\ part # "paths" => asked = Paths!Path("", <<>>)
    /\ AccessInit /\ (part # "rates" => ~shared)
    /\ MetadataInit

SandboxMoves == SandboxNext /\ UNCHANGED <<accessVars, metadataVars, recallingVars, answerVars>>
AccessMoves == AccessNext /\ UNCHANGED <<sandboxVars, metadataVars, recallingVars, answerVars>>
MetadataMoves == MetadataNext /\ UNCHANGED <<sandboxVars, accessVars, recallingVars, answerVars>>
RecallMoves == RecallNext /\ UNCHANGED <<sandboxVars, accessVars, metadataVars, answerVars>>
AnswerMoves == AnswersNext /\ UNCHANGED <<sandboxVars, accessVars, metadataVars, recallingVars>>

Next == SandboxMoves \/ AccessMoves \/ MetadataMoves \/ RecallMoves \/ AnswerMoves

Spec == Init /\ [][Next]_vars

(* An invariant is asked of the part that moves.                           *)
TypeOK == SandboxTypes /\ AccessTypes /\ MetadataTypes /\ RecallTypes /\ AnswerTypes

=============================================================================
