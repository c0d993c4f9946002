--------------------------- MODULE MetadataSearch ---------------------------
(* One semantic recall: the catalog as the policy leaves it, the searches of  *)
(* the indexes by text and by vector, whose answers and failures are merged, *)
(* the ranking, and the context of columns that is returned with it.         *)
EXTENDS SemanticResources, Sequences, SequencesExt, FiniteSetsExt

CONSTANTS
    Depth,        \* bound: hits of one query
    Limit,        \* limit_per_type: resources of a type in an answer
    MaxContexts,  \* _MAX_RANKED_CONTEXT_COLUMNS
    Indexed,      \* the columns whose values are indexed
    Spelling      \* where str(key) puts a column, metric or value

SearchAssumption ==
    /\ ResourcesAssumption /\ {Depth, Limit, MaxContexts} \subseteq Nat \ {0}
    /\ IsFiniteSet(Columns) /\ IsFiniteSet(Metrics) /\ IsFiniteSet(Values)
    /\ Indexed \subseteq Columns
    /\ Spelling \in [Columns \cup Metrics \cup Values -> Nat]
    /\ \A S \in {Columns, Metrics, Values} : \A a, b \in S : Spelling[a] = Spelling[b] => a = b

Types == {"column", "metric", "value"}
Channels == {"fulltext", "vector"}

VARIABLES
    policy, types,
    stage,      \* what happens next
    embedded,   \* the vectors of the terms were made
    ranked,     \* the candidates of each type that are kept, best first
    clipped,    \* more candidates or columns were found than are kept
    failures,   \* the channels recorded as failed
    answered,   \* the channels whose index did answer
    response

vars == <<policy, types, stage, embedded, ranked, clipped, failures, answered, response>>

TypeOK ==
    /\ policy \in Policies /\ types \subseteq Types
    /\ stage \in {"embed", "column", "metric", "value", "build", "done"}
    /\ embedded \in BOOLEAN /\ clipped \in BOOLEAN
    /\ failures \subseteq Types \X Channels /\ answered \subseteq Types \X Channels
    /\ ranked \in [Types -> Seq(Columns \cup Metrics \cup Values)]
    /\ \A t \in Types : Len(ranked[t]) <= Limit
    /\ response = None \/ response \in Responses

Init ==
    /\ policy \in Policies /\ types \in (SUBSET Types) \ {{}}
    /\ stage = "embed" /\ embedded = FALSE /\ clipped = FALSE
    /\ ranked = [t \in Types |-> <<>>]
    /\ failures = {} /\ answered = {} /\ response = None

-----------------------------------------------------------------------------
(* Only what is in the filtered catalog is searched for.                     *)
Known ==
    [column |-> AllowedColumns(policy), metric |-> AllowedMetrics(policy),
     value |-> {v \in Values : ColumnOf[v] \in AllowedColumns(policy) \cap Indexed}]

Searched(type) ==
    /\ type \in types
    /\ IF type = "metric" THEN Known.metric # {} ELSE Known.column # {}

(* A query answers with documents, best first: of a column or a metric the   *)
(* index holds several, of a value one. The check against the catalog is     *)
(* made again on what comes back.                                            *)
Hits(type, universe) ==
    {hits \in UNION {[1 .. n -> universe] : n \in 0 .. Depth} :
        type = "value" => IsInjective(hits)}

(* One over the rank plus 60, in units of the product of all denominators.   *)
Unit == FoldSet(LAMBDA n, product : n * product, 1, {60 + rank : rank \in 1 .. Depth})
Reciprocal(rank) == Unit \div (60 + rank)

Found(answers) == UNION {ToSet(answers[channel]) : channel \in DOMAIN answers}

(* A resource scores once for each query, by the place of its first document.*)
Score(answers, key) ==
    MapThenSumSet(LAMBDA channel :
                      IF key \in ToSet(answers[channel])
                      THEN Reciprocal(SelectInSeq(answers[channel], LAMBDA k : k = key)) ELSE 0,
                  DOMAIN answers)

(* _rank_candidates: by score, then by spelling.                             *)
Orders(answers, known) ==
    LET found == Found(answers) \cap known
        score == [key \in found |-> Score(answers, key)]
        Precedes(a, b) == \/ score[a] > score[b]
                          \/ score[a] = score[b] /\ Spelling[a] < Spelling[b]
    IN  {order \in [1 .. Cardinality(found) -> found] :
            \A i, j \in DOMAIN order : i < j => Precedes(order[i], order[j])}

FirstOf(order) == [i \in 1 .. Min({Len(order), Limit}) |-> order[i]]

-----------------------------------------------------------------------------
(* One call makes the vectors of both types.                                 *)
Embed ==
    /\ stage = "embed" /\ stage' = "column"
    /\ LET wanted == {type \in {"column", "metric"} : Searched(type)}
       IN  \/ wanted # {} /\ embedded' = TRUE /\ UNCHANGED failures
           \/ embedded' = FALSE /\ failures' = {<<type, "vector">> : type \in wanted}
    /\ UNCHANGED <<policy, types, ranked, clipped, answered, response>>

(* _collect_semantic_matches, _collect_value_matches: the channels of a type *)
(* answer or fail each on its own.                                           *)
Collect(type, universe, next) ==
    /\ stage = type /\ stage' = next
    /\ IF Searched(type)
       THEN LET channels == IF type # "value" /\ embedded THEN Channels ELSE {"fulltext"}
            IN  \E lost \in SUBSET channels :
                \E answers \in [channels \ lost -> Hits(type, universe)] :
                \E order \in Orders(answers, Known[type]) :
                    /\ failures' = failures \cup ({type} \X lost)
                    /\ answered' = answered \cup ({type} \X (channels \ lost))
                    /\ ranked' = [ranked EXCEPT ![type] = FirstOf(order)]
                    /\ clipped' = (clipped \/ Len(order) > Limit)
       ELSE UNCHANGED <<failures, answered, ranked, clipped>>
    /\ UNCHANGED <<policy, types, embedded, response>>

(* _add_ranked_resources: at most MaxContexts columns for what was matched   *)
(* and then for what the matched metrics need, in that order; the columns of *)
(* values are not counted.                                                   *)
Matched(places) == {ranked.column[i] : i \in places}
Needed(places) == UNION {Needs[ranked.metric[i]] : i \in places}
Wanted == Matched(DOMAIN ranked.column) \cup Needed(DOMAIN ranked.metric)

HasRoom(before) == Cardinality(before) < MaxContexts
Fitting ==
    Matched({i \in DOMAIN ranked.column : HasRoom(Matched(1 .. i - 1))})
    \cup UNION {{c \in Needs[ranked.metric[i]] :
                    HasRoom(Matched(DOMAIN ranked.column) \cup Needed(1 .. i - 1)
                            \cup {d \in Needs[ranked.metric[i]] : Spelling[d] < Spelling[c]})} :
                  i \in DOMAIN ranked.metric}
Owning == {ColumnOf[ranked.value[i]] : i \in DOMAIN ranked.value}

Build ==
    /\ stage = "build" /\ stage' = "done"
    /\ clipped' = (clipped \/ Fitting # Wanted)
    /\ response' = Response(policy, 1, InContext(AllowedColumns(policy), Fitting \cup Owning),
                            ToSet(ranked.metric), ToSet(ranked.value), {})
    /\ UNCHANGED <<policy, types, embedded, ranked, failures, answered>>

Next ==
    \/ Embed
    \/ Collect("column", Columns, "metric")
    \/ Collect("metric", Metrics, "value")
    \/ Collect("value", Values, "build")
    \/ Build

Spec == Init /\ [][Next]_vars

-----------------------------------------------------------------------------
(* An answer names nothing the policy does not grant, not even as the target *)
(* of a reference or as a key of a table.                                    *)
AnswersAreAuthorized == stage = "done" => Authorized(policy, response)

(* Whatever is cut off, the column of a value comes with it, a table with    *)
(* its columns, and a metric either with all it needs or marked truncated.   *)
AnswersAreUsable ==
    stage = "done" =>
        /\ Closed(response)
        /\ clipped \/ \A m \in In(response.metrics) : Needs[m] \subseteq In(response.columns)

(* A search that did not answer is told, so that silence means no match: for *)
(* every type searched, each channel it has answered or is in the failures.  *)
FailuresAreTold ==
    stage = "done" =>
        \A type \in Types, channel \in Channels :
            (Searched(type) /\ (type = "value" => channel = "fulltext"))
                => <<type, channel>> \in failures \cup answered

SearchIsSound == AnswersAreAuthorized /\ AnswersAreUsable /\ FailuresAreTold

=============================================================================
