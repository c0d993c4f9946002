------------------------------ MODULE QueryGuard ------------------------------
(***************************************************************************)
(* The check of one SELECT before it runs, join by join.  Parsing and name *)
(* resolution belong to sqlglot; a query is described by what the checks   *)
(* look at, and a condition by its comparisons and connectives.            *)
(***************************************************************************)
EXTENDS Naturals, Sequences, FiniteSets

CONSTANT MaxJoins    \* bound on the joins of a query

GuardAssumption == MaxJoins \in Nat \ {0}

(* What makes a statement invalid before its joins are looked at.          *)
Flaws == {"write", "forbidden", "function", "catalog"}

(* Source 1 is FROM, source n + 1 the n-th join.                           *)
Sources == 1 .. MaxJoins + 1

Operands == {{s} : s \in Sources} \cup {{}, {1, 2}}
Compare(a, b) == [op |-> "compare", sides |-> <<a, b>>]
Comparisons == {Compare(a, b) : a \in Operands, b \in Operands}
Plain == {Compare({s}, {t}) : s \in {1, 2}, t \in Sources \ {2}} \cup {Compare({1}, {2})}
Combined(op, A, B) == {[op |-> op, args |-> <<a, b>>] : a \in A, b \in B}
Not(a) == [op |-> "not", args |-> <<a>>]
Function(a, b) == [op |-> "function", args |-> <<a, b>>]

Conditions ==
    Comparisons \cup {Not(c) : c \in Plain} \cup {Function(a, a) : a \in Plain}
    \cup UNION {Combined(op, Plain, Plain) : op \in {"and", "or", "xor"}}

(* What follows a JOIN: CROSS, nothing, USING, or ON with a condition.     *)
NoCondition == [op |-> "none"]
Cross == [op |-> "cross"]
Using == [op |-> "using"]

VARIABLES
    kind,      \* business query, SHOW or a query of information_schema
    flaws,
    left,      \* sources that were met already
    joins,     \* the joins of the query, as far as they were looked at
    issues,
    verdict    \* "none", then "valid" or "rejected"

guardVars == <<kind, flaws, left, joins, issues, verdict>>

Init ==
    /\ kind \in {"business", "show", "information_schema"}
    /\ flaws \in {F \in SUBSET Flaws : Cardinality(F) <= 1}
    /\ left = {1} /\ joins = <<>> /\ issues = {}
    /\ verdict = "none"

-----------------------------------------------------------------------------
Right == Len(joins) + 2    \* the source that is joined next

(* The side of the join that the qualified columns of an operand are on.   *)
Side(operand) ==
    IF operand # {} /\ operand \subseteq left THEN "left"
    ELSE IF operand = {Right} THEN "right" ELSE "neither"

ComparisonLinks(c) == {Side(c.sides[1]), Side(c.sides[2])} = {"left", "right"}

Alternatives == {"or", "xor"}

ConditionLinks[c \in Conditions] ==
    \/ c.op = "compare" /\ ComparisonLinks(c)
    \/ c.op \in Alternatives /\ \A i \in DOMAIN c.args : ConditionLinks[c.args[i]]
    \/ c.op \notin Alternatives \cup {"compare"} /\ \E i \in DOMAIN c.args : ConditionLinks[c.args[i]]

JoinIssues(c) ==
    CASE c.op = "cross" -> {"cross_join_forbidden"}
      [] c.op = "none" -> {"join_condition_required"}
      [] c.op = "using" -> {}
      [] OTHER -> IF ConditionLinks[c] THEN {} ELSE {"invalid_join_condition"}

(* SHOW TABLES and information_schema are not looked at any further; the   *)
(* statement checks come before the catalog is read and the joins are.     *)
ChecksStatement ==
    /\ verdict = "none" /\ joins = <<>>
    /\ \/ flaws # {} /\ verdict' = "rejected" /\ issues' = flaws
       \/ flaws = {} /\ kind # "business" /\ verdict' = "valid" /\ UNCHANGED issues
    /\ UNCHANGED <<kind, flaws, left, joins>>

ChecksJoin(c) ==
    /\ verdict = "none" /\ kind = "business" /\ flaws = {}
    /\ Right \in Sources
    /\ joins' = Append(joins, c)
    /\ issues' = issues \cup JoinIssues(c)
    /\ left' = left \cup {Right}
    /\ UNCHANGED <<kind, flaws, verdict>>

Concludes ==
    /\ verdict = "none" /\ kind = "business" /\ flaws = {}
    /\ verdict' = IF issues = {} THEN "valid" ELSE "rejected"
    /\ UNCHANGED <<kind, flaws, left, joins, issues>>

Next ==
    \/ ChecksStatement \/ Concludes
    \/ \E c \in Conditions \cup {NoCondition, Cross, Using} : ChecksJoin(c)

Spec == Init /\ [][Next]_guardVars

-----------------------------------------------------------------------------
(* Properties.                                                             *)

Issues ==
    Flaws \cup {"cross_join_forbidden", "join_condition_required", "invalid_join_condition"}

TypeOK ==
    /\ kind \in {"business", "show", "information_schema"} /\ flaws \subseteq Flaws
    /\ left \subseteq Sources /\ issues \subseteq Issues
    /\ joins \in Seq(Conditions \cup {NoCondition, Cross, Using}) /\ Len(joins) <= MaxJoins
    /\ verdict \in {"none", "valid", "rejected"}

(* The pairs of sources that a condition compares, for every way to choose *)
(* the branches of its disjunctions: what holds of a row that satisfies it *)
(* if negations and functions are read as the comparisons they contain.    *)
Branches[c \in Conditions] ==
    CASE c.op = "compare" -> {{c}}
      [] c.op \in Alternatives -> Branches[c.args[1]] \cup Branches[c.args[2]]
      [] c.op = "not" -> Branches[c.args[1]]
      [] OTHER -> {a \cup b : a \in Branches[c.args[1]], b \in Branches[c.args[2]]}

(* The comparisons of a branch relate the joined source to earlier ones.   *)
Related(branch, right) ==
    UNION {LET a == c.sides[1] b == c.sides[2] IN
           CASE a = {right} /\ b # {} /\ right \notin b -> b
             [] b = {right} /\ a # {} /\ right \notin a -> a
             [] OTHER -> {} : c \in branch}

(* The rule against Cartesian products: whichever branches of the          *)
(* conditions hold, every joined source of a valid query is compared with  *)
(* sources that stand before it, so no source is left unconnected.         *)
SourcesAreConnected ==
    verdict = "valid" /\ kind = "business" =>
        \A i \in DOMAIN joins :
            LET earlier == 1 .. i IN
            \/ joins[i].op = "using"
            \/ /\ joins[i].op \notin {"cross", "none"}
               /\ \A branch \in Branches[joins[i]] :
                      Related(branch, i + 1) \cap earlier # {}

(* And nothing that connects its sources so is refused: a comparison with  *)
(* earlier sources only, in every branch.                                  *)
ConnectedIsAccepted ==
    verdict = "rejected" /\ flaws = {} =>
        \E i \in DOMAIN joins :
            \/ joins[i].op \in {"cross", "none"}
            \/ /\ joins[i].op # "using"
               /\ \E branch \in Branches[joins[i]] :
                      \A c \in branch : ~ (Related({c}, i + 1) # {}
                                           /\ Related({c}, i + 1) \subseteq 1 .. i)

JoinsAreChecked == SourcesAreConnected /\ ConnectedIsAccepted

=============================================================================
