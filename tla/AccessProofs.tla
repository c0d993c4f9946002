----------------------------- MODULE AccessProofs -----------------------------
(***************************************************************************)
(* Proofs about what a user may do and what is answered.  First Answers,   *)
(* for any number of joins, rows, queries, processes and generations of    *)
(* credentials: the check of the joins by what a condition links, the      *)
(* summary of a result by what was read so far, the pools by who holds     *)
(* each of them.  Then Access: tokens, roles and rate limits, for any      *)
(* number of requests, of administrators, accounts, roles and faults, and  *)
(* of keys.                                                                *)
(***************************************************************************)
EXTENDS Access, Answers, FiniteSetTheorems, SequenceTheorems, WellFoundedInduction, TLAPS

-----------------------------------------------------------------------------
(* The check of the joins of a query.                                      *)

(* A condition is a comparison, or built of one or two of them.            *)
LEMMA ComparisonShape ==
    ASSUME NEW c \in Guard!Comparisons
    PROVE  /\ c \in Guard!Conditions /\ c.op = "compare"
           /\ \E a, b \in Guard!Operands : c.sides = <<a, b>>
<1>1. PICK a \in Guard!Operands, b \in Guard!Operands : c = Guard!Compare(a, b)
  BY DEF Guard!Comparisons
<1> QED BY <1>1 DEF Guard!Compare, Guard!Conditions

LEMMA PlainAreComparisons == Guard!Plain \subseteq Guard!Comparisons
<1>1. \A s \in Guard!Sources : {s} \in Guard!Operands
  BY DEF Guard!Operands
<1>2. {1, 2} \subseteq Guard!Sources
  BY AnswersAssumption DEF Guard!Sources, Guard!GuardAssumption
<1>3. {1} \in Guard!Operands /\ {2} \in Guard!Operands
  BY <1>1, <1>2
<1>4. ASSUME NEW s \in {1, 2}, NEW t \in Guard!Sources
      PROVE  Guard!Compare({s}, {t}) \in Guard!Comparisons
  <2>1. {s} \in Guard!Operands /\ {t} \in Guard!Operands
    BY <1>1, <1>2
  <2> QED BY <2>1 DEF Guard!Comparisons
<1>5. Guard!Compare({1}, {2}) \in Guard!Comparisons
  BY <1>3 DEF Guard!Comparisons
<1>6. ASSUME NEW c \in Guard!Plain PROVE c \in Guard!Comparisons
  <2>1. c = Guard!Compare({1}, {2}) \/ \E s \in {1, 2} : \E t \in Guard!Sources : c = Guard!Compare({s}, {t})
    BY DEF Guard!Plain
  <2> QED BY <1>4, <1>5, <2>1
<1> QED BY <1>6

LEMMA ConditionShapes ==
    ASSUME NEW c \in Guard!Conditions
    PROVE  \/ c \in Guard!Comparisons
           \/ c.op = "not" /\ \E a \in Guard!Comparisons : c.args = <<a>>
           \/ c.op \in {"function", "and", "or", "xor"}
              /\ \E a, b \in Guard!Comparisons : c.args = <<a, b>>
<1>1. CASE c \in {Guard!Not(a) : a \in Guard!Plain}
  <2>1. PICK a \in Guard!Plain : c = Guard!Not(a)
    BY <1>1
  <2> QED BY <2>1, PlainAreComparisons DEF Guard!Not
<1>2. CASE c \in {Guard!Function(a, a) : a \in Guard!Plain}
  <2>1. PICK a \in Guard!Plain : c = Guard!Function(a, a)
    BY <1>2
  <2> QED BY <2>1, PlainAreComparisons DEF Guard!Function
<1>3. CASE c \in UNION {Guard!Combined(op, Guard!Plain, Guard!Plain) : op \in {"and", "or", "xor"}}
  <2>1. PICK op \in {"and", "or", "xor"} : c \in Guard!Combined(op, Guard!Plain, Guard!Plain)
    BY <1>3
  <2>2. PICK a \in Guard!Plain, b \in Guard!Plain : c = [op |-> op, args |-> <<a, b>>]
    BY <2>1 DEF Guard!Combined
  <2> QED BY <2>1, <2>2, PlainAreComparisons
<1> QED BY <1>1, <1>2, <1>3 DEF Guard!Conditions

LEMMA ArgumentsAreComparisons ==
    ASSUME NEW c \in Guard!Conditions, c.op # "compare", NEW i \in DOMAIN c.args
    PROVE  c.args[i] \in Guard!Comparisons
<1>1. CASE \E a \in Guard!Comparisons : c.args = <<a>>
  BY <1>1
<1>2. CASE \E a, b \in Guard!Comparisons : c.args = <<a, b>>
  BY <1>2
<1> QED BY <1>1, <1>2, ConditionShapes, ComparisonShape

(* The recursion ends: what is built of comparisons is not built further.  *)
LEMMA LinksAre ==
    ASSUME NEW c \in Guard!Conditions
    PROVE  /\ c.op = "compare" => (Guard!ConditionLinks[c] <=> Guard!ComparisonLinks(c))
           /\ c.op \in Guard!Alternatives =>
                  (Guard!ConditionLinks[c] <=>
                       \A i \in DOMAIN c.args : Guard!ConditionLinks[c.args[i]])
           /\ c.op \notin Guard!Alternatives \cup {"compare"} =>
                  (Guard!ConditionLinks[c] <=>
                       \E i \in DOMAIN c.args : Guard!ConditionLinks[c.args[i]])
<1> DEFINE Value(f, d) ==
               \/ d.op = "compare" /\ Guard!ComparisonLinks(d)
               \/ d.op \in Guard!Alternatives /\ \A i \in DOMAIN d.args : f[d.args[i]]
               \/ d.op \notin Guard!Alternatives \cup {"compare"} /\ \E i \in DOMAIN d.args : f[d.args[i]]
           Body(f) == [d \in Guard!Conditions |-> Value(f, d)]
           One == [d \in Guard!Conditions |-> Guard!ComparisonLinks(d)]
           Two == Body(One)
<1>1. Guard!ConditionLinks = CHOOSE f : f = Body(f)
  BY DEF Guard!ConditionLinks
<1>2. Two = Body(Two)
  <2>1. ASSUME NEW d \in Guard!Conditions PROVE Value(One, d) <=> Value(Two, d)
    <3>1. CASE d.op = "compare"
      BY <3>1 DEF Guard!Alternatives
    <3>2. ASSUME d.op # "compare", NEW i \in DOMAIN d.args PROVE One[d.args[i]] <=> Two[d.args[i]]
      <4>1. d.args[i] \in Guard!Conditions /\ d.args[i].op = "compare"
        BY <3>2, ArgumentsAreComparisons, ComparisonShape
      <4>2. One[d.args[i]] <=> Guard!ComparisonLinks(d.args[i])
        BY <4>1
      <4>3. Two[d.args[i]] <=> Value(One, d.args[i])
        BY <4>1
      <4>4. Value(One, d.args[i]) <=> Guard!ComparisonLinks(d.args[i])
        BY <4>1 DEF Guard!Alternatives
      <4> QED BY <4>2, <4>3, <4>4
    <3> HIDE DEF One, Two
    <3> QED BY <3>1, <3>2
  <2>2. \A d \in Guard!Conditions : Value(One, d) = Value(Two, d)
    <3> HIDE DEF One, Two
    <3> QED BY <2>1
  <2> HIDE DEF Value, One
  <2> QED BY <2>2
<1> HIDE DEF Two
<1>3. Guard!ConditionLinks = Body(Guard!ConditionLinks)
  <2> HIDE DEF Body
  <2> QED BY <1>1, <1>2
<1>4. Guard!ConditionLinks[c] <=> Value(Guard!ConditionLinks, c)
  <2> HIDE DEF Value
  <2> QED BY <1>3
<1> QED BY <1>4 DEF Guard!Alternatives

LEMMA BranchesAre ==
    ASSUME NEW c \in Guard!Conditions
    PROVE  /\ c \in Guard!Comparisons => Guard!Branches[c] = {{c}}
           /\ \A a, b \in Guard!Comparisons : c.args = <<a, b>> =>
                  /\ c.op \in Guard!Alternatives => Guard!Branches[c] = {{a}, {b}}
                  /\ c.op \in {"and", "function"} => Guard!Branches[c] = {{a, b}}
           /\ \A a \in Guard!Comparisons : c.args = <<a>> /\ c.op = "not" => Guard!Branches[c] = {{a}}
<1> DEFINE Value(f, d) ==
               CASE d.op = "compare" -> {{d}}
                 [] d.op \in Guard!Alternatives -> f[d.args[1]] \cup f[d.args[2]]
                 [] d.op = "not" -> f[d.args[1]]
                 [] OTHER -> {a \cup b : a \in f[d.args[1]], b \in f[d.args[2]]}
           Body(f) == [d \in Guard!Conditions |-> Value(f, d)]
           One == [d \in Guard!Conditions |-> {{d}}]
           Two == Body(One)
<1>1. Guard!Branches = CHOOSE f : f = Body(f)
  BY DEF Guard!Branches
<1>2. ASSUME NEW d \in Guard!Comparisons PROVE One[d] = {{d}} /\ Two[d] = {{d}}
  <2>1. d \in Guard!Conditions /\ d.op = "compare"
    BY ComparisonShape
  <2>2. Value(One, d) = {{d}}
    BY <2>1 DEF Guard!Alternatives
  <2>3. Two[d] = Value(One, d)
    <3> HIDE DEF Value, One
    <3> QED BY <2>1
  <2>4. One[d] = {{d}}
    BY <2>1
  <2> HIDE DEF Value, One, Two
  <2> QED BY <2>2, <2>3, <2>4
<1>3. Two = Body(Two)
  <2>1. ASSUME NEW d \in Guard!Conditions PROVE Value(One, d) = Value(Two, d)
    <3> HIDE DEF One, Two
    <3>1. CASE d \in Guard!Comparisons
      BY <3>1, ComparisonShape DEF Guard!Alternatives
    <3>2. ASSUME NEW a \in Guard!Comparisons, NEW b \in Guard!Comparisons, d.args = <<a, b>>,
                 d.op \in {"function", "and", "or", "xor"}
          PROVE  Value(One, d) = Value(Two, d)
      <4>1. One[d.args[1]] = Two[d.args[1]] /\ One[d.args[2]] = Two[d.args[2]]
        <5>1. d.args[1] = a /\ d.args[2] = b
          BY <3>2
        <5>2. One[a] = Two[a] /\ One[b] = Two[b]
          BY <1>2
        <5> QED BY <5>1, <5>2
      <4> QED BY <3>2, <4>1 DEF Guard!Alternatives
    <3>3. ASSUME NEW a \in Guard!Comparisons, d.args = <<a>>, d.op = "not"
          PROVE  Value(One, d) = Value(Two, d)
      <4>1. One[d.args[1]] = Two[d.args[1]]
        <5>1. d.args[1] = a
          BY <3>3
        <5>2. One[a] = Two[a]
          BY <1>2
        <5> QED BY <5>1, <5>2
      <4> QED BY <3>3, <4>1 DEF Guard!Alternatives
    <3>4. CASE d.op = "not" /\ \E a \in Guard!Comparisons : d.args = <<a>>
      <4>1. PICK a \in Guard!Comparisons : d.args = <<a>>
        BY <3>4
      <4> QED BY <3>3, <3>4, <4>1
    <3>5. CASE d.op \in {"function", "and", "or", "xor"} /\ \E a, b \in Guard!Comparisons : d.args = <<a, b>>
      <4>1. PICK a \in Guard!Comparisons, b \in Guard!Comparisons : d.args = <<a, b>>
        BY <3>5
      <4> HIDE DEF Value
      <4> QED BY <3>2, <3>5, <4>1
    <3> QED BY <3>1, <3>4, <3>5, ConditionShapes
  <2> HIDE DEF Value, One
  <2> QED BY <2>1
<1> HIDE DEF Two
<1>4. Guard!Branches = Body(Guard!Branches)
  <2> HIDE DEF Body
  <2> QED BY <1>1, <1>3
<1>5. ASSUME NEW d \in Guard!Conditions PROVE Guard!Branches[d] = Value(Guard!Branches, d)
  <2> HIDE DEF Value
  <2> QED BY <1>4
<1> HIDE DEF Body
<1>6. ASSUME NEW d \in Guard!Comparisons PROVE Guard!Branches[d] = {{d}}
  <2>1. d \in Guard!Conditions /\ d.op = "compare"
    BY ComparisonShape
  <2>2. Guard!Branches[d] = Value(Guard!Branches, d)
    <3> HIDE DEF Value
    <3> QED BY <1>5, <2>1
  <2> QED BY <2>1, <2>2 DEF Guard!Alternatives
<1>7. ASSUME NEW a \in Guard!Comparisons, NEW b \in Guard!Comparisons, c.args = <<a, b>>,
             c.op \in Guard!Alternatives
      PROVE  Guard!Branches[c] = {{a}, {b}}
  <2>1. Guard!Branches[c] = Guard!Branches[a] \cup Guard!Branches[b]
    <3>1. c.args[1] = a /\ c.args[2] = b
      BY <1>7
    <3>2. Guard!Branches[c] = Value(Guard!Branches, c)
      <4> HIDE DEF Value
      <4> QED BY <1>5
    <3> QED BY <1>7, <3>1, <3>2 DEF Guard!Alternatives
  <2> QED BY <1>6, <2>1
<1>8. ASSUME NEW a \in Guard!Comparisons, NEW b \in Guard!Comparisons, c.args = <<a, b>>,
             c.op \in {"and", "function"}
      PROVE  Guard!Branches[c] = {{a, b}}
  <2>1. Guard!Branches[c] = {x \cup y : x \in Guard!Branches[a], y \in Guard!Branches[b]}
    <3>1. c.args[1] = a /\ c.args[2] = b
      BY <1>8
    <3>2. Guard!Branches[c] = Value(Guard!Branches, c)
      <4> HIDE DEF Value
      <4> QED BY <1>5
    <3> QED BY <1>8, <3>1, <3>2 DEF Guard!Alternatives
  <2>2. Guard!Branches[a] = {{a}} /\ Guard!Branches[b] = {{b}}
    BY <1>6
  <2>3. {a} \cup {b} = {a, b}
    OBVIOUS
  <2> QED BY <2>1, <2>2, <2>3
<1>9. ASSUME NEW a \in Guard!Comparisons, c.args = <<a>>, c.op = "not"
      PROVE  Guard!Branches[c] = {{a}}
  <2>1. Guard!Branches[c] = Guard!Branches[a]
    <3>1. c.args[1] = a
      BY <1>9
    <3>2. Guard!Branches[c] = Value(Guard!Branches, c)
      <4> HIDE DEF Value
      <4> QED BY <1>5
    <3> QED BY <1>9, <3>1, <3>2 DEF Guard!Alternatives
  <2> QED BY <1>6, <2>1
<1> QED BY <1>6, <1>7, <1>8, <1>9

(* The recursive check is what holds in every branch.                      *)
LEMMA LinksInEveryBranch ==
    ASSUME NEW c \in Guard!Conditions
    PROVE  /\ Guard!ConditionLinks[c] <=>
                  \A branch \in Guard!Branches[c] : \E d \in branch : Guard!ComparisonLinks(d)
           /\ \A branch \in Guard!Branches[c] : branch \subseteq Guard!Comparisons
<1>0. ASSUME NEW a \in Guard!Comparisons PROVE Guard!ConditionLinks[a] <=> Guard!ComparisonLinks(a)
  BY ComparisonShape, LinksAre
<1>1. CASE c \in Guard!Comparisons
  <2>1. Guard!Branches[c] = {{c}}
    BY <1>1, BranchesAre
  <2>2. Guard!ConditionLinks[c] <=> Guard!ComparisonLinks(c)
    BY <1>0, <1>1
  <2> QED BY <1>1, <2>1, <2>2
<1>2. ASSUME NEW a \in Guard!Comparisons, c.args = <<a>>, c.op = "not"
      PROVE  /\ Guard!Branches[c] = {{a}}
             /\ Guard!ConditionLinks[c] <=> Guard!ComparisonLinks(a)
  <2>1. Guard!Branches[c] = {{a}}
    BY <1>2, BranchesAre
  <2>2. Guard!ConditionLinks[c] <=> \E i \in DOMAIN c.args : Guard!ConditionLinks[c.args[i]]
    BY <1>2, LinksAre DEF Guard!Alternatives
  <2>3. DOMAIN c.args = {1} /\ c.args[1] = a
    BY <1>2
  <2> QED BY <1>0, <2>1, <2>2, <2>3
<1>3. ASSUME NEW a \in Guard!Comparisons, NEW b \in Guard!Comparisons, c.args = <<a, b>>,
             c.op \in Guard!Alternatives
      PROVE  /\ Guard!Branches[c] = {{a}, {b}}
             /\ Guard!ConditionLinks[c] <=> Guard!ComparisonLinks(a) /\ Guard!ComparisonLinks(b)
  <2>1. Guard!Branches[c] = {{a}, {b}}
    BY <1>3, BranchesAre
  <2>2. Guard!ConditionLinks[c] <=> \A i \in DOMAIN c.args : Guard!ConditionLinks[c.args[i]]
    BY <1>3, LinksAre
  <2>3. DOMAIN c.args = {1, 2} /\ c.args[1] = a /\ c.args[2] = b
    BY <1>3
  <2> QED BY <1>0, <2>1, <2>2, <2>3
<1>4. ASSUME NEW a \in Guard!Comparisons, NEW b \in Guard!Comparisons, c.args = <<a, b>>,
             c.op \in {"and", "function"}
      PROVE  /\ Guard!Branches[c] = {{a, b}}
             /\ Guard!ConditionLinks[c] <=> Guard!ComparisonLinks(a) \/ Guard!ComparisonLinks(b)
  <2>1. Guard!Branches[c] = {{a, b}}
    BY <1>4, BranchesAre
  <2>2. Guard!ConditionLinks[c] <=> \E i \in DOMAIN c.args : Guard!ConditionLinks[c.args[i]]
    BY <1>4, LinksAre DEF Guard!Alternatives
  <2>3. DOMAIN c.args = {1, 2} /\ c.args[1] = a /\ c.args[2] = b
    BY <1>4
  <2> QED BY <1>0, <2>1, <2>2, <2>3
<1>5. \/ c \in Guard!Comparisons
      \/ c.op = "not" /\ \E a \in Guard!Comparisons : c.args = <<a>>
      \/ c.op \in Guard!Alternatives /\ \E a, b \in Guard!Comparisons : c.args = <<a, b>>
      \/ c.op \in {"and", "function"} /\ \E a, b \in Guard!Comparisons : c.args = <<a, b>>
  BY ConditionShapes DEF Guard!Alternatives
<1>6. CASE c.op = "not" /\ \E a \in Guard!Comparisons : c.args = <<a>>
  <2>1. PICK a \in Guard!Comparisons : c.args = <<a>>
    BY <1>6
  <2>2. Guard!Branches[c] = {{a}} /\ (Guard!ConditionLinks[c] <=> Guard!ComparisonLinks(a))
    BY <1>2, <1>6, <2>1
  <2> QED BY <2>2
<1>7. CASE c.op \in Guard!Alternatives /\ \E a, b \in Guard!Comparisons : c.args = <<a, b>>
  <2>1. PICK a \in Guard!Comparisons, b \in Guard!Comparisons : c.args = <<a, b>>
    BY <1>7
  <2>2. /\ Guard!Branches[c] = {{a}, {b}}
        /\ Guard!ConditionLinks[c] <=> Guard!ComparisonLinks(a) /\ Guard!ComparisonLinks(b)
    BY <1>3, <1>7, <2>1
  <2> QED BY <2>2
<1>8. CASE c.op \in {"and", "function"} /\ \E a, b \in Guard!Comparisons : c.args = <<a, b>>
  <2>1. PICK a \in Guard!Comparisons, b \in Guard!Comparisons : c.args = <<a, b>>
    BY <1>8
  <2>2. /\ Guard!Branches[c] = {{a, b}}
        /\ Guard!ConditionLinks[c] <=> Guard!ComparisonLinks(a) \/ Guard!ComparisonLinks(b)
    BY <1>4, <1>8, <2>1
  <2> QED BY <2>2
<1> QED BY <1>1, <1>5, <1>6, <1>7, <1>8

-----------------------------------------------------------------------------
(* A comparison that links a joined source to those that stand before it.  *)
LinksAt(d, i) ==
    \/ d.sides[1] = {i + 1} /\ d.sides[2] # {} /\ d.sides[2] \subseteq 1 .. i
    \/ d.sides[2] = {i + 1} /\ d.sides[1] # {} /\ d.sides[1] \subseteq 1 .. i

LEMMA LinksAtTheEnd ==
    ASSUME Guard!TypeOK, left = 1 .. Len(joins) + 1, NEW d \in Guard!Comparisons
    PROVE  Guard!ComparisonLinks(d) <=> LinksAt(d, Len(joins) + 1)
<1> DEFINE n == Len(joins) + 1
           a == d.sides[1]
           b == d.sides[2]
<1>1. n \in Nat /\ Guard!Right = n + 1 /\ left = 1 .. n /\ Guard!Right \notin left
  BY DEF Guard!TypeOK, Guard!Right
<1>2. /\ Guard!Side(a) = "left" <=> a # {} /\ a \subseteq 1 .. n
      /\ Guard!Side(a) = "right" <=> a = {n + 1}
      /\ Guard!Side(b) = "left" <=> b # {} /\ b \subseteq 1 .. n
      /\ Guard!Side(b) = "right" <=> b = {n + 1}
  BY <1>1 DEF Guard!Side
<1> HIDE DEF n, a, b
<1> QED BY <1>2 DEF Guard!ComparisonLinks, LinksAt, n, a, b

LEMMA RelatedIs ==
    ASSUME NEW d \in Guard!Comparisons, NEW i \in Nat
    PROVE  LinksAt(d, i) <=> Guard!Related({d}, i + 1) # {} /\ Guard!Related({d}, i + 1) \subseteq 1 .. i
<1> DEFINE a == d.sides[1]
           b == d.sides[2]
           other == CASE a = {i + 1} /\ b # {} /\ i + 1 \notin b -> b
                      [] b = {i + 1} /\ a # {} /\ i + 1 \notin a -> a
                      [] OTHER -> {}
<1>1. Guard!Related({d}, i + 1) = other
  BY DEF Guard!Related
<1>2. i + 1 \notin 1 .. i
  OBVIOUS
<1> QED BY <1>1, <1>2 DEF LinksAt

LEMMA RelatedInBranch ==
    ASSUME NEW branch, NEW d \in branch, NEW i \in Nat
    PROVE  Guard!Related({d}, i + 1) \subseteq Guard!Related(branch, i + 1)
BY DEF Guard!Related

(* A join that a valid query may have.                                     *)
Sound(c, i) ==
    \/ c.op = "using"
    \/ /\ c \in Guard!Conditions
       /\ \A branch \in Guard!Branches[c] : \E d \in branch : LinksAt(d, i)

GuardInv ==
    /\ Guard!TypeOK /\ left = 1 .. Len(joins) + 1
    /\ flaws = {} => (issues = {} <=> \A i \in DOMAIN joins : Sound(joins[i], i))
    /\ verdict = "none" /\ joins = <<>> => issues = {}
    /\ verdict = "valid" /\ kind = "business" => flaws = {} /\ issues = {}
    /\ verdict = "rejected" /\ flaws = {} => issues # {}

LEMMA OpsOfConditions ==
    ASSUME NEW c \in Guard!Conditions
    PROVE  c.op \in {"compare", "not", "function", "and", "or", "xor"}
BY ConditionShapes, ComparisonShape

LEMMA IssuesAreUnsound ==
    ASSUME Guard!TypeOK, left = 1 .. Len(joins) + 1,
           NEW c \in Guard!Conditions \cup {Guard!NoCondition, Guard!Cross, Guard!Using}
    PROVE  /\ Guard!JoinIssues(c) = {} <=> Sound(c, Len(joins) + 1)
           /\ Guard!JoinIssues(c) \subseteq Guard!Issues
<1>1. CASE c \in Guard!Conditions
  <2>1. Guard!ConditionLinks[c] <=>
            \A branch \in Guard!Branches[c] : \E d \in branch : LinksAt(d, Len(joins) + 1)
    BY <1>1, LinksInEveryBranch, LinksAtTheEnd
  <2>2. Guard!JoinIssues(c) = IF Guard!ConditionLinks[c] THEN {} ELSE {"invalid_join_condition"}
    BY <1>1, OpsOfConditions DEF Guard!JoinIssues
  <2>3. c.op # "using"
    BY <1>1, OpsOfConditions
  <2> QED BY <1>1, <2>1, <2>2, <2>3 DEF Sound, Guard!Issues
<1>2. CASE c \in {Guard!NoCondition, Guard!Cross}
  <2>1. c.op \in {"none", "cross"}
    BY <1>2 DEF Guard!NoCondition, Guard!Cross
  <2>2. c \notin Guard!Conditions
    BY <2>1, OpsOfConditions
  <2> QED BY <2>1, <2>2 DEF Sound, Guard!JoinIssues, Guard!Issues
<1>3. CASE c = Guard!Using
  BY <1>3 DEF Guard!Using, Sound, Guard!JoinIssues, Guard!Issues
<1> QED BY <1>1, <1>2, <1>3

LEMMA GuardInit == Guard!Init => GuardInv
<1> SUFFICES ASSUME Guard!Init PROVE GuardInv
  OBVIOUS
<1>1. joins = <<>> /\ Len(joins) = 0 /\ DOMAIN joins = {}
  BY DEF Guard!Init
<1>2. left = 1 .. Len(joins) + 1 /\ 1 \in Guard!Sources
  BY <1>1, AnswersAssumption DEF Guard!Init, Guard!Sources, Guard!GuardAssumption
<1>3. Guard!TypeOK
  BY <1>1, <1>2, AnswersAssumption DEF Guard!Init, Guard!TypeOK, Guard!GuardAssumption
<1> QED BY <1>1, <1>2, <1>3 DEF Guard!Init, GuardInv

LEMMA GuardStep == GuardInv /\ [Guard!Next]_(Guard!guardVars) => GuardInv'
<1> SUFFICES ASSUME GuardInv, [Guard!Next]_(Guard!guardVars) PROVE GuardInv'
  OBVIOUS
<1>0. Guard!TypeOK
  BY DEF GuardInv
<1>1. CASE UNCHANGED Guard!guardVars
  BY <1>1 DEF Guard!guardVars, GuardInv, Guard!TypeOK
<1>2. CASE Guard!ChecksStatement
  <2>1. joins = <<>> /\ UNCHANGED <<kind, flaws, left, joins>> /\ issues = {}
    BY <1>2 DEF Guard!ChecksStatement, GuardInv
  <2>2. Guard!TypeOK'
    BY <1>0, <1>2, <2>1 DEF Guard!ChecksStatement, Guard!TypeOK, Guard!Issues
  <2> QED BY <1>2, <2>1, <2>2 DEF Guard!ChecksStatement, GuardInv
<1>3. ASSUME NEW c \in Guard!Conditions \cup {Guard!NoCondition, Guard!Cross, Guard!Using},
             Guard!ChecksJoin(c)
      PROVE  GuardInv'
  <2>1. /\ verdict = "none" /\ kind = "business" /\ flaws = {}
        /\ joins' = Append(joins, c) /\ left' = left \cup {Guard!Right} /\ Guard!Right \in Guard!Sources
        /\ issues' = issues \cup Guard!JoinIssues(c)
        /\ UNCHANGED <<kind, flaws, verdict>>
    BY <1>3 DEF Guard!ChecksJoin
  <2>2. /\ Len(joins) \in Nat /\ Len(joins') = Len(joins) + 1
        /\ joins' \in Seq(Guard!Conditions \cup {Guard!NoCondition, Guard!Cross, Guard!Using})
        /\ DOMAIN joins = 1 .. Len(joins)
        /\ DOMAIN joins' = DOMAIN joins \cup {Len(joins) + 1} /\ joins'[Len(joins) + 1] = c
        /\ \A i \in DOMAIN joins : joins'[i] = joins[i]
    <3>1. joins \in Seq(Guard!Conditions \cup {Guard!NoCondition, Guard!Cross, Guard!Using})
      BY <1>0 DEF Guard!TypeOK
    <3> QED BY <2>1, <3>1
  <2>3. left' = 1 .. Len(joins') + 1
    BY <2>1, <2>2 DEF GuardInv, Guard!Right
  <2>4. Len(joins') <= MaxJoins
    BY <2>1, <2>2, AnswersAssumption DEF Guard!Right, Guard!Sources, Guard!GuardAssumption
  <2>5. Guard!JoinIssues(c) = {} <=> Sound(c, Len(joins) + 1)
    BY <1>0, IssuesAreUnsound DEF GuardInv
  <2>6. issues' \subseteq Guard!Issues
    BY <1>0, <2>1, IssuesAreUnsound DEF GuardInv, Guard!TypeOK
  <2>7. Guard!TypeOK'
    BY <1>0, <2>1, <2>2, <2>4, <2>6 DEF Guard!TypeOK
  <2>8. issues' = {} <=> \A i \in DOMAIN joins' : Sound(joins'[i], i)
    BY <2>1, <2>2, <2>5 DEF GuardInv
  <2>9. joins' # <<>>
    BY <2>2
  <2> QED BY <2>1, <2>3, <2>7, <2>8, <2>9 DEF GuardInv
<1>4. CASE Guard!Concludes
  <2>1. Guard!TypeOK'
    BY <1>0, <1>4 DEF Guard!Concludes, Guard!TypeOK
  <2> QED BY <1>4, <2>1 DEF Guard!Concludes, GuardInv
<1> QED BY <1>1, <1>2, <1>3, <1>4 DEF Guard!Next

LEMMA GuardSafe == GuardInv => Guard!JoinsAreChecked
<1> SUFFICES ASSUME GuardInv PROVE Guard!JoinsAreChecked
  OBVIOUS
<1>0. /\ Guard!TypeOK
      /\ \A i \in DOMAIN joins :
            /\ i \in Nat
            /\ joins[i] \in Guard!Conditions \cup {Guard!NoCondition, Guard!Cross, Guard!Using}
  <2>1. joins \in Seq(Guard!Conditions \cup {Guard!NoCondition, Guard!Cross, Guard!Using})
    BY DEF GuardInv, Guard!TypeOK
  <2> QED BY <2>1 DEF GuardInv
<1>1. Guard!SourcesAreConnected
  <2> SUFFICES ASSUME verdict = "valid", kind = "business", NEW i \in DOMAIN joins,
                      joins[i].op # "using"
               PROVE  /\ joins[i].op \notin {"cross", "none"}
                      /\ \A branch \in Guard!Branches[joins[i]] : Guard!Related(branch, i + 1) \cap (1 .. i) # {}
    BY DEF Guard!SourcesAreConnected
  <2>1. /\ joins[i] \in Guard!Conditions
        /\ \A branch \in Guard!Branches[joins[i]] : \E d \in branch : LinksAt(d, i)
    BY DEF GuardInv, Sound
  <2>2. ASSUME NEW branch \in Guard!Branches[joins[i]]
        PROVE  Guard!Related(branch, i + 1) \cap (1 .. i) # {}
    <3>1. PICK d \in branch : LinksAt(d, i)
      BY <2>1, <2>2
    <3>2. d \in Guard!Comparisons
      BY <2>1, <2>2, LinksInEveryBranch
    <3>3. Guard!Related({d}, i + 1) # {} /\ Guard!Related({d}, i + 1) \subseteq 1 .. i
      BY <1>0, <3>1, <3>2, RelatedIs
    <3> QED BY <1>0, <3>3, RelatedInBranch
  <2> QED BY <2>1, <2>2, OpsOfConditions
<1>2. Guard!ConnectedIsAccepted
  <2> SUFFICES ASSUME verdict = "rejected", flaws = {}
               PROVE  \E i \in DOMAIN joins :
                         \/ joins[i].op \in {"cross", "none"}
                         \/ /\ joins[i].op # "using"
                            /\ \E branch \in Guard!Branches[joins[i]] :
                                  \A c \in branch : ~ (Guard!Related({c}, i + 1) # {}
                                                       /\ Guard!Related({c}, i + 1) \subseteq 1 .. i)
    BY DEF Guard!ConnectedIsAccepted
  <2>1. PICK i \in DOMAIN joins : ~Sound(joins[i], i)
    BY DEF GuardInv
  <2>2. CASE joins[i] \in Guard!Conditions
    <3>1. PICK branch \in Guard!Branches[joins[i]] : \A d \in branch : ~LinksAt(d, i)
      BY <2>1, <2>2 DEF Sound
    <3>2. branch \subseteq Guard!Comparisons
      BY <2>2, LinksInEveryBranch
    <3>3. joins[i].op # "using"
      BY <2>2, OpsOfConditions
    <3> QED BY <1>0, <3>1, <3>2, <3>3, RelatedIs
  <2>3. CASE joins[i] \in {Guard!NoCondition, Guard!Cross}
    BY <2>3 DEF Guard!NoCondition, Guard!Cross
  <2>4. joins[i] # Guard!Using
    BY <2>1 DEF Sound, Guard!Using
  <2> QED BY <1>0, <2>2, <2>3, <2>4
<1> QED BY <1>1, <1>2 DEF Guard!JoinsAreChecked

-----------------------------------------------------------------------------
(* Reading a result.                                                       *)

LEMMA ResultsCardinality == \A S : Results!Cardinality(S) = Cardinality(S)
BY DEF Results!Cardinality, Cardinality

CellTypes == {"integer", "decimal", "string", "date", "datetime"}

(* The sample is what fits of the beginning of the rows.                   *)
Sampled == IF SampleRows < Len(rows) THEN SampleRows ELSE Len(rows)
IsLeast(x, S) == IF S = {} THEN x = 0 ELSE x \in S /\ \A y \in S : x <= y
IsGreatest(x, S) == IF S = {} THEN x = 0 ELSE x \in S /\ \A y \in S : y <= x

ResultInv ==
    /\ Results!TypeOK
    /\ written = rows /\ count = Len(rows)
    /\ inferred = Results!TypeOfSet(Results!Types)
    /\ nullable <=> Results!Null \in Results!Seen
    /\ IsLeast(start, Results!Stamps) /\ IsGreatest(end, Results!Stamps)
    /\ sample = SubSeq(rows, 1, Sampled)
    /\ stored.stored <=> phase = "done"
    /\ phase = "done" => stored.rows = rows

(* The values are of five types; only dates and times have a place.        *)
LEMMA ValueFields ==
    ASSUME NEW v \in Results!Values
    PROVE  /\ v.at \in Nat /\ v.type \in CellTypes \cup {"null"}
           /\ v.type = "null" <=> v = Results!Null
           /\ v.type \in Results!Dates => v.at # 0
<1> USE DEF Results!Values, Results!Null, Results!Numbers, Results!Dates, CellTypes
<1>1. CASE v = [type |-> "null", at |-> 0]
  BY <1>1
<1>2. CASE v \in [type : {"integer", "decimal"} \cup {"string"}, at : {0}]
  BY <1>2
<1>3. CASE v \in [type : {"date"}, at : {2, 4}]
  BY <1>3
<1>4. CASE v \in [type : {"datetime"}, at : {3, 5}]
  BY <1>4
<1> QED BY <1>1, <1>2, <1>3, <1>4

(* The type of a set of types, case by case.                               *)
LEMMA OneType == ASSUME NEW T \in SUBSET CellTypes PROVE Cardinality(T) = 1 <=> \E t : T = {t}
<1>1. IsFiniteSet(CellTypes)
  <2>1. IsFiniteSet({} \cup {"integer"})
    BY FS_EmptySet, FS_AddElement
  <2>2. IsFiniteSet({} \cup {"integer"} \cup {"decimal"})
    BY <2>1, FS_AddElement
  <2>3. IsFiniteSet({} \cup {"integer"} \cup {"decimal"} \cup {"string"})
    BY <2>2, FS_AddElement
  <2>4. IsFiniteSet({} \cup {"integer"} \cup {"decimal"} \cup {"string"} \cup {"date"})
    BY <2>3, FS_AddElement
  <2>5. IsFiniteSet({} \cup {"integer"} \cup {"decimal"} \cup {"string"} \cup {"date"} \cup {"datetime"})
    BY <2>4, FS_AddElement
  <2>6. CellTypes = {} \cup {"integer"} \cup {"decimal"} \cup {"string"} \cup {"date"} \cup {"datetime"}
    BY DEF CellTypes
  <2> QED BY <2>5, <2>6
<1>2. IsFiniteSet(T)
  BY <1>1, FS_Subset
<1> QED BY <1>2, FS_Singleton

LEMMA TypeOfSetIs ==
    ASSUME NEW T \in SUBSET CellTypes
    PROVE  /\ T = {} => Results!TypeOfSet(T) = "none"
           /\ \A t : T = {t} => Results!TypeOfSet(T) = t
           /\ \A x, y \in T : x # y =>
                  Results!TypeOfSet(T) = IF T \subseteq Results!Numbers THEN "number"
                                 ELSE IF T \subseteq Results!Dates THEN "datetime" ELSE "mixed"
<1>1. T = {} => Results!TypeOfSet(T) = "none"
  BY DEF Results!TypeOfSet
<1>2. ASSUME NEW t, T = {t} PROVE Results!TypeOfSet(T) = t
  <2>1. Cardinality(T) = 1 /\ T # {}
    BY <1>2, OneType
  <2>2. (CHOOSE u \in T : TRUE) = t
    BY <1>2
  <2> QED BY <2>1, <2>2, ResultsCardinality DEF Results!TypeOfSet
<1>3. ASSUME NEW x \in T, NEW y \in T, x # y
      PROVE  Results!TypeOfSet(T) = IF T \subseteq Results!Numbers THEN "number"
                            ELSE IF T \subseteq Results!Dates THEN "datetime" ELSE "mixed"
  <2>1. Cardinality(T) # 1 /\ T # {}
    BY <1>3, OneType
  <2> QED BY <2>1, ResultsCardinality DEF Results!TypeOfSet
<1> QED BY <1>1, <1>2, <1>3

(* Merging a type into that of a set is the type of the larger set.        *)
LEMMA MergedIsTypeOfSet ==
    ASSUME NEW T \in SUBSET CellTypes, NEW t \in CellTypes
    PROVE  Results!Merged(Results!TypeOfSet(T), t) = Results!TypeOfSet(T \cup {t})
<1> DEFINE larger == T \cup {t}
<1>1. larger \in SUBSET CellTypes
  OBVIOUS
<1>2. CASE T = {}
  <2>1. Results!TypeOfSet(T) = "none" /\ larger = {t}
    BY <1>2, TypeOfSetIs
  <2>2. Results!TypeOfSet(larger) = t
    BY <1>1, <2>1, TypeOfSetIs
  <2> QED BY <2>1, <2>2 DEF Results!Merged
<1>3. ASSUME NEW x \in T, T = {x}
      PROVE  Results!Merged(Results!TypeOfSet(T), t) = Results!TypeOfSet(larger)
  <2>1. Results!TypeOfSet(T) = x
    BY <1>3, TypeOfSetIs
  <2>2. CASE x = t
    <3>1. larger = {t}
      BY <1>3, <2>2
    <3>2. Results!TypeOfSet(larger) = t
      BY <1>1, <3>1, TypeOfSetIs
    <3> QED BY <2>1, <2>2, <3>2 DEF Results!Merged
  <2>3. CASE x # t
    <3>1. Results!TypeOfSet(larger) = IF larger \subseteq Results!Numbers THEN "number"
                              ELSE IF larger \subseteq Results!Dates THEN "datetime" ELSE "mixed"
      BY <1>1, <2>3, TypeOfSetIs
    <3>2. larger = {x, t} /\ x \in CellTypes
      BY <1>3
    <3> HIDE DEF larger
    <3> QED BY <2>1, <2>3, <3>1, <3>2 DEF Results!Merged, CellTypes, Results!Numbers, Results!Dates
  <2> QED BY <2>2, <2>3
<1>4. ASSUME NEW x \in T, NEW y \in T, x # y
      PROVE  Results!Merged(Results!TypeOfSet(T), t) = Results!TypeOfSet(larger)
  <2>1. Results!TypeOfSet(T) = IF T \subseteq Results!Numbers THEN "number"
                       ELSE IF T \subseteq Results!Dates THEN "datetime" ELSE "mixed"
    BY <1>4, TypeOfSetIs
  <2>2. Results!TypeOfSet(larger) = IF larger \subseteq Results!Numbers THEN "number"
                            ELSE IF larger \subseteq Results!Dates THEN "datetime" ELSE "mixed"
    <3>1. x \in larger /\ y \in larger
      OBVIOUS
    <3> HIDE DEF larger
    <3> QED BY <1>1, <1>4, <3>1, TypeOfSetIs
  <2>3. T # {} /\ ~(T \subseteq Results!Numbers /\ T \subseteq Results!Dates)
    BY <1>4 DEF Results!Numbers, Results!Dates
  <2>4. CASE T \subseteq Results!Numbers
    BY <2>1, <2>2, <2>3, <2>4, t \in CellTypes DEF Results!Merged, Results!Numbers, Results!Dates,
       CellTypes
  <2>5. CASE T \subseteq Results!Dates
    BY <2>1, <2>2, <2>3, <2>5, t \in CellTypes DEF Results!Merged, Results!Numbers, Results!Dates,
       CellTypes
  <2>6. CASE ~(T \subseteq Results!Numbers) /\ ~(T \subseteq Results!Dates)
    BY <2>1, <2>2, <2>6, t \in CellTypes DEF Results!Merged, Results!Numbers, Results!Dates, CellTypes
  <2> QED BY <2>4, <2>5, <2>6
<1> QED
  <2>1. CASE T # {} /\ \A x, y \in T : x = y
    <3>1. PICK x \in T : T = {x}
      BY <2>1
    <3> QED BY <1>3, <3>1
  <2> QED BY <1>2, <1>4, <2>1

-----------------------------------------------------------------------------
(* What a row adds to the values that were seen.                           *)
LEMMA OneRowMore ==
    ASSUME NEW v \in Results!Values, rows \in Seq(Results!Values), rows' = Append(rows, v)
    PROVE  /\ Results!Seen' = Results!Seen \cup {v}
           /\ Results!Types' = Results!Types \cup (IF v = Results!Null THEN {} ELSE {v.type})
           /\ Results!Stamps' = Results!Stamps \cup (IF v.type \in Results!Dates THEN {v.at} ELSE {})
<1>1. Len(rows) \in Nat /\ rows \in [1 .. Len(rows) -> Results!Values]
  OBVIOUS
<1>2. /\ DOMAIN rows' = 1 .. Len(rows) + 1 /\ rows'[Len(rows) + 1] = v
      /\ \A i \in 1 .. Len(rows) : rows'[i] = rows[i]
  OBVIOUS
<1>3. Results!Seen' = Results!Seen \cup {v}
  <2>1. ASSUME NEW w \in Results!Seen' PROVE w \in Results!Seen \cup {v}
    <3>1. PICK i \in DOMAIN rows' : rows'[i] = w
      BY <2>1 DEF Results!Seen
    <3>2. CASE i = Len(rows) + 1
      BY <1>2, <3>1, <3>2
    <3>3. CASE i # Len(rows) + 1
      <4>1. i \in DOMAIN rows
        BY <1>1, <1>2, <3>3
      <4> QED BY <1>1, <1>2, <3>1, <4>1 DEF Results!Seen
    <3> QED BY <3>2, <3>3
  <2>2. ASSUME NEW w \in Results!Seen PROVE w \in Results!Seen'
    <3>1. PICK i \in DOMAIN rows : rows[i] = w
      BY DEF Results!Seen
    <3>2. i \in DOMAIN rows' /\ rows'[i] = w
      BY <1>1, <1>2, <3>1
    <3> QED BY <3>2 DEF Results!Seen
  <2>3. v \in Results!Seen'
    <3>1. Len(rows) + 1 \in DOMAIN rows'
      BY <1>1, <1>2
    <3> QED BY <1>2, <3>1 DEF Results!Seen
  <2> QED BY <2>1, <2>2, <2>3
<1>4. Results!Types' = Results!Types \cup (IF v = Results!Null THEN {} ELSE {v.type})
  BY <1>3 DEF Results!Types
<1>5. Results!Stamps' = Results!Stamps \cup (IF v.type \in Results!Dates THEN {v.at} ELSE {})
  BY <1>3 DEF Results!Stamps
<1> QED BY <1>3, <1>4, <1>5

LEMMA SeenAreValues ==
    ASSUME rows \in Seq(Results!Values)
    PROVE  /\ Results!Seen \subseteq Results!Values /\ Results!Types \in SUBSET CellTypes
           /\ Results!Stamps \subseteq Nat \ {0}
<1>1. Results!Seen \subseteq Results!Values
  BY DEF Results!Seen
<1>2. Results!Types \in SUBSET CellTypes
  BY <1>1, ValueFields DEF Results!Types
<1>3. Results!Stamps \subseteq Nat \ {0}
  BY <1>1, ValueFields DEF Results!Stamps
<1> QED BY <1>1, <1>2, <1>3

LEMMA ResultInit == Results!Init => ResultInv
<1> SUFFICES ASSUME Results!Init PROVE ResultInv
  OBVIOUS
<1>1. Results!Seen = {} /\ Results!Types = {} /\ Results!Stamps = {}
  <2>1. DOMAIN rows = {}
    BY DEF Results!Init
  <2>2. Results!Seen = {}
    BY <2>1 DEF Results!Seen
  <2> QED BY <2>2 DEF Results!Types, Results!Stamps
<1>2. Results!TypeOK
  <2>1. <<>> \in Seq(Results!Values) /\ 0 \in Results!Places
    BY DEF Results!Places
  <2>2. stored.stored = FALSE /\ stored.rows = <<>>
    BY DEF Results!Init, Results!NoArtifact
  <2>3. count \in 0 .. MaxRows
    BY AnswersAssumption DEF Results!Init, Results!ResultsAssumption
  <2>4. /\ phase = "connecting" /\ inferred = "none" /\ nullable \in BOOLEAN
        /\ start \in Results!Places /\ end \in Results!Places
        /\ rows \in Seq(Results!Values) /\ sample \in Seq(Results!Values) /\ written \in Seq(Results!Values)
    BY <2>1 DEF Results!Init
  <2> QED BY <2>1, <2>2, <2>3, <2>4 DEF Results!TypeOK
<1>3. inferred = Results!TypeOfSet(Results!Types) /\ (nullable <=> Results!Null \in Results!Seen)
  BY <1>1 DEF Results!Init, Results!TypeOfSet
<1>4. IsLeast(start, Results!Stamps) /\ IsGreatest(end, Results!Stamps)
  BY <1>1 DEF Results!Init, IsLeast, IsGreatest
<1>5. sample = SubSeq(rows, 1, Sampled)
  BY AnswersAssumption DEF Results!Init, Sampled, Results!ResultsAssumption
<1>6. /\ written = rows /\ count = Len(rows)
      /\ stored.stored <=> phase = "done"
      /\ phase = "done" => stored.rows = rows
  BY DEF Results!Init, Results!NoArtifact
<1> QED BY <1>2, <1>3, <1>4, <1>5, <1>6 DEF ResultInv

LEMMA ResultStep == ResultInv /\ [Results!Next]_(Results!resultVars) => ResultInv'
<1> SUFFICES ASSUME ResultInv, [Results!Next]_(Results!resultVars) PROVE ResultInv'
  OBVIOUS
<1> USE AnswersAssumption DEF Results!ResultsAssumption
<1>0. Results!TypeOK
  BY DEF ResultInv
<1>1. CASE /\ UNCHANGED <<inferred, nullable, start, end, sample, count, written, rows>>
           /\ phase' \in {"connecting", "batch", "reading", "summed", "done", "failed"}
           /\ \/ stored' = [stored |-> TRUE, rows |-> written] /\ phase' = "done"
              \/ stored' = stored /\ (phase' = "done" <=> phase = "done")
  <2>1. /\ stored'.stored \in BOOLEAN /\ stored'.rows \in Seq(Results!Values)
        /\ stored'.stored <=> phase' = "done"
        /\ phase' = "done" => stored'.rows = rows
    <3>1. CASE stored' = stored /\ (phase' = "done" <=> phase = "done")
      BY <1>0, <3>1 DEF ResultInv, Results!TypeOK
    <3>2. CASE stored' = [stored |-> TRUE, rows |-> written] /\ phase' = "done"
      BY <1>0, <3>2 DEF ResultInv, Results!TypeOK
    <3> QED BY <1>1, <3>1, <3>2
  <2>3. Results!TypeOK'
    BY <1>0, <1>1, <2>1 DEF Results!TypeOK
  <2>2. /\ Results!Seen' = Results!Seen /\ Results!Types' = Results!Types
        /\ Results!Stamps' = Results!Stamps /\ Sampled' = Sampled
    BY <1>1 DEF Results!Seen, Results!Types, Results!Stamps, Sampled
  <2> QED BY <1>1, <2>1, <2>2, <2>3 DEF ResultInv
<1>2. ASSUME NEW v \in Results!Values, Results!ReadsRow(v) PROVE ResultInv'
  <2>1. /\ Len(rows) \in Nat /\ rows \in Seq(Results!Values)
        /\ rows' = Append(rows, v) /\ written' = rows' /\ count' = count + 1
    BY <1>0, <1>2 DEF Results!ReadsRow, Results!TypeOK, ResultInv
  <2>2. /\ Results!Seen' = Results!Seen \cup {v}
        /\ Results!Types' = Results!Types \cup (IF v = Results!Null THEN {} ELSE {v.type})
        /\ Results!Stamps' = Results!Stamps \cup (IF v.type \in Results!Dates THEN {v.at} ELSE {})
    BY <2>1, OneRowMore
  <2>3. /\ Results!Seen \subseteq Results!Values /\ Results!Types \in SUBSET CellTypes
        /\ Results!Stamps \subseteq Nat \ {0}
    BY <2>1, SeenAreValues
  <2>4. /\ v.at \in Nat /\ v.type \in CellTypes \cup {"null"}
        /\ v.type = "null" <=> v = Results!Null
        /\ v.type \in Results!Dates => v.at # 0
    BY ValueFields
  <2>5. inferred' = Results!TypeOfSet(Results!Types')
    <3>1. CASE v = Results!Null
      BY <1>2, <2>2, <3>1 DEF Results!ReadsRow, Results!Observe, ResultInv
    <3>2. CASE v # Results!Null
      <4>1. inferred' = Results!Merged(Results!TypeOfSet(Results!Types), v.type)
        BY <1>2, <3>2 DEF Results!ReadsRow, Results!Observe, ResultInv
      <4>2. v.type \in CellTypes
        BY <2>4, <3>2
      <4> QED BY <2>2, <2>3, <3>2, <4>1, <4>2, MergedIsTypeOfSet
    <3> QED BY <3>1, <3>2
  <2>6. nullable' <=> Results!Null \in Results!Seen'
    BY <1>2, <2>2 DEF Results!ReadsRow, Results!Observe, ResultInv
  <2>7. IsLeast(start', Results!Stamps')
    <3>1. CASE v.type \in Results!Dates
      <4>1. v # Results!Null
        BY <2>4, <3>1 DEF Results!Dates
      <4>2. start' = IF start = 0 \/ v.at < start THEN v.at ELSE start
        BY <1>2, <3>1, <4>1 DEF Results!ReadsRow, Results!Observe
      <4>3. Results!Stamps' = Results!Stamps \cup {v.at}
        BY <2>2, <3>1
      <4>4. CASE Results!Stamps = {}
        <5>1. start = 0 /\ Results!Stamps' = {v.at}
          BY <4>3, <4>4 DEF ResultInv, IsLeast
        <5> QED BY <2>4, <4>2, <5>1 DEF IsLeast
      <4>5. CASE Results!Stamps # {}
        <5>1. start \in Results!Stamps /\ \A y \in Results!Stamps : start <= y
          BY <4>5 DEF ResultInv, IsLeast
        <5>2. start \in Nat /\ start # 0 /\ v.at \in Nat /\ \A y \in Results!Stamps : y \in Nat
          BY <2>3, <2>4, <5>1
        <5>3. start' \in Results!Stamps' /\ \A y \in Results!Stamps' : start' <= y
          BY <4>2, <4>3, <5>1, <5>2
        <5> QED BY <5>3 DEF IsLeast
      <4> QED BY <4>4, <4>5
    <3>2. CASE v.type \notin Results!Dates
      BY <1>2, <2>2, <3>2 DEF Results!ReadsRow, Results!Observe, ResultInv
    <3> QED BY <3>1, <3>2
  <2>8. IsGreatest(end', Results!Stamps')
    <3>1. CASE v.type \in Results!Dates
      <4>1. v # Results!Null
        BY <2>4, <3>1 DEF Results!Dates
      <4>2. end' = IF end = 0 \/ v.at > end THEN v.at ELSE end
        BY <1>2, <3>1, <4>1 DEF Results!ReadsRow, Results!Observe
      <4>3. Results!Stamps' = Results!Stamps \cup {v.at}
        BY <2>2, <3>1
      <4>4. CASE Results!Stamps = {}
        <5>1. end = 0 /\ Results!Stamps' = {v.at}
          BY <4>3, <4>4 DEF ResultInv, IsGreatest
        <5> QED BY <2>4, <4>2, <5>1 DEF IsGreatest
      <4>5. CASE Results!Stamps # {}
        <5>1. end \in Results!Stamps /\ \A y \in Results!Stamps : y <= end
          BY <4>5 DEF ResultInv, IsGreatest
        <5>2. end \in Nat /\ end # 0 /\ v.at \in Nat /\ \A y \in Results!Stamps : y \in Nat
          BY <2>3, <2>4, <5>1
        <5>3. end' \in Results!Stamps' /\ \A y \in Results!Stamps' : y <= end'
          BY <4>2, <4>3, <5>1, <5>2
        <5> QED BY <5>3 DEF IsGreatest
      <4> QED BY <4>4, <4>5
    <3>2. CASE v.type \notin Results!Dates
      BY <1>2, <2>2, <3>2 DEF Results!ReadsRow, Results!Observe, ResultInv
    <3> QED BY <3>1, <3>2
  <2>9. sample' = SubSeq(rows', 1, Sampled')
    <3>1. sample = SubSeq(rows, 1, Sampled) /\ sample' = IF Len(sample) < SampleRows
                                                       THEN Append(sample, v) ELSE sample
      BY <1>2 DEF Results!ReadsRow, ResultInv
    <3>2. CASE SampleRows <= Len(rows)
      BY <2>1, <3>1, <3>2 DEF Sampled
    <3>3. CASE Len(rows) < SampleRows
      BY <2>1, <3>1, <3>3 DEF Sampled
    <3>4. SampleRows \in Nat
      OBVIOUS
    <3>5. SampleRows <= Len(rows) \/ Len(rows) < SampleRows
      BY <2>1, <3>4
    <3> QED BY <3>2, <3>3, <3>5
  <2>10. Results!TypeOK'
    <3>1. /\ phase' = phase /\ stored' = stored /\ count < MaxRows
          /\ sample' \in {sample, Append(sample, v)} /\ written' = Append(written, v)
          /\ start' \in {start, v.at} /\ end' \in {end, v.at}
      BY <1>2 DEF Results!ReadsRow, Results!Observe
    <3>2. inferred' \in {"none", "number", "mixed", "string"} \cup Results!Numbers \cup Results!Dates
      BY <1>0, <1>2, <2>4 DEF Results!ReadsRow, Results!Observe, Results!TypeOK, Results!Merged,
         CellTypes, Results!Numbers, Results!Dates
    <3>3. count' \in 0 .. MaxRows
      BY <1>0, <2>1, <3>1 DEF Results!TypeOK
    <3>4. nullable' \in BOOLEAN
      BY <1>0, <1>2 DEF Results!ReadsRow, Results!Observe, Results!TypeOK
    <3>6. start' \in Results!Places /\ end' \in Results!Places
      BY <1>0, <3>1 DEF Results!TypeOK, Results!Places
    <3>5. rows' \in Seq(Results!Values) /\ sample' \in Seq(Results!Values) /\ written' \in Seq(Results!Values)
      <4>1. ASSUME NEW s \in Seq(Results!Values) PROVE Append(s, v) \in Seq(Results!Values)
        OBVIOUS
      <4>2. sample \in Seq(Results!Values) /\ Append(sample, v) \in Seq(Results!Values)
        BY <1>0, <4>1 DEF Results!TypeOK
      <4> QED BY <2>1, <3>1, <4>1, <4>2
    <3> QED BY <1>0, <3>1, <3>2, <3>3, <3>4, <3>5, <3>6 DEF Results!TypeOK
  <2>11. /\ count' = Len(rows') /\ phase' = phase /\ stored' = stored
         /\ phase # "done"
    BY <1>2, <2>1 DEF Results!ReadsRow, ResultInv
  <2>12. /\ stored'.stored <=> phase' = "done"
         /\ phase' = "done" => stored'.rows = rows'
    BY <2>11 DEF ResultInv
  <2> QED BY <2>1, <2>5, <2>6, <2>7, <2>8, <2>9, <2>10, <2>11, <2>12 DEF ResultInv
<1>3. CASE \/ Results!ReceivesBatch \/ Results!EndsBatch \/ Results!Exhausted
           \/ Results!StoresArtifact \/ Results!Fails \/ UNCHANGED Results!resultVars
  BY <1>0, <1>1, <1>3
     DEF Results!ReceivesBatch, Results!EndsBatch, Results!Exhausted, Results!StoresArtifact,
         Results!Fails, Results!resultVars, Results!statVars, Results!TypeOK
<1> QED BY <1>2, <1>3 DEF Results!Next

LEMMA ResultSafe == ResultInv => Results!SummariesMatchFiles
<1> SUFFICES ASSUME ResultInv PROVE Results!SummariesMatchFiles
  OBVIOUS
<1>1. rows \in Seq(Results!Values) /\ Results!Stamps \subseteq Nat \ {0}
  BY SeenAreValues DEF ResultInv, Results!TypeOK
<1>2. start = IF Results!Stamps = {} THEN 0 ELSE Results!Min(Results!Stamps)
  <2>1. CASE Results!Stamps = {}
    BY <2>1 DEF ResultInv, IsLeast
  <2>2. CASE Results!Stamps # {}
    <3>1. start \in Results!Stamps /\ \A y \in Results!Stamps : start <= y
      BY <2>2 DEF ResultInv, IsLeast
    <3>2. \A x \in Results!Stamps : (\A y \in Results!Stamps : x <= y) => x = start
      BY <1>1, <3>1
    <3>3. \A x, y \in Results!Stamps : (x >= y <=> y <= x)
      BY <1>1
    <3> QED BY <2>2, <3>1, <3>2, <3>3 DEF Results!Min
  <2> QED BY <2>1, <2>2
<1>3. end = IF Results!Stamps = {} THEN 0 ELSE Results!Max(Results!Stamps)
  <2>1. CASE Results!Stamps = {}
    BY <2>1 DEF ResultInv, IsGreatest
  <2>2. CASE Results!Stamps # {}
    <3>1. end \in Results!Stamps /\ \A y \in Results!Stamps : y <= end
      BY <2>2 DEF ResultInv, IsGreatest
    <3>2. \A x \in Results!Stamps : (\A y \in Results!Stamps : y <= x) => x = end
      BY <1>1, <3>1
    <3>3. \A x, y \in Results!Stamps : (x >= y <=> y <= x)
      BY <1>1
    <3> QED BY <2>2, <3>1, <3>2, <3>3 DEF Results!Max
  <2> QED BY <2>1, <2>2
<1>4. Sampled = Results!Min({SampleRows, Len(rows)})
  <2>1. Len(rows) \in Nat /\ SampleRows \in Nat
    BY AnswersAssumption, <1>1 DEF Results!ResultsAssumption
  <2>2. /\ Sampled \in {SampleRows, Len(rows)}
        /\ \A y \in {SampleRows, Len(rows)} : Sampled <= y
    BY <2>1 DEF Sampled
  <2>3. \A x \in {SampleRows, Len(rows)} :
            (\A y \in {SampleRows, Len(rows)} : x <= y) => x = Sampled
    BY <2>1, <2>2
  <2> QED BY <2>2, <2>3 DEF Results!Min
<1>5. Results!MayBeNull <=> Results!Null \in Results!Seen \/ rows = <<>>
  <2>1. count = Len(rows) /\ (Len(rows) = 0 <=> rows = <<>>)
    BY <1>1 DEF ResultInv
  <2> QED BY <2>1 DEF ResultInv, Results!MayBeNull
<1> QED BY <1>2, <1>3, <1>4, <1>5 DEF ResultInv, Results!SummariesMatchFiles

-----------------------------------------------------------------------------
(* Running the queries of a role.                                          *)

(* What a query knows and holds follows from how far it is.                *)
Progress(q) ==
    /\ step[q] \in {"idle", "checking", "connecting"} => pool[q] = 0
    /\ step[q] = "closing" <=> replaced[q] # 0
    /\ step[q] \notin {"idle", "ended"} => principal[q] # 0
    /\ step[q] \notin {"recording", "ended"} => outcome[q] = "none"
    /\ step[q] = "recording" => outcome[q] # "none"
    /\ step[q] # "ended" => record[q] = "none"

(* No two processes have the same pool.                                    *)
PoolsAreOwn ==
    \A p, o \in Servers : pooled[p] = pooled[o] /\ pooled[p] # 0 => p = o

ExecInv ==
    /\ Execution!TypeOK /\ \A q \in Statements : Progress(q)
    /\ PoolsAreOwn /\ Execution!RunsAsResolved /\ Execution!PoolsAreAccounted
    /\ Execution!OldPoolsAreExcused /\ Execution!RecordsAreTrue

LEMMA ExecInit == Execution!Init => ExecInv
<1> SUFFICES ASSUME Execution!Init PROVE ExecInv
  OBVIOUS
<1> USE AnswersAssumption DEF Execution!QueriesAssumption
<1>1. DOMAIN pools = {} /\ pools \in Seq(1 .. MaxGenerations)
  BY DEF Execution!Init
<1>2. Execution!TypeOK
  BY <1>1 DEF Execution!Init, Execution!TypeOK
<1>3. \A q \in Statements : Progress(q)
  BY DEF Execution!Init, Progress
<1>4. PoolsAreOwn /\ Execution!RunsAsResolved /\ Execution!OldPoolsAreExcused
  BY DEF Execution!Init, PoolsAreOwn, Execution!RunsAsResolved, Execution!OldPoolsAreExcused
<1>5. Execution!PoolsAreAccounted
  BY <1>1 DEF Execution!Init, Execution!PoolsAreAccounted, Execution!Registered, Execution!Pending
<1>6. Execution!RecordsAreTrue
  BY DEF Execution!Init, Execution!RecordsAreTrue
<1> QED BY <1>2, <1>3, <1>4, <1>5, <1>6 DEF ExecInv

LEMMA EntryOfSeq == ASSUME NEW S, NEW s \in Seq(S), NEW i \in DOMAIN s PROVE s[i] \in S
OBVIOUS

LEMMA FaultKeeps ==
    Execution!TypeOK /\ Execution!Fault => queryFaults' \in 0 .. MaxQueryFaults /\ queryFaults' # 0
BY AnswersAssumption DEF Execution!QueriesAssumption, Execution!TypeOK, Execution!Fault

(* The types.                                                              *)
LEMMA ExecTypes == ExecInv /\ [Execution!Next]_(Execution!executionVars) => Execution!TypeOK'
<1> SUFFICES ASSUME ExecInv, [Execution!Next]_(Execution!executionVars) PROVE Execution!TypeOK'
  OBVIOUS
<1> USE AnswersAssumption DEF Execution!QueriesAssumption
<1>0. Execution!TypeOK /\ \A q \in Statements : Progress(q)
  BY DEF ExecInv
<1>1. CASE UNCHANGED Execution!executionVars
  BY <1>0, <1>1 DEF Execution!executionVars, Execution!roleState, Execution!poolState,
     Execution!queryState, Execution!TypeOK
<1>2. CASE Execution!CreateRole
  BY <1>0, <1>2 DEF Execution!CreateRole, Execution!poolState, Execution!queryState,
     Execution!TypeOK
<1>3. ASSUME NEW p \in Servers, Execution!DeleteRole(p) PROVE Execution!TypeOK'
  BY <1>0, <1>3 DEF Execution!DeleteRole, Execution!poolState, Execution!queryState,
     Execution!TypeOK
<1>4. ASSUME NEW p \in Servers, Execution!Invalidate(p) PROVE Execution!TypeOK'
  BY <1>0, <1>4 DEF Execution!Invalidate, Execution!queryState, Execution!TypeOK
<1>5. ASSUME NEW p \in Servers, Execution!ClosesPopped(p) PROVE Execution!TypeOK'
  BY <1>0, <1>5, FaultKeeps DEF Execution!ClosesPopped, Execution!roleState, Execution!queryState,
     Execution!TypeOK
<1>6. ASSUME NEW q \in Statements, Execution!QueryNext(q) PROVE Execution!TypeOK'
  <2>1. CASE Execution!Resolves(q)
    <3>1. identity \in 0 .. MaxGenerations
      BY <1>0 DEF Execution!TypeOK
    <3> QED BY <1>0, <2>1, <3>1 DEF Execution!Resolves, Execution!roleState, Execution!poolState,
               Execution!Goto, Execution!TypeOK
  <2>2. CASE Execution!Checks(q)
    BY <1>0, <2>2 DEF Execution!Checks, Execution!roleState, Execution!poolState, Execution!Goto,
       Execution!TypeOK
  <2>3. CASE Execution!Reuses(q)
    BY <1>0, <2>3 DEF Execution!Reuses, Execution!roleState, Execution!poolState, Execution!Goto,
       Execution!TypeOK, Execution!Fits
  <2>4. CASE Execution!Opens(q)
    <3> DEFINE new == Len(pools) + 1
               next == IF pooled[ServerOf[q]] = 0 THEN "running" ELSE "closing"
    <3>1. /\ pools' = Append(pools, principal[q]) /\ pooled' = [pooled EXCEPT ![ServerOf[q]] = new]
          /\ pool' = [pool EXCEPT ![q] = new]
          /\ replaced' = [replaced EXCEPT ![q] = pooled[ServerOf[q]]]
          /\ excused' \subseteq excused \cup {new} /\ step' = [step EXCEPT ![q] = next]
          /\ UNCHANGED <<Execution!roleState, closed, popped, principal, outcome, record, lost, queryFaults>>
      BY <1>0, <2>4 DEF Execution!Opens, Execution!Goto
    <3>2. principal[q] \in 1 .. MaxGenerations
      <4>1. principal[q] \in 0 .. MaxGenerations /\ principal[q] # 0
        BY <1>0, <2>4 DEF Execution!Opens, Execution!TypeOK, Progress
      <4> QED BY <4>1
    <3>3. /\ pools' \in Seq(1 .. MaxGenerations) /\ new \in DOMAIN pools'
          /\ DOMAIN pools \subseteq DOMAIN pools'
      BY <1>0, <3>1, <3>2 DEF Execution!TypeOK
    <3>4. next \in {"running", "closing"}
      OBVIOUS
    <3> HIDE DEF new, next
    <3> QED BY <1>0, <3>1, <3>3, <3>4 DEF Execution!TypeOK, Execution!roleState
  <2>5. CASE Execution!ClosesStale(q)
    <3>1. replaced[q] \in DOMAIN pools
      BY <1>0, <2>5 DEF Execution!ClosesStale, Execution!TypeOK, Progress
    <3> QED BY <1>0, <2>5, <3>1, FaultKeeps DEF Execution!ClosesStale, Execution!roleState,
               Execution!Goto, Execution!TypeOK
  <2>6. CASE Execution!Streams(q)
    BY <1>0, <2>6 DEF Execution!Streams, Execution!roleState, Execution!poolState, Execution!Goto,
       Execution!TypeOK
  <2>7. CASE Execution!Records(q)
    BY <1>0, <2>7, FaultKeeps DEF Execution!Records, Execution!roleState, Execution!poolState,
       Execution!Goto, Execution!TypeOK
  <2>8. CASE Execution!Cancel(q)
    BY <1>0, <2>8, FaultKeeps DEF Execution!Cancel, Execution!roleState, Execution!poolState,
       Execution!Goto, Execution!TypeOK
  <2> QED BY <1>6, <2>1, <2>2, <2>3, <2>4, <2>5, <2>6, <2>7, <2>8 DEF Execution!QueryNext
<1> QED BY <1>1, <1>2, <1>3, <1>4, <1>5, <1>6 DEF Execution!Next

-----------------------------------------------------------------------------
(* What the step of a query leaves to the other queries.                   *)
Alone(q) ==
    \A r \in Statements \ {q} :
        /\ step'[r] = step[r] /\ principal'[r] = principal[r] /\ pool'[r] = pool[r]
        /\ replaced'[r] = replaced[r] /\ outcome'[r] = outcome[r] /\ record'[r] = record[r]

LEMMA OneMoves == \A q \in Statements : Execution!TypeOK /\ Execution!QueryNext(q) => Alone(q)
<1> SUFFICES ASSUME NEW q \in Statements, Execution!TypeOK, Execution!QueryNext(q) PROVE Alone(q)
  OBVIOUS
<1>1. CASE Execution!Resolves(q)
  BY <1>1 DEF Execution!Resolves, Execution!Goto, Execution!TypeOK, Alone
<1>2. CASE Execution!Checks(q)
  BY <1>2 DEF Execution!Checks, Execution!Goto, Execution!TypeOK, Alone
<1>3. CASE Execution!Reuses(q)
  BY <1>3 DEF Execution!Reuses, Execution!Goto, Execution!TypeOK, Alone
<1>4. CASE Execution!Opens(q)
  BY <1>4 DEF Execution!Opens, Execution!Goto, Execution!TypeOK, Alone
<1>5. CASE Execution!ClosesStale(q)
  BY <1>5 DEF Execution!ClosesStale, Execution!Goto, Execution!TypeOK, Alone
<1>6. CASE Execution!Streams(q)
  BY <1>6 DEF Execution!Streams, Execution!Goto, Execution!TypeOK, Alone
<1>7. CASE Execution!Records(q)
  BY <1>7 DEF Execution!Records, Execution!Goto, Execution!TypeOK, Alone
<1>8. CASE Execution!Cancel(q)
  BY <1>8 DEF Execution!Cancel, Execution!Goto, Execution!TypeOK, Alone
<1> QED BY <1>1, <1>2, <1>3, <1>4, <1>5, <1>6, <1>7, <1>8 DEF Execution!QueryNext

(* How far a query is, and what it has.                                    *)
LEMMA ExecProgress ==
    ExecInv /\ [Execution!Next]_(Execution!executionVars) => \A q \in Statements : Progress(q)'
<1> SUFFICES ASSUME ExecInv, [Execution!Next]_(Execution!executionVars), NEW r \in Statements
             PROVE  Progress(r)'
  OBVIOUS
<1>0. Execution!TypeOK /\ Progress(r)
  BY DEF ExecInv
<1>1. CASE UNCHANGED Execution!queryState
  BY <1>0, <1>1 DEF Execution!queryState, Progress
<1>2. ASSUME NEW q \in Statements, Execution!QueryNext(q) PROVE Progress(r)'
  <2>1. CASE q # r
    BY <1>0, <1>2, <2>1, OneMoves DEF Alone, Progress
  <2>2. CASE q = r
    <3>1. CASE Execution!Resolves(r)
      BY <1>0, <3>1 DEF Execution!Resolves, Execution!Goto, Execution!TypeOK, Progress
    <3>2. CASE Execution!Checks(r)
      BY <1>0, <3>2 DEF Execution!Checks, Execution!Goto, Execution!TypeOK, Progress
    <3>3. CASE Execution!Reuses(r)
      BY <1>0, <3>3 DEF Execution!Reuses, Execution!Goto, Execution!TypeOK, Progress
    <3>4. CASE Execution!Opens(r)
      BY <1>0, <3>4 DEF Execution!Opens, Execution!Goto, Execution!TypeOK, Progress
    <3>5. CASE Execution!ClosesStale(r)
      BY <1>0, <3>5 DEF Execution!ClosesStale, Execution!Goto, Execution!TypeOK, Progress
    <3>6. CASE Execution!Streams(r)
      BY <1>0, <3>6 DEF Execution!Streams, Execution!Goto, Execution!TypeOK, Progress
    <3>7. CASE Execution!Records(r)
      BY <1>0, <3>7 DEF Execution!Records, Execution!Goto, Execution!TypeOK, Progress
    <3>8. CASE Execution!Cancel(r)
      BY <1>0, <3>8 DEF Execution!Cancel, Execution!Goto, Execution!TypeOK, Progress
    <3> QED BY <1>2, <2>2, <3>1, <3>2, <3>3, <3>4, <3>5, <3>6, <3>7, <3>8 DEF Execution!QueryNext
  <2> QED BY <2>1, <2>2
<1> QED
  BY <1>1, <1>2 DEF Execution!Next, Execution!CreateRole, Execution!DeleteRole,
     Execution!Invalidate, Execution!ClosesPopped, Execution!executionVars

(* The pools of a query stay as they are.                                  *)
LEMMA PoolsStay ==
    ExecInv /\ [Execution!Next]_(Execution!executionVars) =>
        \/ UNCHANGED pools
        \/ \E q \in Statements : Execution!Opens(q)
BY DEF Execution!Next, Execution!CreateRole, Execution!DeleteRole, Execution!Invalidate,
   Execution!ClosesPopped, Execution!executionVars, Execution!poolState, Execution!QueryNext,
       Execution!Resolves, Execution!Checks, Execution!Reuses, Execution!ClosesStale,
       Execution!Streams, Execution!Records, Execution!Cancel

(* What opening does to the pools.                                         *)
LEMMA PoolOpened ==
    ASSUME Execution!TypeOK, NEW q \in Statements, Progress(q), Execution!Opens(q)
    PROVE  /\ Len(pools) + 1 \notin DOMAIN pools /\ Len(pools) + 1 # 0
           /\ DOMAIN pools' = DOMAIN pools \cup {Len(pools) + 1}
           /\ pools'[Len(pools) + 1] = principal[q]
           /\ \A i \in DOMAIN pools : pools'[i] = pools[i]
<1>1. principal[q] \in Nat /\ pools \in Seq(Nat)
  BY AnswersAssumption DEF Execution!QueriesAssumption, Execution!TypeOK
<1>2. pools' = Append(pools, principal[q])
  BY DEF Execution!Opens
<1> QED BY <1>1, <1>2

LEMMA ExecResolved ==
    ExecInv /\ [Execution!Next]_(Execution!executionVars) => Execution!RunsAsResolved'
<1> SUFFICES ASSUME ExecInv, [Execution!Next]_(Execution!executionVars), NEW r \in Statements,
                    pool'[r] # 0
             PROVE  pools'[pool'[r]] = principal'[r]
  BY DEF Execution!RunsAsResolved
<1>0. Execution!TypeOK /\ Progress(r) /\ (pool[r] # 0 => pools[pool[r]] = principal[r])
  BY DEF ExecInv, Execution!RunsAsResolved
<1>1. CASE UNCHANGED Execution!queryState
  <2>1. ASSUME NEW q \in Statements PROVE ~Execution!Opens(q)
    <3>1. step'[q] = step[q]
      BY <1>1 DEF Execution!queryState
    <3> QED BY <1>0, <3>1 DEF Execution!Opens, Execution!Goto, Execution!TypeOK
  <2> QED BY <1>0, <1>1, <2>1, PoolsStay DEF Execution!queryState
<1>2. ASSUME NEW q \in Statements, Execution!QueryNext(q) PROVE pools'[pool'[r]] = principal'[r]
  <2>1. CASE Execution!Opens(q)
    <3>1. Progress(q)
      BY DEF ExecInv
    <3>2. CASE q = r
      BY <1>0, <2>1, <3>1, <3>2, PoolOpened DEF Execution!Opens, Execution!TypeOK
    <3>3. CASE q # r
      <4>1. pool'[r] = pool[r] /\ principal'[r] = principal[r]
        BY <1>0, <1>2, <3>3, OneMoves DEF Alone
      <4>2. pool[r] \in DOMAIN pools
        BY <1>0, <4>1 DEF Execution!TypeOK
      <4>3. pools'[pool[r]] = pools[pool[r]]
        BY <1>0, <2>1, <3>1, <4>2, PoolOpened
      <4> QED BY <1>0, <4>1, <4>3
    <3> QED BY <3>2, <3>3
  <2>2. CASE Execution!Reuses(q)
    BY <1>0, <2>2 DEF Execution!Reuses, Execution!Fits, Execution!poolState, Execution!TypeOK
  <2>3. CASE Execution!Resolves(q)
    BY <1>0, <2>3 DEF Execution!Resolves, Execution!poolState, Execution!TypeOK, Progress
  <2>4. CASE UNCHANGED <<pools, pool, principal>>
    BY <1>0, <2>4
  <2> QED
    BY <1>2, <2>1, <2>2, <2>3, <2>4
       DEF Execution!QueryNext, Execution!Checks, Execution!ClosesStale, Execution!Streams,
           Execution!Records, Execution!Cancel, Execution!poolState
<1> QED
  BY <1>1, <1>2 DEF Execution!Next, Execution!CreateRole, Execution!DeleteRole,
     Execution!Invalidate, Execution!ClosesPopped, Execution!executionVars

(* A process that lost its pool or got a new one.                          *)
LEMMA ExecOwn == ExecInv /\ [Execution!Next]_(Execution!executionVars) => PoolsAreOwn'
<1> SUFFICES ASSUME ExecInv, [Execution!Next]_(Execution!executionVars) PROVE PoolsAreOwn'
  OBVIOUS
<1>0. Execution!TypeOK /\ PoolsAreOwn
  BY DEF ExecInv
<1>1. CASE UNCHANGED pooled
  BY <1>0, <1>1 DEF PoolsAreOwn
<1>2. ASSUME NEW p \in Servers, Execution!Invalidate(p) PROVE PoolsAreOwn'
  BY <1>0, <1>2 DEF Execution!Invalidate, PoolsAreOwn, Execution!TypeOK
<1>3. ASSUME NEW q \in Statements, Execution!Opens(q) PROVE PoolsAreOwn'
  <2>1. Progress(q)
    BY DEF ExecInv
  <2>2. Len(pools) + 1 \notin DOMAIN pools /\ Len(pools) + 1 # 0
    BY <1>0, <1>3, <2>1, PoolOpened
  <2>3. pooled' = [pooled EXCEPT ![ServerOf[q]] = Len(pools) + 1]
    BY <1>3 DEF Execution!Opens
  <2> HIDE <1>3
  <2> QED BY <1>0, <2>2, <2>3 DEF PoolsAreOwn, Execution!TypeOK
<1> QED
  BY <1>1, <1>2, <1>3
     DEF Execution!Next, Execution!CreateRole, Execution!DeleteRole, Execution!ClosesPopped,
         Execution!executionVars, Execution!poolState, Execution!QueryNext,
         Execution!Resolves, Execution!Checks, Execution!Reuses, Execution!ClosesStale,
         Execution!Streams, Execution!Records, Execution!Cancel

(* What is still to be closed.                                             *)
LEMMA InPending ==
    ASSUME NEW i
    PROVE  /\ i \in Execution!Pending <=>
                  (\E p \in Servers : i \in popped[p]) \/ (\E q \in Statements : i = replaced[q])
           /\ i \in Execution!Pending' <=>
                  (\E p \in Servers : i \in popped'[p]) \/ (\E q \in Statements : i = replaced'[q])
<1>1. /\ i \in UNION {popped[p] : p \in Servers} <=> \E p \in Servers : i \in popped[p]
      /\ i \in UNION {popped'[p] : p \in Servers} <=> \E p \in Servers : i \in popped'[p]
  OBVIOUS
<1>2. /\ i \in {replaced[q] : q \in Statements} <=> \E q \in Statements : i = replaced[q]
      /\ i \in {replaced'[q] : q \in Statements} <=> \E q \in Statements : i = replaced'[q]
  OBVIOUS
<1>3. /\ Execution!Pending = (UNION {popped[p] : p \in Servers}) \cup {replaced[q] : q \in Statements}
      /\ Execution!Pending' = (UNION {popped'[p] : p \in Servers}) \cup {replaced'[q] : q \in Statements}
  BY DEF Execution!Pending
<1>4. i \in Execution!Pending <=> i \in UNION {popped[p] : p \in Servers} \/ i \in {replaced[q] : q \in Statements}
  BY <1>3
<1>5. i \in Execution!Pending' <=> i \in UNION {popped'[p] : p \in Servers} \/ i \in {replaced'[q] : q \in Statements}
  BY <1>3
<1> QED BY <1>1, <1>2, <1>4, <1>5

(* Every pool is somewhere, and a registered one nowhere else.             *)
LEMMA ExecAccounted ==
    ExecInv /\ [Execution!Next]_(Execution!executionVars) => Execution!PoolsAreAccounted'
<1> SUFFICES ASSUME ExecInv, [Execution!Next]_(Execution!executionVars)
             PROVE  Execution!PoolsAreAccounted'
  OBVIOUS
<1>0. Execution!TypeOK /\ Execution!PoolsAreAccounted /\ PoolsAreOwn
  BY DEF ExecInv
<1>1. CASE UNCHANGED <<Execution!poolState, replaced, lost>>
  BY <1>0, <1>1 DEF Execution!PoolsAreAccounted, Execution!Registered, Execution!Pending,
     Execution!poolState
<1>2. ASSUME NEW p \in Servers, Execution!Invalidate(p) PROVE Execution!PoolsAreAccounted'
  <2>1. /\ pooled'[p] = 0 /\ \A o \in Servers \ {p} : pooled'[o] = pooled[o]
        /\ popped'[p] = popped[p] \cup ({pooled[p]} \ {0})
        /\ \A o \in Servers \ {p} : popped'[o] = popped[o]
        /\ UNCHANGED <<pools, closed, lost, replaced>>
    BY <1>0, <1>2 DEF Execution!Invalidate, Execution!queryState, Execution!TypeOK
  <2>2. ASSUME NEW i \in DOMAIN pools'
        PROVE  i \in Execution!Registered' \cup closed' \cup Execution!Pending' \cup lost'
    <3>1. i # 0
      BY <1>0, <2>1 DEF Execution!TypeOK
    <3> QED BY <1>0, <2>1, <3>1 DEF Execution!PoolsAreAccounted, Execution!Registered,
               Execution!Pending
  <2>3. ASSUME NEW i \in Execution!Registered', i # 0
        PROVE  i \notin closed' \cup Execution!Pending' \cup lost'
    <3>1. PICK o \in Servers : pooled'[o] = i
      BY DEF Execution!Registered
    <3>2. o # p /\ pooled[o] = i
      BY <2>1, <2>3, <3>1
    <3>3. i \in Execution!Registered /\ i # pooled[p]
      BY <1>0, <2>3, <3>2 DEF Execution!Registered, PoolsAreOwn
    <3> QED BY <1>0, <2>1, <2>3, <3>3 DEF Execution!PoolsAreAccounted, Execution!Pending
  <2> QED BY <2>2, <2>3 DEF Execution!PoolsAreAccounted
<1>3. ASSUME NEW p \in Servers, Execution!ClosesPopped(p) PROVE Execution!PoolsAreAccounted'
  <2>1. /\ popped'[p] = {} /\ \A o \in Servers \ {p} : popped'[o] = popped[o]
        /\ closed' \cup lost' = closed \cup lost \cup popped[p]
        /\ UNCHANGED <<pools, pooled, replaced>>
    BY <1>0, <1>3 DEF Execution!ClosesPopped, Execution!queryState, Execution!TypeOK
  <2>2. Execution!Pending \cup closed \cup lost = Execution!Pending' \cup closed' \cup lost'
    BY <2>1 DEF Execution!Pending
  <2> QED BY <1>0, <2>1, <2>2 DEF Execution!PoolsAreAccounted, Execution!Registered
<1>4. ASSUME NEW q \in Statements, Execution!Opens(q) PROVE Execution!PoolsAreAccounted'
  <2>0. Progress(q)
    BY DEF ExecInv
  <2> DEFINE new == Len(pools) + 1
  <2>1. /\ ServerOf[q] \in Servers /\ pooled'[ServerOf[q]] = new
        /\ \A o \in Servers \ {ServerOf[q]} : pooled'[o] = pooled[o]
        /\ replaced'[q] = pooled[ServerOf[q]] /\ replaced[q] = 0
        /\ \A r \in Statements \ {q} : replaced'[r] = replaced[r]
        /\ UNCHANGED <<popped, closed, lost>>
    BY AnswersAssumption, <1>0, <1>4, <2>0 DEF Execution!Opens, Execution!TypeOK, Progress,
       Execution!QueriesAssumption
  <2>2. new # 0 /\ new \notin DOMAIN pools /\ DOMAIN pools' = DOMAIN pools \cup {new}
    BY <1>0, <1>4, <2>0, PoolOpened
  <2>3. pooled \in [Servers -> {0} \cup DOMAIN pools] /\ 0 \notin DOMAIN pools
        /\ closed \cup lost \subseteq DOMAIN pools
        /\ Execution!Pending \subseteq {0} \cup DOMAIN pools
    <3>1. /\ pooled \in [Servers -> {0} \cup DOMAIN pools]
          /\ popped \in [Servers -> SUBSET DOMAIN pools]
          /\ replaced \in [Statements -> {0} \cup DOMAIN pools]
          /\ closed \cup lost \subseteq DOMAIN pools
      BY <1>0 DEF Execution!TypeOK
    <3>2. 0 \notin DOMAIN pools
      BY <1>0 DEF Execution!TypeOK
    <3>3. ASSUME NEW i \in Execution!Pending PROVE i \in {0} \cup DOMAIN pools
      BY <3>1, <3>3, InPending
    <3> QED BY <3>1, <3>2, <3>3
  <2> HIDE DEF new
  <2>4. ASSUME NEW i \in DOMAIN pools'
        PROVE  i \in Execution!Registered' \cup closed' \cup Execution!Pending' \cup lost'
    <3>1. CASE i = new
      BY <2>1, <3>1 DEF Execution!Registered
    <3>2. CASE i \in DOMAIN pools
      <4>1. i # 0
        BY <2>3, <3>2
      <4>2. CASE i \in Execution!Registered
        <5>1. PICK o \in Servers : pooled[o] = i
          BY <4>2 DEF Execution!Registered
        <5>2. CASE o = ServerOf[q]
          BY <2>1, <5>1, <5>2, InPending
        <5>3. CASE o # ServerOf[q]
          BY <2>1, <5>1, <5>3 DEF Execution!Registered
        <5> QED BY <5>2, <5>3
      <4>3. CASE i \in closed \cup lost \/ \E o \in Servers : i \in popped[o]
        BY <2>1, <4>3, InPending
      <4>4. CASE \E r \in Statements : i = replaced[r]
        BY <2>1, <4>1, <4>4, InPending
      <4> QED BY <1>0, <3>2, <4>2, <4>3, <4>4, InPending DEF Execution!PoolsAreAccounted
    <3> QED BY <2>2, <2>4, <3>1, <3>2
  <2>5. ASSUME NEW i \in Execution!Registered', i # 0
        PROVE  i \notin closed' \cup Execution!Pending' \cup lost'
    <3>1. PICK o \in Servers : pooled'[o] = i
      BY DEF Execution!Registered
    <3>2. CASE o = ServerOf[q]
      <4>1. i = new
        BY <2>1, <3>1, <3>2
      <4>2. Execution!Pending' \subseteq Execution!Pending \cup {pooled[ServerOf[q]]}
        BY <2>1, InPending
      <4> QED BY <2>1, <2>2, <2>3, <4>1, <4>2
    <3>3. CASE o # ServerOf[q]
      <4>1. pooled[o] = i
        BY <2>1, <3>1, <3>3
      <4>2. i \in Execution!Registered /\ i # pooled[ServerOf[q]]
        BY <1>0, <2>1, <2>5, <3>3, <4>1 DEF Execution!Registered, PoolsAreOwn
      <4>3. Execution!Pending' \subseteq Execution!Pending \cup {pooled[ServerOf[q]]}
        BY <2>1, InPending
      <4> QED BY <1>0, <2>1, <2>5, <4>2, <4>3 DEF Execution!PoolsAreAccounted
    <3> QED BY <3>2, <3>3
  <2> QED BY <2>4, <2>5 DEF Execution!PoolsAreAccounted
<1>5. ASSUME NEW q \in Statements, replaced' = [replaced EXCEPT ![q] = 0], UNCHANGED <<pools, pooled, popped>>,
             closed' \cup lost' \cup {0} = closed \cup lost \cup {replaced[q], 0}
      PROVE  Execution!PoolsAreAccounted'
  <2>1. replaced'[q] = 0 /\ \A r \in Statements \ {q} : replaced'[r] = replaced[r]
    BY <1>0, <1>5 DEF Execution!TypeOK
  <2>2. Execution!Pending \cup closed \cup lost \cup {0} = Execution!Pending' \cup closed' \cup lost' \cup {0}
    <3>1. ASSUME NEW i, i # 0
          PROVE  i \in Execution!Pending \cup closed \cup lost <=> i \in Execution!Pending' \cup closed' \cup lost'
      <4>1. i \in closed' \cup lost' <=> i \in closed \cup lost \/ i = replaced[q]
        BY <1>5, <3>1
      <4>2. i \in Execution!Pending <=> (\E p \in Servers : i \in popped[p])
                            \/ (\E r \in Statements \ {q} : i = replaced[r]) \/ i = replaced[q]
        BY InPending
      <4>3. i \in Execution!Pending' <=> (\E p \in Servers : i \in popped[p])
                            \/ (\E r \in Statements \ {q} : i = replaced[r])
        BY <1>5, <2>1, <3>1, InPending
      <4> QED BY <4>1, <4>2, <4>3
    <3> QED BY <3>1
  <2>3. 0 \notin DOMAIN pools
    BY <1>0 DEF Execution!TypeOK
  <2> QED BY <1>0, <1>5, <2>2, <2>3 DEF Execution!PoolsAreAccounted, Execution!Registered
<1>6. ASSUME NEW q \in Statements, Execution!ClosesStale(q) PROVE Execution!PoolsAreAccounted'
  <2>1. closed' \cup lost' \cup {0} = closed \cup lost \cup {replaced[q], 0}
    BY <1>6 DEF Execution!ClosesStale
  <2> QED BY <1>5, <1>6, <2>1 DEF Execution!ClosesStale
<1>7. ASSUME NEW q \in Statements, Execution!Cancel(q) PROVE Execution!PoolsAreAccounted'
  <2>1. closed' \cup lost' \cup {0} = closed \cup lost \cup {replaced[q], 0}
    BY <1>7 DEF Execution!Cancel, Execution!poolState
  <2> QED BY <1>5, <1>7, <2>1 DEF Execution!Cancel, Execution!poolState
<1> QED
  BY <1>1, <1>2, <1>3, <1>4, <1>6, <1>7
     DEF Execution!Next, Execution!CreateRole, Execution!DeleteRole, Execution!executionVars,
         Execution!queryState, Execution!QueryNext, Execution!Resolves, Execution!Checks,
         Execution!Reuses, Execution!Streams, Execution!Records

(* Pools of old credentials.                                               *)
LEMMA ExecExcused ==
    ExecInv /\ [Execution!Next]_(Execution!executionVars) => Execution!OldPoolsAreExcused'
<1> SUFFICES ASSUME ExecInv, [Execution!Next]_(Execution!executionVars),
                    NEW p \in Servers, retiring' = {}, pooled'[p] # 0,
                    pools'[pooled'[p]] # identity'
             PROVE  pooled'[p] \in excused'
  BY DEF Execution!OldPoolsAreExcused
<1>0. Execution!TypeOK /\ (retiring = {} /\ pooled[p] # 0 /\ pools[pooled[p]] # identity
                             => pooled[p] \in excused)
  BY DEF ExecInv, Execution!OldPoolsAreExcused
<1>1. CASE UNCHANGED <<Execution!roleState, pools, pooled, excused>>
  BY <1>0, <1>1 DEF Execution!roleState
<1>2. CASE Execution!CreateRole
  <2>1. UNCHANGED <<pools, pooled, retiring, excused>> /\ identity = 0
    BY <1>2 DEF Execution!CreateRole, Execution!poolState
  <2>2. pools[pooled[p]] # 0
    <3>1. pooled[p] \in DOMAIN pools
      BY <1>0, <2>1 DEF Execution!TypeOK
    <3>2. pools \in Seq(1 .. MaxGenerations)
      BY <1>0 DEF Execution!TypeOK
    <3>3. pools[pooled[p]] \in 1 .. MaxGenerations
      BY <3>1, <3>2, EntryOfSeq
    <3> QED BY <3>3
  <2> QED BY <1>0, <2>1, <2>2
<1>3. ASSUME NEW o \in Servers, Execution!DeleteRole(o) PROVE FALSE
  BY <1>3 DEF Execution!DeleteRole
<1>4. ASSUME NEW o \in Servers, Execution!Invalidate(o) PROVE pooled'[p] \in excused'
  <2>1. p # o /\ pooled'[p] = pooled[p]
    BY <1>0, <1>4 DEF Execution!Invalidate, Execution!TypeOK
  <2> QED BY <1>4, <2>1 DEF Execution!Invalidate
<1>5. ASSUME NEW q \in Statements, Execution!Opens(q) PROVE pooled'[p] \in excused'
  <2>0. Progress(q)
    BY DEF ExecInv
  <2>1. /\ pools'[Len(pools) + 1] = principal[q]
        /\ \A i \in DOMAIN pools : pools'[i] = pools[i]
    BY <1>0, <1>5, <2>0, PoolOpened
  <2>2. /\ pooled' = [pooled EXCEPT ![ServerOf[q]] = Len(pools) + 1]
        /\ excused' = IF principal[q] = identity THEN excused ELSE excused \cup {Len(pools) + 1}
        /\ UNCHANGED <<identity, retiring>>
    BY <1>5 DEF Execution!Opens, Execution!roleState
  <2>3. CASE p = ServerOf[q]
    BY <1>0, <2>1, <2>2, <2>3 DEF Execution!TypeOK
  <2>4. CASE p # ServerOf[q]
    <3>1. pooled'[p] = pooled[p] /\ pooled[p] \in DOMAIN pools
      BY <1>0, <2>2, <2>4 DEF Execution!TypeOK
    <3> QED BY <1>0, <2>1, <2>2, <3>1
  <2> QED BY <2>3, <2>4
<1> QED
  BY <1>1, <1>2, <1>3, <1>4, <1>5
     DEF Execution!Next, Execution!ClosesPopped, Execution!executionVars, Execution!poolState,
         Execution!QueryNext, Execution!Resolves, Execution!Checks, Execution!Reuses,
         Execution!ClosesStale, Execution!Streams, Execution!Records, Execution!Cancel

(* The audit.                                                              *)
LEMMA ExecRecords ==
    ExecInv /\ [Execution!Next]_(Execution!executionVars) => Execution!RecordsAreTrue'
<1> SUFFICES ASSUME ExecInv, [Execution!Next]_(Execution!executionVars), NEW r \in Statements
             PROVE  /\ record'[r] # "none" => record'[r] = outcome'[r] /\ principal'[r] # 0
                    /\ step'[r] = "ended" /\ outcome'[r] # "cancelled" /\ principal'[r] # 0
                       /\ queryFaults' = 0 => record'[r] # "none"
                    /\ outcome'[r] = "rejected" => pool'[r] = 0
  BY DEF Execution!RecordsAreTrue
<1>0. /\ Execution!TypeOK /\ Progress(r)
      /\ record[r] # "none" => record[r] = outcome[r] /\ principal[r] # 0
      /\ step[r] = "ended" /\ outcome[r] # "cancelled" /\ principal[r] # 0 /\ queryFaults = 0
             => record[r] # "none"
      /\ outcome[r] = "rejected" => pool[r] = 0
  BY DEF ExecInv, Execution!RecordsAreTrue
<1>1. queryFaults' = 0 => queryFaults = 0
  <2>1. UNCHANGED queryFaults \/ Execution!Fault
    BY DEF Execution!Next, Execution!CreateRole, Execution!DeleteRole, Execution!Invalidate,
       Execution!ClosesPopped, Execution!executionVars, Execution!QueryNext,
           Execution!Resolves, Execution!Checks, Execution!Reuses, Execution!Opens,
           Execution!ClosesStale, Execution!Streams, Execution!Records, Execution!Cancel
  <2> QED BY <1>0, <2>1, FaultKeeps
<1>2. CASE UNCHANGED Execution!queryState
  BY <1>0, <1>1, <1>2 DEF Execution!queryState
<1>3. ASSUME NEW q \in Statements, Execution!QueryNext(q), q # r
      PROVE  UNCHANGED <<step[r], principal[r], pool[r], outcome[r], record[r]>>
  BY <1>0, <1>3, OneMoves DEF Alone
<1>4. CASE Execution!Resolves(r)
  BY <1>0, <1>4 DEF Execution!Resolves, Execution!Goto, Execution!TypeOK, Progress
<1>5. CASE Execution!Checks(r)
  BY <1>0, <1>5 DEF Execution!Checks, Execution!Goto, Execution!TypeOK, Progress
<1>6. CASE Execution!Reuses(r)
  BY <1>0, <1>6 DEF Execution!Reuses, Execution!Goto, Execution!TypeOK, Progress
<1>7. CASE Execution!Opens(r)
  BY <1>0, <1>7 DEF Execution!Opens, Execution!Goto, Execution!TypeOK, Progress
<1>8. CASE Execution!ClosesStale(r)
  BY <1>0, <1>8 DEF Execution!ClosesStale, Execution!Goto, Execution!TypeOK, Progress
<1>9. CASE Execution!Streams(r)
  BY <1>0, <1>9 DEF Execution!Streams, Execution!Goto, Execution!TypeOK, Progress
<1>10. CASE Execution!Records(r)
  BY <1>0, <1>10, FaultKeeps DEF Execution!Records, Execution!Goto, Execution!TypeOK, Progress
<1>11. CASE Execution!Cancel(r)
  BY <1>0, <1>11 DEF Execution!Cancel, Execution!Goto, Execution!TypeOK, Progress
<1>12. CASE Execution!QueryNext(r)
  BY <1>4, <1>5, <1>6, <1>7, <1>8, <1>9, <1>10, <1>11, <1>12 DEF Execution!QueryNext
<1>13. ASSUME NEW q \in Statements, Execution!QueryNext(q)
       PROVE  q = r \/ UNCHANGED <<step[r], principal[r], pool[r], outcome[r], record[r]>>
  BY <1>3, <1>13
<1>14. (\E q \in Statements : Execution!QueryNext(q)) \/ UNCHANGED Execution!queryState
  BY DEF Execution!Next, Execution!CreateRole, Execution!DeleteRole, Execution!Invalidate,
     Execution!ClosesPopped, Execution!executionVars
<1> QED BY <1>0, <1>1, <1>2, <1>12, <1>13, <1>14

LEMMA ExecStep == ExecInv /\ [Execution!Next]_(Execution!executionVars) => ExecInv'
BY ExecTypes, ExecProgress, ExecResolved, ExecOwn, ExecAccounted, ExecExcused, ExecRecords
   DEF ExecInv

LEMMA ExecSafe == ExecInv => Execution!QueriesAreSafe
BY DEF ExecInv, Execution!QueriesAreSafe

-----------------------------------------------------------------------------
(* The three parts of an answer.                                           *)

AnswersInv == GuardInv /\ ResultInv /\ ExecInv

LEMMA AnswersInvInit == AnswersInit => AnswersInv
BY GuardInit, ResultInit, ExecInit DEF AnswersInit, AnswersInv

LEMMA AnswersInvNext == AnswersInv /\ [AnswersNext]_answerVars => AnswersInv'
<1> SUFFICES ASSUME AnswersInv, [AnswersNext]_answerVars PROVE AnswersInv'
  OBVIOUS
<1>1. UNCHANGED guardVars => UNCHANGED Guard!guardVars
  BY DEF guardVars, Guard!guardVars
<1>2. UNCHANGED resultVars => UNCHANGED Results!resultVars
  BY DEF resultVars, Results!resultVars, Results!statVars
<1>3. UNCHANGED executionVars => UNCHANGED Execution!executionVars
  BY DEF executionVars, Execution!executionVars, Execution!roleState, Execution!poolState,
         Execution!queryState
<1>4. /\ [Guard!Next]_(Guard!guardVars) /\ [Results!Next]_(Results!resultVars)
      /\ [Execution!Next]_(Execution!executionVars)
  BY <1>1, <1>2, <1>3 DEF AnswersNext, GuardMoves, ResultMoves, QueryMoves, answerVars
<1> QED BY <1>4, GuardStep, ResultStep, ExecStep DEF AnswersInv

LEMMA AnswersInvHolds == AnswersSpec => []AnswersInv
BY AnswersInvInit, AnswersInvNext, PTL DEF AnswersSpec

(* Every variable of the check, the reading or the running of queries has  *)
(* its type, however many joins, rows, queries and processes there are.    *)
THEOREM AnswerTypesKept == AnswersSpec => []AnswerTypes
<1>1. AnswersInv => AnswerTypes
  BY DEF AnswersInv, GuardInv, ResultInv, ExecInv, AnswerTypes
<1> QED BY <1>1, AnswersInvHolds, PTL

(* QueryGuardService accepts only queries whose every join compares its    *)
(* source with earlier ones in each branch of its condition, and refuses   *)
(* no join that compares it with earlier ones only; the summary of a       *)
(* result describes the artifact in whatever order its rows came; and      *)
(* whatever roles are deleted and queries are cancelled, a query runs with *)
(* the credentials it resolved, no pool is forgotten and no registered one *)
(* is closed, old credentials stay only where nobody removed them, and the *)
(* records of what ended are true.                                         *)
THEOREM AnswersStaySafe == AnswersSpec => []AnswersAreSafe
<1>1. AnswersInv => AnswersAreSafe
  BY GuardSafe, ResultSafe, ExecSafe DEF AnswersInv, AnswersAreSafe
<1> QED BY <1>1, AnswersInvHolds, PTL

-----------------------------------------------------------------------------
(* Rate limits.                                                            *)

LEMMA RatesCardinality == \A S : Rates!Cardinality(S) = Cardinality(S)
BY DEF Rates!Cardinality, Cardinality

LEMMA RatesFinite == \A S : Rates!IsFiniteSet(S) <=> IsFiniteSet(S)
BY DEF Rates!IsFiniteSet, IsFiniteSet

-----------------------------------------------------------------------------
(* The log is in the order of time, and no more is counted than may be.    *)
LogInv ==
    /\ \A k \in RateKeys :
        /\ last[k] <= clock
        /\ \A i \in 1 .. Len(log[k]) : log[k][i] <= last[k]
        /\ \A i, j \in 1 .. Len(log[k]) : i <= j => log[k][i] <= log[k][j]
        /\ Cardinality(Rates!Recent(k, clock)) <= RateLimit
    /\ Cardinality(Rates!Counted(clock)) <= MaxKeys

(* A bucket knows when its key was counted, and the newest part of the log *)
(* with all that is recent.                                                *)
FollowsLog(b) ==
    /\ b.last = last[b.key] /\ last[b.key] > 0
    /\ \E d \in 0 .. Len(log[b.key]) :
        /\ b.stamps = SubSeq(log[b.key], d + 1, Len(log[b.key]))
        /\ \A j \in 1 .. d : ~Rates!Within(log[b.key][j], clock)

Ordered(s) ==
    /\ \A i \in 1 .. Len(s) : FollowsLog(s[i])
    /\ \A i, j \in 1 .. Len(s) : i <= j => s[i].last <= s[j].last
    /\ \A i, j \in 1 .. Len(s) : s[i].key = s[j].key => i = j

MemoryInv ==
    /\ Ordered(buckets)
    /\ \A k \in Rates!Counted(clock) : \E i \in 1 .. Len(buckets) : buckets[i].key = k

(* What Redis keeps of a key, while no script was late.                    *)
Member(k, i) == [time |-> log[k][i], number |-> i]
RedisInv ==
    /\ \A k \in RateKeys :
        /\ sequence[k] = Len(log[k])
        /\ lives[k] = IF Len(log[k]) = 0 THEN 0 ELSE log[k][Len(log[k])] + RateWindow
        /\ stamps[k] \subseteq {Member(k, i) : i \in 1 .. Len(log[k])}
        /\ \A i \in Rates!Recent(k, clock) : Member(k, i) \in stamps[k]
        /\ active[k] <= setLives
        /\ active[k] > clock => last[k] > 0 /\ active[k] = last[k] + RateWindow
        /\ k \in Rates!Counted(clock) => active[k] = last[k] + RateWindow

RateInv ==
    /\ Rates!TypeOK
    /\ \A call \in flying : call.now <= clock
    /\ ~shared => flying = {} /\ ~late /\ MemoryInv
    /\ ~late => LogInv /\ (shared => RedisInv)
-----------------------------------------------------------------------------
LEMMA RateFacts ==
    /\ IsFiniteSet(RateKeys) /\ RateLimit \in Nat /\ RateLimit >= 1 /\ RateWindow \in Nat /\ RateWindow >= 1
    /\ MaxKeys \in Nat /\ MaxKeys >= 1 /\ MaxTime \in Nat /\ MaxTime >= 1
BY AccessAssumption, RatesFinite DEF Rates!RateAssumption

LEMMA LeastIndex ==
    ASSUME NEW S \in SUBSET Nat, S # {}
    PROVE  \E x \in S : \A y \in S : x <= y
<1>. DEFINE R == {ss \in Nat \X Nat : ss[1] < ss[2]}
<1>1. OpToRel(<, Nat) = R
  BY DEF OpToRel
<1>2. IsWellFoundedOn(R, Nat)
  BY <1>1, NatLessThanWellFounded, Zenon
<1>3. PICK x \in S : \A y \in S : ~(<<y, x>> \in R)
  <2>. HIDE DEF R
  <2>. QED BY <1>2, WFMin
<1>4. ASSUME NEW y \in S  PROVE x <= y
  <2>1. <<y, x>> \in Nat \X Nat /\ <<y, x>>[1] = y /\ <<y, x>>[2] = x
    OBVIOUS
  <2>2. ~(y < x)
    BY <1>3, <2>1
  <2>. QED  BY <2>2
<1>. QED  BY <1>4

LEMMA MinIs ==
    ASSUME NEW S \in SUBSET Nat, S # {}
    PROVE  Rates!Min(S) \in S /\ \A y \in S : Rates!Min(S) <= y
BY LeastIndex DEF Rates!Min

LEMMA MinUnique ==
    ASSUME NEW S \in SUBSET Nat, NEW x \in S, \A y \in S : x <= y
    PROVE  Rates!Min(S) = x
<1>1. Rates!Min(S) \in S /\ Rates!Min(S) <= x
  BY MinIs
<1>2. x <= Rates!Min(S)
  BY <1>1
<1>3. x \in Nat /\ Rates!Min(S) \in Nat
  BY <1>1
<1>4. \A a, b \in Nat : a <= b /\ b <= a => a = b
  OBVIOUS
<1>. QED  BY <1>1, <1>2, <1>3, <1>4

LEMMA MaxOfTwo ==
    ASSUME NEW a \in Int, NEW b \in Int
    PROVE  Rates!Max({a, b}) = IF a >= b THEN a ELSE b
<1>1. CASE a >= b
  <2>1. a \in {a, b} /\ \A y \in {a, b} : a >= y
    BY <1>1
  <2>2. Rates!Max({a, b}) \in {a, b} /\ \A y \in {a, b} : Rates!Max({a, b}) >= y
    BY <2>1 DEF Rates!Max
  <2>. QED  BY <1>1, <2>2
<1>2. CASE ~(a >= b)
  <2>1. b \in {a, b} /\ \A y \in {a, b} : b >= y
    BY <1>2
  <2>2. Rates!Max({a, b}) \in {a, b} /\ \A y \in {a, b} : Rates!Max({a, b}) >= y
    BY <2>1 DEF Rates!Max
  <2>. QED  BY <1>2, <2>2
<1>. QED  BY <1>1, <1>2

(* The end of a sequence.                                                  *)
LEMMA TailOf ==
    ASSUME NEW S, NEW s \in Seq(S), NEW n \in 1 .. Len(s) + 1
    PROVE  /\ SubSeq(s, n, Len(s)) \in Seq(S)
           /\ Len(SubSeq(s, n, Len(s))) = Len(s) - n + 1
           /\ \A i \in 1 .. Len(s) - n + 1 : SubSeq(s, n, Len(s))[i] = s[n + i - 1]
<1>1. Len(s) \in Nat /\ \A i \in 1 .. Len(s) : s[i] \in S
  BY LenProperties, ElementOfSeq
<1>2. n \in Int /\ Len(s) \in Int /\ \A i \in n .. Len(s) : s[i] \in S
  BY <1>1
<1>3. /\ SubSeq(s, n, Len(s)) \in Seq(S)
      /\ Len(SubSeq(s, n, Len(s))) = IF n <= Len(s) THEN Len(s) - n + 1 ELSE 0
      /\ \A i \in 1 .. Len(s) - n + 1 : SubSeq(s, n, Len(s))[i] = s[n + i - 1]
  BY <1>2, SubSeqProperties
<1>4. \A x \in Nat : \A y \in 1 .. x + 1 : x - y + 1 = IF y <= x THEN x - y + 1 ELSE 0
  OBVIOUS
<1>. QED  BY <1>1, <1>3, <1>4

LEMMA RemoveAtIs ==
    ASSUME NEW S, NEW s \in Seq(S), NEW i \in 1 .. Len(s)
    PROVE  /\ Rates!RemoveAt(s, i) \in Seq(S) /\ Len(Rates!RemoveAt(s, i)) = Len(s) - 1
           /\ \A j \in 1 .. Len(s) - 1 : Rates!RemoveAt(s, i)[j] = IF j < i THEN s[j] ELSE s[j + 1]
<1>. DEFINE a == SubSeq(s, 1, i - 1)
            b == SubSeq(s, i + 1, Len(s))
            n == Len(s)
<1>1. n \in Nat /\ i \in Nat /\ i >= 1 /\ i <= n /\ \A j \in 1 .. n : s[j] \in S
  BY LenProperties, ElementOfSeq
<1>2. i + 1 \in 1 .. Len(s) + 1
  BY <1>1
<1>3. b \in Seq(S) /\ Len(b) = n - i /\ \A j \in 1 .. n - i : b[j] = s[i + j]
  <2>1. /\ b \in Seq(S) /\ Len(b) = n - (i + 1) + 1
        /\ \A j \in 1 .. n - (i + 1) + 1 : b[j] = s[(i + 1) + j - 1]
    BY <1>2, TailOf
  <2>2. \A x \in Nat : \A y \in Nat : x - (y + 1) + 1 = x - y /\ \A j \in Nat : (y + 1) + j - 1 = y + j
    OBVIOUS
  <2>. HIDE DEF b, n
  <2>3. \A j \in 1 .. n - i : j \in Nat
    OBVIOUS
  <2>. QED  BY <1>1, <2>1, <2>2, <2>3
<1>4. a \in Seq(S) /\ Len(a) = i - 1 /\ \A j \in 1 .. i - 1 : a[j] = s[j]
  <2>1. 1 \in Int /\ i - 1 \in Int /\ \A j \in 1 .. i - 1 : s[j] \in S
    BY <1>1
  <2>2. /\ a \in Seq(S) /\ Len(a) = IF 1 <= i - 1 THEN i - 1 - 1 + 1 ELSE 0
        /\ \A j \in 1 .. i - 1 - 1 + 1 : a[j] = s[1 + j - 1]
    BY <2>1, SubSeqProperties
  <2>3. \A x \in Nat : x >= 1 =>
            /\ x - 1 = IF 1 <= x - 1 THEN x - 1 - 1 + 1 ELSE 0
            /\ \A j \in 1 .. x - 1 : j \in 1 .. x - 1 - 1 + 1 /\ 1 + j - 1 = j
    OBVIOUS
  <2>. HIDE DEF a
  <2>. QED  BY <1>1, <2>2, <2>3
<1>5. Rates!RemoveAt(s, i) = a \o b
  BY DEF Rates!RemoveAt
<1>. HIDE DEF a, b, n
<1>6. /\ a \o b \in Seq(S) /\ Len(a \o b) = Len(a) + Len(b)
      /\ \A j \in 1 .. Len(a) + Len(b) : (a \o b)[j] = IF j <= Len(a) THEN a[j] ELSE b[j - Len(a)]
  BY <1>3, <1>4, ConcatProperties
<1>7. Len(a) + Len(b) = n - 1
  BY <1>1, <1>3, <1>4
<1>8. ASSUME NEW j \in 1 .. n - 1
      PROVE  (a \o b)[j] = IF j < i THEN s[j] ELSE s[j + 1]
  <2>1. CASE j < i
    <3>1. j <= Len(a) /\ j \in 1 .. i - 1
      BY <1>1, <1>4, <2>1
    <3>. QED  BY <1>4, <1>6, <1>7, <2>1, <3>1
  <2>2. CASE ~(j < i)
    <3>1. ~(j <= Len(a)) /\ j - Len(a) \in 1 .. n - i /\ i + (j - Len(a)) = j + 1
      BY <1>1, <1>4, <2>2
    <3>. QED  BY <1>3, <1>6, <1>7, <2>2, <3>1
  <2>. QED  BY <2>1, <2>2
<1>. QED  BY <1>5, <1>6, <1>7, <1>8 DEF n

-----------------------------------------------------------------------------
(* What is pruned: the first of a sequence in the order of time.           *)


LEMMA PrunedTimes ==
    ASSUME NEW s \in Seq(Nat), clock \in Nat,
           \A i, j \in 1 .. Len(s) : i <= j => s[i] <= s[j]
    PROVE  \E e \in 0 .. Len(s) :
              /\ Rates!Pruned(s) = SubSeq(s, e + 1, Len(s))
              /\ \A i \in 1 .. Len(s) : Rates!Within(s[i], clock) <=> i > e
<1>. DEFINE I == {i \in 1 .. Len(s) : Rates!Within(s[i], clock)}
            n == Rates!Min(I \cup {Len(s) + 1})
<1>1. Len(s) \in Nat /\ \A i \in 1 .. Len(s) : s[i] \in Nat
  BY LenProperties, ElementOfSeq
<1>2. I \cup {Len(s) + 1} \in SUBSET Nat
  BY <1>1
<1>3. n \in I \cup {Len(s) + 1} /\ \A y \in I \cup {Len(s) + 1} : n <= y
  <2>. HIDE DEF I
  <2>. QED  BY <1>2, MinIs
<1>4. n \in 1 .. Len(s) + 1
  BY <1>1, <1>3
<1>. HIDE DEF n
<1>5. ASSUME NEW i \in 1 .. Len(s)
      PROVE  Rates!Within(s[i], clock) <=> i >= n
  <2>1. Rates!Within(s[i], clock) => i >= n
    BY <1>3, <1>4
  <2>2. ASSUME i >= n  PROVE Rates!Within(s[i], clock)
    <3>1. n \in I
      BY <1>1, <1>3, <1>4, <2>2
    <3>2. n \in 1 .. Len(s) /\ s[n] <= s[i] /\ s[n] + RateWindow > clock
      BY <3>1, <2>2, <1>4 DEF Rates!Within
    <3>3. s[n] \in Nat /\ s[i] \in Nat /\ RateWindow \in Nat
      BY <1>1, <3>2, RateFacts
    <3>. QED  BY <3>2, <3>3 DEF Rates!Within
  <2>. QED  BY <2>1, <2>2
<1>6. Rates!Pruned(s) = SubSeq(s, n, Len(s))
  BY DEF Rates!Pruned, n
<1>7. n - 1 \in 0 .. Len(s) /\ (n - 1) + 1 = n /\ \A i \in 1 .. Len(s) : i >= n <=> i > n - 1
  BY <1>1, <1>4
<1>. QED  BY <1>5, <1>6, <1>7

LEMMA TimesAreNumbers == \A s \in Seq(1 .. MaxTime) : s \in Seq(Nat)
<1>. SUFFICES ASSUME NEW s \in Seq(1 .. MaxTime)  PROVE s \in Seq(Nat)
  OBVIOUS
<1>1. s \in [1 .. Len(s) -> 1 .. MaxTime] /\ Len(s) \in Nat
  BY LenProperties
<1>2. s \in [1 .. Len(s) -> Nat]
  BY <1>1
<1>. QED  BY <1>1, <1>2, SeqDef

(* What is recent is the end of the log.                                   *)
LEMMA RecentIsTail ==
    ASSUME Rates!TypeOK, LogInv, NEW k \in RateKeys
    PROVE  \E e \in 0 .. Len(log[k]) :
              /\ Rates!Recent(k, clock) = e + 1 .. Len(log[k])
              /\ Cardinality(Rates!Recent(k, clock)) = Len(log[k]) - e
              /\ e < Len(log[k]) =>
                    Rates!Min({log[k][i] : i \in Rates!Recent(k, clock)}) = log[k][e + 1]
<1>. DEFINE s == log[k]
<1>1. s \in Seq(Nat) /\ clock \in Nat /\ \A i, j \in 1 .. Len(s) : i <= j => s[i] <= s[j]
  <2>1. s \in Seq(1 .. MaxTime) /\ clock \in Nat
    BY DEF Rates!TypeOK, Rates!Times
  <2>2. s \in Seq(Nat)
    BY <2>1, TimesAreNumbers
  <2>. QED  BY <2>1, <2>2 DEF LogInv
<1>2. PICK e \in 0 .. Len(s) : \A i \in 1 .. Len(s) : Rates!Within(s[i], clock) <=> i > e
  <2>. HIDE DEF s
  <2>. QED  BY <1>1, PrunedTimes
<1>3. Len(s) \in Nat /\ \A i \in 1 .. Len(s) : s[i] \in Nat
  <2>. HIDE DEF s
  <2>. QED  BY <1>1, LenProperties, ElementOfSeq
<1>4. Rates!Recent(k, clock) = e + 1 .. Len(s)
  BY <1>2, <1>3 DEF Rates!Recent
<1>5. Cardinality(Rates!Recent(k, clock)) = Len(s) - e
  <2>1. e + 1 \in Int /\ Len(s) \in Int
    BY <1>3
  <2>2. Cardinality(e + 1 .. Len(s)) = IF e + 1 > Len(s) THEN 0 ELSE Len(s) - (e + 1) + 1
    BY <2>1, FS_Interval
  <2>3. \A x \in Nat : \A y \in 0 .. x : x - y = IF y + 1 > x THEN 0 ELSE x - (y + 1) + 1
    OBVIOUS
  <2>. HIDE DEF s
  <2>. QED  BY <1>3, <1>4, <2>2, <2>3
<1>6. ASSUME e < Len(s)
      PROVE  Rates!Min({s[i] : i \in Rates!Recent(k, clock)}) = s[e + 1]
  <2>. DEFINE T == {s[i] : i \in e + 1 .. Len(s)}
  <2>1. e + 1 \in e + 1 .. Len(s) /\ \A i \in e + 1 .. Len(s) : i \in 1 .. Len(s) /\ e + 1 \in 1 .. Len(s)
    BY <1>3, <1>6
  <2>2. T \in SUBSET Nat /\ s[e + 1] \in T /\ \A y \in T : s[e + 1] <= y
    BY <1>1, <1>3, <2>1
  <2>. HIDE DEF T
  <2>3. Rates!Min(T) = s[e + 1]
    BY <2>2, MinUnique
  <2>. QED  BY <1>4, <2>3 DEF T
<1>. QED  BY <1>2, <1>4, <1>5, <1>6

LEMMA CountedIsFinite ==
    ASSUME NEW now
    PROVE  IsFiniteSet(Rates!Counted(now)) /\ Cardinality(Rates!Counted(now)) \in Nat /\ Rates!Counted(now) \subseteq RateKeys
<1>1. Rates!Counted(now) \in SUBSET RateKeys
  BY DEF Rates!Counted
<1>2. IsFiniteSet(Rates!Counted(now))
  BY <1>1, RateFacts, FS_Subset
<1>. QED  BY <1>1, <1>2, FS_CardinalityType

-----------------------------------------------------------------------------
(* The log.                                                                *)

LEMMA Typed ==
    ASSUME Rates!TypeOK
    PROVE  /\ clock \in Nat /\ clock \in Rates!Times /\ clock >= 1
           /\ \A k \in RateKeys : /\ last[k] \in Nat /\ Len(log[k]) \in Nat
                                  /\ \A i \in 1 .. Len(log[k]) : log[k][i] \in Nat /\ log[k][i] >= 1
<1>1. clock \in Nat /\ clock >= 1
  BY RateFacts DEF Rates!TypeOK, Rates!Times
<1>2. ASSUME NEW k \in RateKeys
      PROVE  /\ last[k] \in Nat /\ Len(log[k]) \in Nat
             /\ \A i \in 1 .. Len(log[k]) : log[k][i] \in Nat /\ log[k][i] >= 1
  <2>1. last[k] \in {0} \cup 1 .. MaxTime /\ log[k] \in Seq(1 .. MaxTime)
    BY DEF Rates!TypeOK, Rates!Times
  <2>2. \A i \in 1 .. Len(log[k]) : log[k][i] \in 1 .. MaxTime
    BY <2>1, ElementOfSeq
  <2>. QED  BY <2>1, <2>2, LenProperties
<1>. QED  BY <1>1, <1>2 DEF Rates!TypeOK

LEMMA RecentIsFinite ==
    ASSUME Rates!TypeOK, NEW k \in RateKeys, NEW now
    PROVE  IsFiniteSet(Rates!Recent(k, now)) /\ Cardinality(Rates!Recent(k, now)) \in Nat
<1>1. IsFiniteSet(1 .. Len(log[k]))
  <2>1. 1 \in Int /\ Len(log[k]) \in Int
    BY Typed
  <2>. QED  BY <2>1, FS_Interval
<1>2. Rates!Recent(k, now) \in SUBSET (1 .. Len(log[k]))
  BY DEF Rates!Recent
<1>3. IsFiniteSet(Rates!Recent(k, now))
  BY <1>1, <1>2, FS_Subset
<1>. QED  BY <1>3, FS_CardinalityType

(* With time, less is recent and fewer keys are counted.                   *)
LEMMA TimeForgets ==
    ASSUME Rates!TypeOK, NEW now \in Nat, now >= clock
    PROVE  /\ Rates!Counted(now) \subseteq Rates!Counted(clock)
           /\ Cardinality(Rates!Counted(now)) <= Cardinality(Rates!Counted(clock))
           /\ \A k \in RateKeys : /\ Rates!Recent(k, now) \subseteq Rates!Recent(k, clock)
                                  /\ Cardinality(Rates!Recent(k, now)) <= Cardinality(Rates!Recent(k, clock))
<1>1. \A t \in Nat : Rates!Within(t, now) => Rates!Within(t, clock)
  BY Typed, RateFacts DEF Rates!Within
<1>2. Rates!Counted(now) \in SUBSET Rates!Counted(clock)
  BY <1>1, Typed DEF Rates!Counted
<1>3. Cardinality(Rates!Counted(now)) <= Cardinality(Rates!Counted(clock))
  BY <1>2, CountedIsFinite, FS_Subset
<1>4. ASSUME NEW k \in RateKeys
      PROVE  /\ Rates!Recent(k, now) \subseteq Rates!Recent(k, clock)
             /\ Cardinality(Rates!Recent(k, now)) <= Cardinality(Rates!Recent(k, clock))
  <2>1. Rates!Recent(k, now) \in SUBSET Rates!Recent(k, clock)
    BY <1>1, Typed DEF Rates!Recent
  <2>. QED  BY <2>1, RecentIsFinite, FS_Subset
<1>. QED  BY <1>2, <1>3, <1>4

(* Whose requests are recent is counted.                                   *)
LEMMA RecentIsCounted ==
    ASSUME Rates!TypeOK, LogInv, NEW k \in RateKeys, NEW now \in Nat, Rates!Recent(k, now) # {}
    PROVE  k \in Rates!Counted(now)
<1>1. PICK i \in 1 .. Len(log[k]) : Rates!Within(log[k][i], now)
  BY DEF Rates!Recent
<1>2. log[k][i] <= last[k] /\ log[k][i] \in Nat /\ log[k][i] >= 1 /\ last[k] \in Nat
  BY Typed DEF LogInv
<1>. QED  BY <1>1, <1>2, RateFacts DEF Rates!Within, Rates!Counted

LEMMA TickKeepsLog == Rates!TypeOK /\ LogInv /\ Rates!Tick => LogInv'
<1>. SUFFICES ASSUME Rates!TypeOK, LogInv, Rates!Tick  PROVE LogInv'
  OBVIOUS
<1>1. clock' = clock + 1 /\ log' = log /\ last' = last
  BY DEF Rates!Tick
<1>2. clock + 1 \in Nat /\ clock + 1 >= clock /\ clock \in Nat
  BY Typed
<1>3. Rates!Counted(clock)' = Rates!Counted(clock + 1) /\ \A k \in RateKeys : Rates!Recent(k, clock)' = Rates!Recent(k, clock + 1)
  BY <1>1 DEF Rates!Counted, Rates!Recent
<1>4. Cardinality(Rates!Counted(clock + 1)) <= MaxKeys
  BY <1>2, TimeForgets, CountedIsFinite, RateFacts DEF LogInv
<1>5. \A k \in RateKeys : Cardinality(Rates!Recent(k, clock + 1)) <= RateLimit
  <2>. TAKE k \in RateKeys
  <2>1. Cardinality(Rates!Recent(k, clock + 1)) <= Cardinality(Rates!Recent(k, clock))
    BY <1>2, TimeForgets
  <2>2. Cardinality(Rates!Recent(k, clock)) <= RateLimit
    BY DEF LogInv
  <2>. QED  BY <2>1, <2>2, <1>2, RecentIsFinite, RateFacts
<1>6. \A k \in RateKeys : last[k] <= clock + 1
  BY <1>2, Typed DEF LogInv
<1>7. Cardinality(Rates!Counted(clock))' <= MaxKeys
  BY <1>3, <1>4
<1>8. \A k \in RateKeys : Cardinality(Rates!Recent(k, clock))' <= RateLimit
  BY <1>3, <1>5
<1>. QED  BY <1>1, <1>6, <1>7, <1>8 DEF LogInv

LEMMA RecordsTypes ==
    ASSUME Rates!TypeOK, NEW k \in RateKeys, NEW now \in Rates!Times, NEW v, Rates!Records(k, now, v)
    PROVE  /\ log' \in [RateKeys -> Seq(Rates!Times)] /\ last' \in [RateKeys -> {0} \cup Rates!Times]
<1>1. Append(log[k], now) \in Seq(Rates!Times)
  BY DEF Rates!TypeOK
<1>2. Rates!Max({last[k], now}) \in {0} \cup Rates!Times
  <2>1. last[k] \in Int /\ now \in Int /\ last[k] \in {0} \cup Rates!Times
    BY DEF Rates!TypeOK, Rates!Times
  <2>. QED  BY <2>1, MaxOfTwo
<1>. QED  BY <1>1, <1>2 DEF Rates!Records, Rates!TypeOK

(* What Records() does at the time of the clock.                           *)
LEMMA RecordsAtClock ==
    ASSUME Rates!TypeOK, LogInv, NEW k \in RateKeys, NEW v, Rates!Records(k, clock, v)
    PROVE  /\ log' = IF v = Rates!Accepted THEN [log EXCEPT ![k] = Append(log[k], clock)] ELSE log
           /\ last' = IF v.answer # "full" THEN [last EXCEPT ![k] = clock] ELSE last
<1>1. Rates!Max({last[k], clock}) = clock
  <2>1. last[k] \in Int /\ clock \in Int /\ last[k] <= clock
    BY Typed DEF LogInv
  <2>. QED  BY <2>1, MaxOfTwo
<1>. QED  BY <1>1 DEF Rates!Records

LEMMA VerdictAnswers ==
    /\ Rates!Accepted.answer = "accepted"
    /\ \A a, e, n : Rates!Refused(a, e, n).answer = a
    /\ \A e, n : Rates!Refused("full", e, n) # Rates!Accepted /\ Rates!Refused("limited", e, n) # Rates!Accepted
BY DEF Rates!Accepted, Rates!Refused

LEMMA RecordsKeepLog ==
    ASSUME Rates!TypeOK, LogInv, clock' = clock, NEW k \in RateKeys, Rates!Records(k, clock, Rates!Promised(k, clock))
    PROVE  LogInv'
<1>. DEFINE v == Rates!Promised(k, clock)
<1>1. /\ log' = IF v = Rates!Accepted THEN [log EXCEPT ![k] = Append(log[k], clock)] ELSE log
      /\ last' = IF v.answer # "full" THEN [last EXCEPT ![k] = clock] ELSE last
  BY RecordsAtClock
<1>2. /\ v.answer = "full" => v # Rates!Accepted
      /\ v = Rates!Accepted => Cardinality(Rates!Recent(k, clock)) < RateLimit
      /\ v.answer # "full" => k \in Rates!Counted(clock) \/ Cardinality(Rates!Counted(clock)) < MaxKeys
  BY VerdictAnswers, RecentIsFinite, CountedIsFinite, RateFacts, RatesCardinality DEF Rates!Promised
<1>. HIDE DEF v
<1>3. log \in [RateKeys -> Seq(Rates!Times)] /\ last \in [RateKeys -> {0} \cup Rates!Times]
  BY DEF Rates!TypeOK
<1>4. Rates!Within(clock, clock) /\ clock \in Nat /\ clock >= 1
  BY Typed, RateFacts DEF Rates!Within
<1>5. Cardinality(Rates!Counted(clock))' <= MaxKeys
  <2>1. CASE v.answer = "full"
    <3>1. Rates!Counted(clock)' = Rates!Counted(clock)
      BY <1>1, <2>1 DEF Rates!Counted
    <3>. QED  BY <3>1 DEF LogInv
  <2>2. CASE v.answer # "full"
    <3>1. Rates!Counted(clock)' = Rates!Counted(clock) \cup {k}
      BY <1>1, <1>3, <1>4, <2>2 DEF Rates!Counted
    <3>2. Cardinality(Rates!Counted(clock) \cup {k}) =
             IF k \in Rates!Counted(clock) THEN Cardinality(Rates!Counted(clock)) ELSE Cardinality(Rates!Counted(clock)) + 1
      BY CountedIsFinite, FS_AddElement
    <3>3. Cardinality(Rates!Counted(clock)) <= MaxKeys /\ Cardinality(Rates!Counted(clock)) \in Nat
      BY CountedIsFinite DEF LogInv
    <3>4. Cardinality(Rates!Counted(clock) \cup {k}) <= MaxKeys
      BY <1>2, <2>2, <3>2, <3>3, RateFacts
    <3>. QED  BY <3>1, <3>4
  <2>. QED  BY <2>1, <2>2
<1>6. ASSUME NEW j \in RateKeys
      PROVE  /\ last'[j] <= clock
             /\ \A i \in 1 .. Len(log'[j]) : log'[j][i] <= last'[j]
             /\ \A i, h \in 1 .. Len(log'[j]) : i <= h => log'[j][i] <= log'[j][h]
             /\ Cardinality(Rates!Recent(j, clock)') <= RateLimit
  <2>1. /\ last[j] <= clock /\ last[j] \in Nat /\ Len(log[j]) \in Nat
        /\ \A i \in 1 .. Len(log[j]) : log[j][i] <= last[j] /\ log[j][i] \in Nat
        /\ \A i, h \in 1 .. Len(log[j]) : i <= h => log[j][i] <= log[j][h]
        /\ Cardinality(Rates!Recent(j, clock)) <= RateLimit
    BY Typed DEF LogInv
  <2>2. CASE j # k
    <3>1. log'[j] = log[j] /\ last'[j] = last[j]
      BY <1>1, <1>3, <2>2
    <3>2. Rates!Recent(j, clock)' = Rates!Recent(j, clock)
      BY <3>1 DEF Rates!Recent
    <3>. QED  BY <2>1, <3>1, <3>2
  <2>3. CASE j = k /\ v # Rates!Accepted
    <3>1. log'[j] = log[j] /\ last'[j] \in {last[j], clock}
      BY <1>1, <1>3, <2>3
    <3>2. Rates!Recent(j, clock)' = Rates!Recent(j, clock)
      BY <3>1 DEF Rates!Recent
    <3>3. \A i \in 1 .. Len(log[j]) : log[j][i] <= clock
      BY <1>4, <2>1
    <3>. QED  BY <1>4, <2>1, <3>1, <3>2, <3>3
  <2>4. CASE j = k /\ v = Rates!Accepted
    <3>1. log'[j] = Append(log[j], clock) /\ last'[j] = clock
      BY <1>1, <1>2, <1>3, <2>4
    <3>2. /\ Len(Append(log[j], clock)) = Len(log[j]) + 1
          /\ \A i \in 1 .. Len(log[j]) + 1 :
                Append(log[j], clock)[i] = IF i = Len(log[j]) + 1 THEN clock ELSE log[j][i]
      <4>1. log[j] \in Seq(Rates!Times) /\ clock \in Rates!Times
        BY Typed DEF Rates!TypeOK
      <4>. QED  BY <4>1, AppendProperties
    <3>3. \A i \in 1 .. Len(log[j]) + 1 : i # Len(log[j]) + 1 => i \in 1 .. Len(log[j])
      BY <2>1
    <3>4. \A i \in 1 .. Len(log[j]) : log[j][i] <= clock
      BY <1>4, <2>1
    <3>5. \A i, h \in 1 .. Len(log'[j]) : i <= h => log'[j][i] <= log'[j][h]
      <4>. TAKE i, h \in 1 .. Len(log'[j])
      <4>1. i \in 1 .. Len(log[j]) + 1 /\ h \in 1 .. Len(log[j]) + 1
        BY <3>1, <3>2
      <4>2. CASE h = Len(log[j]) + 1
        BY <3>1, <3>2, <3>3, <3>4, <4>1, <4>2, <1>4
      <4>3. CASE h # Len(log[j]) + 1
        <5>1. i <= h => i \in 1 .. Len(log[j]) /\ h \in 1 .. Len(log[j]) /\ i # Len(log[j]) + 1
          BY <4>1, <4>3, <2>1
        <5>. QED  BY <2>1, <3>1, <3>2, <4>1, <4>3, <5>1
      <4>. QED  BY <4>2, <4>3
    <3>6. Rates!Recent(j, clock)' = Rates!Recent(j, clock) \cup {Len(log[j]) + 1}
      BY <1>4, <2>1, <3>1, <3>2, <3>3 DEF Rates!Recent
    <3>7. Len(log[j]) + 1 \notin Rates!Recent(j, clock)
      BY <2>1 DEF Rates!Recent
    <3>8. Cardinality(Rates!Recent(j, clock) \cup {Len(log[j]) + 1}) = Cardinality(Rates!Recent(j, clock)) + 1
      BY <3>7, RecentIsFinite, FS_AddElement
    <3>9. Cardinality(Rates!Recent(j, clock)) < RateLimit
      BY <1>2, <2>4
    <3>10. Cardinality(Rates!Recent(j, clock)') <= RateLimit
      BY <3>6, <3>8, <3>9, RecentIsFinite, RateFacts
    <3>11. \A i \in 1 .. Len(log'[j]) : log'[j][i] <= clock
      BY <1>4, <3>1, <3>2, <3>3, <3>4
    <3>. QED  BY <1>4, <3>1, <3>5, <3>10, <3>11
  <2>. QED  BY <2>2, <2>3, <2>4
<1>. QED  BY <1>5, <1>6 DEF LogInv

-----------------------------------------------------------------------------
(* A caller that is refused is told the time at which it is accepted.      *)

LEMMA WaitIs ==
    ASSUME NEW expires \in Nat, NEW now \in Nat, expires > now
    PROVE  Rates!Wait(expires, now) = expires - now
<1>1. 1 \in Int /\ expires - now \in Int
  OBVIOUS
<1>2. Rates!Max({1, expires - now}) = IF 1 >= expires - now THEN 1 ELSE expires - now
  BY <1>1, MaxOfTwo
<1>. QED  BY <1>2 DEF Rates!Wait

LEMMA FullIsHonest ==
    ASSUME Rates!TypeOK, LogInv, NEW k \in RateKeys,
           k \notin Rates!Counted(clock), Cardinality(Rates!Counted(clock)) >= MaxKeys
    PROVE  LET told == Rates!Promised(k, clock) IN
           /\ Rates!Promised(k, clock + told.retry) = Rates!Accepted
           /\ \A s \in 1 .. told.retry - 1 : Rates!Promised(k, clock + s) # Rates!Accepted
<1>. DEFINE C == Rates!Counted(clock)
            first == Rates!Min({last[j] : j \in C})
            until == first + RateWindow
<1>1. /\ clock \in Nat /\ C \subseteq RateKeys /\ IsFiniteSet(C) /\ Cardinality(C) \in Nat
      /\ Cardinality(C) = MaxKeys
      /\ \A j \in C : last[j] \in Nat /\ last[j] > 0 /\ last[j] + RateWindow > clock
      /\ MaxKeys \in Nat /\ MaxKeys >= 1 /\ RateWindow \in Nat /\ RateWindow >= 1 /\ RateLimit \in Nat /\ RateLimit >= 1
  <2>1. C \subseteq RateKeys /\ IsFiniteSet(C) /\ Cardinality(C) \in Nat
    BY CountedIsFinite
  <2>2. Cardinality(C) <= MaxKeys
    BY DEF LogInv
  <2>3. Cardinality(C) = MaxKeys
    BY <2>1, <2>2, RateFacts
  <2>4. \A j \in C : last[j] \in Nat /\ last[j] > 0 /\ last[j] + RateWindow > clock
    BY Typed DEF Rates!Counted, Rates!Within
  <2>. QED  BY <2>1, <2>3, <2>4, Typed, RateFacts
<1>2. C # {}
  BY <1>1, FS_EmptySet
<1>3. first \in {last[j] : j \in C} /\ \A j \in C : first <= last[j]
  <2>. DEFINE T == {last[j] : j \in C}
  <2>1. T \in SUBSET Nat /\ T # {}
    BY <1>1, <1>2
  <2>2. \A j \in C : last[j] \in T
    OBVIOUS
  <2>. HIDE DEF T
  <2>3. Rates!Min(T) \in T /\ \A y \in T : Rates!Min(T) <= y
    BY <2>1, MinIs
  <2>. QED  BY <2>2, <2>3 DEF T
<1>4. PICK o \in C : first = last[o]
  BY <1>3
<1>. HIDE DEF first
<1>5. first \in Nat /\ until \in Nat /\ until > clock
  BY <1>1, <1>4
<1>6. Rates!Promised(k, clock) = Rates!Refused("full", until, clock) /\ Rates!Wait(until, clock) = until - clock
  <2>1. Rates!Promised(k, clock) = Rates!Refused("full", until, clock)
    BY RatesCardinality DEF Rates!Promised, first
  <2>. HIDE DEF until
  <2>. QED  BY <1>1, <1>5, <2>1, WaitIs
<1>7. Rates!Promised(k, clock).retry = until - clock
  BY <1>6 DEF Rates!Refused
<1>8. k \notin Rates!Counted(until) /\ Rates!Recent(k, until) = {}
  <2>1. until \in Nat /\ until >= clock
    BY <1>1, <1>5
  <2>2. k \notin Rates!Counted(until)
    BY <2>1, TimeForgets
  <2>. QED  BY <2>1, <2>2, RecentIsCounted
<1>9. Cardinality(Rates!Counted(until)) < MaxKeys
  <2>1. until \in Nat /\ until >= clock
    BY <1>1, <1>5
  <2>2. Rates!Counted(until) \subseteq C
    BY <2>1, TimeForgets
  <2>3. o \notin Rates!Counted(until)
    BY <1>4, <1>5 DEF Rates!Counted, Rates!Within
  <2>4. Rates!Counted(until) \in SUBSET (C \ {o})
    BY <2>2, <2>3
  <2>5. IsFiniteSet(C \ {o}) /\ Cardinality(C \ {o}) = Cardinality(C) - 1
    BY <1>1, FS_RemoveElement
  <2>6. Cardinality(Rates!Counted(until)) <= Cardinality(C \ {o})
    BY <2>4, <2>5, FS_Subset
  <2>. QED  BY <1>1, <2>5, <2>6, CountedIsFinite
<1>10. Rates!Promised(k, until) = Rates!Accepted
  <2>1. Cardinality(Rates!Recent(k, until)) = 0
    BY <1>8, FS_EmptySet
  <2>2. ~(Cardinality(Rates!Recent(k, until)) >= RateLimit)
    BY <2>1, <1>1
  <2>3. ~(Cardinality(Rates!Counted(until)) >= MaxKeys)
    BY <1>1, <1>9, CountedIsFinite
  <2>. QED  BY <2>2, <2>3, RatesCardinality DEF Rates!Promised
<1>11. clock + (until - clock) = until
  BY <1>1, <1>5
<1>12. ASSUME NEW s \in 1 .. until - clock - 1
       PROVE  Rates!Promised(k, clock + s) # Rates!Accepted
  <2>1. clock + s \in Nat /\ clock + s >= clock /\ clock + s < until
    BY <1>1, <1>5
  <2>2. Rates!Counted(clock + s) \subseteq C
    BY <2>1, TimeForgets
  <2>3. \A j \in C : j \in Rates!Counted(clock + s)
    BY <1>1, <1>3, <1>5, <2>1 DEF Rates!Counted, Rates!Within
  <2>4. Rates!Counted(clock + s) = C
    BY <2>2, <2>3
  <2>5. Rates!Promised(k, clock + s) = Rates!Refused("full", until, clock + s)
    BY <2>4, RatesCardinality DEF Rates!Promised, first
  <2>. QED  BY <2>5, VerdictAnswers
<1>. HIDE DEF until
<1>. QED  BY <1>7, <1>10, <1>11, <1>12

LEMMA LimitIsHonest ==
    ASSUME Rates!TypeOK, LogInv, NEW k \in RateKeys, Cardinality(Rates!Recent(k, clock)) >= RateLimit,
           k \in Rates!Counted(clock) \/ ~(Cardinality(Rates!Counted(clock)) >= MaxKeys)
    PROVE  LET told == Rates!Promised(k, clock) IN
           /\ Rates!Promised(k, clock + told.retry) = Rates!Accepted
           /\ \A s \in 1 .. told.retry - 1 : Rates!Promised(k, clock + s) # Rates!Accepted
<1>. DEFINE R == Rates!Recent(k, clock)
            first == Rates!Min({log[k][i] : i \in R})
            until == first + RateWindow
<1>1. /\ clock \in Nat /\ IsFiniteSet(R) /\ Cardinality(R) \in Nat /\ Cardinality(R) = RateLimit
      /\ \A i \in R : i \in 1 .. Len(log[k]) /\ log[k][i] \in Nat /\ log[k][i] + RateWindow > clock
      /\ MaxKeys \in Nat /\ MaxKeys >= 1 /\ RateWindow \in Nat /\ RateWindow >= 1 /\ RateLimit \in Nat /\ RateLimit >= 1
  <2>1. IsFiniteSet(R) /\ Cardinality(R) \in Nat
    BY RecentIsFinite
  <2>2. Cardinality(R) <= RateLimit
    BY DEF LogInv
  <2>3. Cardinality(R) = RateLimit
    BY <2>1, <2>2, RateFacts
  <2>4. \A i \in R : i \in 1 .. Len(log[k]) /\ log[k][i] \in Nat /\ log[k][i] + RateWindow > clock
    BY Typed DEF Rates!Recent, Rates!Within
  <2>. QED  BY <2>1, <2>3, <2>4, Typed, RateFacts
<1>2. R # {}
  BY <1>1, FS_EmptySet
<1>3. first \in {log[k][i] : i \in R} /\ \A i \in R : first <= log[k][i]
  <2>. DEFINE T == {log[k][i] : i \in R}
  <2>1. T \in SUBSET Nat /\ T # {}
    BY <1>1, <1>2
  <2>2. \A i \in R : log[k][i] \in T
    OBVIOUS
  <2>. HIDE DEF T
  <2>3. Rates!Min(T) \in T /\ \A y \in T : Rates!Min(T) <= y
    BY <2>1, MinIs
  <2>. QED  BY <2>2, <2>3 DEF T
<1>4. PICK o \in R : first = log[k][o]
  BY <1>3
<1>. HIDE DEF first
<1>5. first \in Nat /\ until \in Nat /\ until > clock
  BY <1>1, <1>4
<1>6. Rates!Promised(k, clock) = Rates!Refused("limited", until, clock) /\ Rates!Wait(until, clock) = until - clock
  <2>1. Rates!Promised(k, clock) = Rates!Refused("limited", until, clock)
    BY RatesCardinality DEF Rates!Promised, first
  <2>. HIDE DEF until
  <2>. QED  BY <1>1, <1>5, <2>1, WaitIs
<1>7. Rates!Promised(k, clock).retry = until - clock
  BY <1>6 DEF Rates!Refused
<1>8. k \in Rates!Counted(clock)
  BY <1>1, <1>2, RecentIsCounted
<1>9. until \in Nat /\ until >= clock
  BY <1>1, <1>5
<1>10. Cardinality(Rates!Recent(k, until)) < RateLimit
  <2>1. Rates!Recent(k, until) \subseteq R
    BY <1>9, TimeForgets
  <2>2. o \notin Rates!Recent(k, until)
    BY <1>4, <1>5 DEF Rates!Recent, Rates!Within
  <2>3. Rates!Recent(k, until) \in SUBSET (R \ {o})
    BY <2>1, <2>2
  <2>4. IsFiniteSet(R \ {o}) /\ Cardinality(R \ {o}) = Cardinality(R) - 1
    BY <1>1, FS_RemoveElement
  <2>5. Cardinality(Rates!Recent(k, until)) <= Cardinality(R \ {o})
    BY <2>3, <2>4, FS_Subset
  <2>. QED  BY <1>1, <2>4, <2>5, RecentIsFinite
<1>11. k \notin Rates!Counted(until) => Cardinality(Rates!Counted(until)) < MaxKeys
  <2>. SUFFICES ASSUME k \notin Rates!Counted(until)  PROVE Cardinality(Rates!Counted(until)) < MaxKeys
    OBVIOUS
  <2>1. Rates!Counted(until) \in SUBSET (Rates!Counted(clock) \ {k})
    BY <1>9, TimeForgets
  <2>2. IsFiniteSet(Rates!Counted(clock)) /\ Cardinality(Rates!Counted(clock)) \in Nat
        /\ Cardinality(Rates!Counted(clock)) <= MaxKeys
    BY CountedIsFinite DEF LogInv
  <2>3. IsFiniteSet(Rates!Counted(clock) \ {k}) /\ Cardinality(Rates!Counted(clock) \ {k}) = Cardinality(Rates!Counted(clock)) - 1
    BY <1>8, <2>2, FS_RemoveElement
  <2>4. Cardinality(Rates!Counted(until)) <= Cardinality(Rates!Counted(clock) \ {k})
    BY <2>1, <2>3, FS_Subset
  <2>. QED  BY <1>1, <2>2, <2>3, <2>4, CountedIsFinite
<1>12. Rates!Promised(k, until) = Rates!Accepted
  <2>1. ~(Cardinality(Rates!Recent(k, until)) >= RateLimit)
    BY <1>1, <1>10, RecentIsFinite
  <2>2. k \notin Rates!Counted(until) => ~(Cardinality(Rates!Counted(until)) >= MaxKeys)
    BY <1>1, <1>11, CountedIsFinite
  <2>. QED  BY <2>1, <2>2, RatesCardinality DEF Rates!Promised
<1>13. clock + (until - clock) = until
  BY <1>1, <1>5
<1>14. ASSUME NEW s \in 1 .. until - clock - 1
       PROVE  Rates!Promised(k, clock + s) # Rates!Accepted
  <2>1. clock + s \in Nat /\ clock + s >= clock /\ clock + s < until
    BY <1>1, <1>5
  <2>2. Rates!Recent(k, clock + s) \subseteq R
    BY <2>1, TimeForgets
  <2>3. \A i \in R : i \in Rates!Recent(k, clock + s)
    BY <1>1, <1>3, <1>5, <2>1 DEF Rates!Recent, Rates!Within
  <2>4. Rates!Recent(k, clock + s) = R
    BY <2>2, <2>3
  <2>5. k \in Rates!Counted(clock + s)
    BY <1>2, <2>1, <2>4, RecentIsCounted
  <2>6. Rates!Promised(k, clock + s) = Rates!Refused("limited", until, clock + s)
    BY <1>1, <2>4, <2>5, RatesCardinality DEF Rates!Promised, first
  <2>. QED  BY <2>6, VerdictAnswers
<1>. HIDE DEF until
<1>. QED  BY <1>7, <1>12, <1>13, <1>14

LEMMA RetriesHonest == Rates!TypeOK /\ (~late => LogInv) => Rates!RetriesAreHonest
<1>. SUFFICES ASSUME Rates!TypeOK, LogInv, NEW k \in RateKeys, Rates!Promised(k, clock) # Rates!Accepted
              PROVE  LET told == Rates!Promised(k, clock) IN
                     /\ Rates!Promised(k, clock + told.retry) = Rates!Accepted
                     /\ \A s \in 1 .. told.retry - 1 : Rates!Promised(k, clock + s) # Rates!Accepted
  BY DEF Rates!RetriesAreHonest
<1>1. CASE k \notin Rates!Counted(clock) /\ Cardinality(Rates!Counted(clock)) >= MaxKeys
  BY <1>1, FullIsHonest
<1>2. CASE ~(k \notin Rates!Counted(clock) /\ Cardinality(Rates!Counted(clock)) >= MaxKeys)
  <2>1. Cardinality(Rates!Recent(k, clock)) >= RateLimit
    BY <1>2, RatesCardinality DEF Rates!Promised
  <2>. QED  BY <1>2, <2>1, LimitIsHonest
<1>. QED  BY <1>1, <1>2

-----------------------------------------------------------------------------
(* The limiter in memory.                                                  *)

LEMMA KeptIsTail ==
    ASSUME Rates!TypeOK, MemoryInv
    PROVE  \E n \in 1 .. Len(buckets) + 1 :
              /\ Rates!Kept = SubSeq(buckets, n, Len(buckets))
              /\ \A i \in 1 .. Len(buckets) : Rates!Within(buckets[i].last, clock) <=> i >= n
<1>. DEFINE I == {i \in 1 .. Len(buckets) : Rates!Within(buckets[i].last, clock)}
            n == Rates!Min(I \cup {Len(buckets) + 1})
<1>1. Len(buckets) \in Nat /\ \A i \in 1 .. Len(buckets) : buckets[i] \in Rates!Buckets /\ buckets[i].last \in Nat
  <2>1. buckets \in Seq(Rates!Buckets)
    BY DEF Rates!TypeOK
  <2>2. Len(buckets) \in Nat /\ \A i \in 1 .. Len(buckets) : buckets[i] \in Rates!Buckets
    BY <2>1, LenProperties, ElementOfSeq
  <2>. QED  BY <2>2 DEF Rates!Buckets, Rates!Times
<1>2. I \cup {Len(buckets) + 1} \in SUBSET Nat
  BY <1>1
<1>3. n \in I \cup {Len(buckets) + 1} /\ \A y \in I \cup {Len(buckets) + 1} : n <= y
  <2>. HIDE DEF I
  <2>. QED  BY <1>2, MinIs
<1>4. n \in 1 .. Len(buckets) + 1
  BY <1>1, <1>3
<1>. HIDE DEF n
<1>5. ASSUME NEW i \in 1 .. Len(buckets)
      PROVE  Rates!Within(buckets[i].last, clock) <=> i >= n
  <2>1. Rates!Within(buckets[i].last, clock) => i >= n
    BY <1>3, <1>4
  <2>2. ASSUME i >= n  PROVE Rates!Within(buckets[i].last, clock)
    <3>1. n \in I
      BY <1>1, <1>3, <1>4, <2>2
    <3>2. n \in 1 .. Len(buckets) /\ buckets[n].last <= buckets[i].last /\ buckets[n].last + RateWindow > clock
      BY <3>1, <2>2, <1>4 DEF Rates!Within, MemoryInv, Ordered
    <3>. QED  BY <3>2, <1>1, Typed, RateFacts DEF Rates!Within
  <2>. QED  BY <2>1, <2>2
<1>6. Rates!Kept = SubSeq(buckets, n, Len(buckets))
  BY DEF Rates!Kept, n
<1>. QED  BY <1>4, <1>5, <1>6

LEMMA LimiterKeeps ==
    ASSUME Rates!TypeOK, MemoryInv
    PROVE  /\ Rates!Kept \in Seq(Rates!Buckets) /\ Ordered(Rates!Kept)
           /\ \A i \in 1 .. Len(Rates!Kept) : Rates!Kept[i].key \in Rates!Counted(clock)
           /\ \A k \in Rates!Counted(clock) : \E i \in 1 .. Len(Rates!Kept) : Rates!Kept[i].key = k
           /\ Len(Rates!Kept) = Cardinality(Rates!Counted(clock))
<1>1. PICK n \in 1 .. Len(buckets) + 1 :
              /\ Rates!Kept = SubSeq(buckets, n, Len(buckets))
              /\ \A i \in 1 .. Len(buckets) : Rates!Within(buckets[i].last, clock) <=> i >= n
  BY KeptIsTail
<1>2. buckets \in Seq(Rates!Buckets) /\ Len(buckets) \in Nat
      /\ \A i \in 1 .. Len(buckets) : buckets[i] \in Rates!Buckets
  BY LenProperties, ElementOfSeq DEF Rates!TypeOK
<1>. DEFINE m == Len(buckets) - n + 1
<1>3. Rates!Kept \in Seq(Rates!Buckets) /\ Len(Rates!Kept) = m /\ \A i \in 1 .. m : Rates!Kept[i] = buckets[n + i - 1]
  BY <1>1, <1>2, TailOf
<1>4. /\ m \in Nat
      /\ \A i \in 1 .. m : n + i - 1 \in 1 .. Len(buckets) /\ n + i - 1 >= n
      /\ \A j \in 1 .. Len(buckets) : j >= n => j - n + 1 \in 1 .. m /\ n + (j - n + 1) - 1 = j
  BY <1>2
<1>. HIDE DEF m
<1>5. Ordered(Rates!Kept)
  <2>1. \A i \in 1 .. m : FollowsLog(Rates!Kept[i])
    BY <1>3, <1>4 DEF MemoryInv, Ordered
  <2>2. ASSUME NEW i \in 1 .. m, NEW j \in 1 .. m, i <= j
        PROVE  Rates!Kept[i].last <= Rates!Kept[j].last
    <3>1. n + i - 1 <= n + j - 1 /\ n + i - 1 \in 1 .. Len(buckets) /\ n + j - 1 \in 1 .. Len(buckets)
      BY <1>4, <2>2
    <3>2. buckets[n + i - 1].last <= buckets[n + j - 1].last
      BY <3>1 DEF MemoryInv, Ordered
    <3>. QED  BY <1>3, <3>2
  <2>3. ASSUME NEW i \in 1 .. m, NEW j \in 1 .. m, Rates!Kept[i].key = Rates!Kept[j].key
        PROVE  i = j
    <3>1. n + i - 1 = n + j - 1
      <4>1. n + i - 1 \in 1 .. Len(buckets) /\ n + j - 1 \in 1 .. Len(buckets)
        BY <1>4
      <4>2. buckets[n + i - 1].key = buckets[n + j - 1].key
        BY <1>3, <2>3
      <4>. QED  BY <4>1, <4>2 DEF MemoryInv, Ordered
    <3>. QED  BY <3>1
  <2>. QED  BY <1>3, <2>1, <2>2, <2>3 DEF Ordered
<1>6. ASSUME NEW i \in 1 .. m  PROVE Rates!Kept[i].key \in Rates!Counted(clock)
  <2>1. Rates!Kept[i] \in Rates!Buckets /\ Rates!Within(Rates!Kept[i].last, clock)
    BY <1>1, <1>2, <1>3, <1>4
  <2>2. Rates!Kept[i].last = last[Rates!Kept[i].key] /\ last[Rates!Kept[i].key] > 0
    BY <1>3, <1>5 DEF Ordered, FollowsLog
  <2>. QED  BY <2>1, <2>2 DEF Rates!Counted, Rates!Buckets
<1>7. ASSUME NEW k \in Rates!Counted(clock)  PROVE \E i \in 1 .. m : Rates!Kept[i].key = k
  <2>1. PICK j \in 1 .. Len(buckets) : buckets[j].key = k
    BY DEF MemoryInv
  <2>2. buckets[j].last = last[k] /\ Rates!Within(last[k], clock)
    BY <2>1 DEF MemoryInv, Ordered, FollowsLog, Rates!Counted
  <2>3. j >= n
    BY <1>1, <2>2
  <2>4. j - n + 1 \in 1 .. m /\ Rates!Kept[j - n + 1] = buckets[j]
    BY <1>3, <1>4, <2>3
  <2>. QED  BY <2>1, <2>4
<1>8. Cardinality(Rates!Counted(clock)) = m
  <2>. DEFINE f == [i \in 1 .. m |-> Rates!Kept[i].key]
  <2>1. f \in Bijection(1 .. m, Rates!Counted(clock))
    <3>1. f \in [1 .. m -> Rates!Counted(clock)]
      BY <1>6
    <3>2. \A i, j \in 1 .. m : f[i] = f[j] => i = j
      BY <1>3, <1>5 DEF Ordered
    <3>3. \A k \in Rates!Counted(clock) : \E i \in 1 .. m : f[i] = k
      BY <1>7
    <3>. HIDE DEF f
    <3>. QED  BY <3>1, <3>2, <3>3 DEF Bijection, Injection, IsInjective, Surjection
  <2>2. ExistsBijection(1 .. m, Rates!Counted(clock))
    BY <2>1 DEF ExistsBijection
  <2>3. IsFiniteSet(1 .. m) /\ Cardinality(1 .. m) = m
    <3>1. 1 \in Int /\ m \in Int
      BY <1>4
    <3>2. IsFiniteSet(1 .. m) /\ Cardinality(1 .. m) = IF 1 > m THEN 0 ELSE m - 1 + 1
      BY <3>1, FS_Interval
    <3>. QED  BY <1>4, <3>2
  <2>. QED  BY <2>2, <2>3, FS_Bijection
<1>. QED  BY <1>3, <1>5, <1>6, <1>7, <1>8

(* The bucket of a key, once pruned, holds what is recent of the log.      *)
LEMMA BucketIs ==
    ASSUME Rates!TypeOK, LogInv, MemoryInv, NEW k \in RateKeys
    PROVE  \E e \in 0 .. Len(log[k]) :
              /\ Rates!Recent(k, clock) = e + 1 .. Len(log[k])
              /\ Cardinality(Rates!Recent(k, clock)) = Len(log[k]) - e
              /\ e < Len(log[k]) =>
                    Rates!Min({log[k][i] : i \in Rates!Recent(k, clock)}) = log[k][e + 1]
              /\ Rates!Bucket(k) = [key |-> k, stamps |-> SubSeq(log[k], e + 1, Len(log[k])), last |-> clock]
<1>1. PICK e \in 0 .. Len(log[k]) :
              /\ Rates!Recent(k, clock) = e + 1 .. Len(log[k])
              /\ Cardinality(Rates!Recent(k, clock)) = Len(log[k]) - e
              /\ e < Len(log[k]) =>
                    Rates!Min({log[k][i] : i \in Rates!Recent(k, clock)}) = log[k][e + 1]
  BY RecentIsTail
<1>2. log[k] \in Seq(Rates!Times) /\ log[k] \in Seq(Nat) /\ Len(log[k]) \in Nat
      /\ \A i, j \in 1 .. Len(log[k]) : i <= j => log[k][i] <= log[k][j]
  BY TimesAreNumbers, Typed DEF Rates!TypeOK, Rates!Times, LogInv
<1>3. e \in Nat /\ e + 1 \in 1 .. Len(log[k]) + 1
  BY <1>2
<1>4. Rates!Bucket(k).stamps = SubSeq(log[k], e + 1, Len(log[k]))
  <2>. DEFINE t == SubSeq(log[k], e + 1, Len(log[k]))
  <2>0. t \in Seq(Rates!Times) /\ Len(t) = Len(log[k]) - (e + 1) + 1
        /\ \A i \in 1 .. Len(log[k]) - (e + 1) + 1 : t[i] = log[k][(e + 1) + i - 1]
    BY <1>2, <1>3, TailOf
  <2>1. CASE Rates!Find(k) = {}
    <3>1. k \notin Rates!Counted(clock)
      BY <2>1, LimiterKeeps DEF Rates!Find
    <3>2. Rates!Recent(k, clock) = {}
      BY <3>1, Typed, RecentIsCounted
    <3>3. ~(e + 1 \in e + 1 .. Len(log[k]))
      BY <1>1, <3>2
    <3>4. Len(t) = 0
      BY <1>2, <1>3, <2>0, <3>3
    <3>5. t = <<>>
      BY <2>0, <3>4, EmptySeq
    <3>. QED  BY <2>1, <3>5 DEF Rates!Bucket
  <2>2. CASE Rates!Find(k) # {}
    <3>. DEFINE i == CHOOSE i \in Rates!Find(k) : TRUE
                s == Rates!Kept[i].stamps
    <3>1. i \in 1 .. Len(Rates!Kept) /\ Rates!Kept[i].key = k
      BY <2>2 DEF Rates!Find
    <3>. HIDE DEF i
    <3>2. FollowsLog(Rates!Kept[i])
      BY <3>1, LimiterKeeps DEF Ordered
    <3>3. PICK d \in 0 .. Len(log[k]) :
             s = SubSeq(log[k], d + 1, Len(log[k])) /\ \A j \in 1 .. d : ~Rates!Within(log[k][j], clock)
      BY <3>1, <3>2 DEF FollowsLog
    <3>4. d \in Nat /\ d + 1 \in 1 .. Len(log[k]) + 1 /\ d <= Len(log[k])
      BY <1>2
    <3>5. s \in Seq(Nat) /\ Len(s) = Len(log[k]) - (d + 1) + 1
          /\ \A j \in 1 .. Len(log[k]) - (d + 1) + 1 : s[j] = log[k][(d + 1) + j - 1]
      BY <1>2, <3>3, <3>4, TailOf
    <3>. HIDE DEF s
    <3>6. Len(s) = Len(log[k]) - d /\ \A j \in 1 .. Len(log[k]) - d : s[j] = log[k][d + j]
      <4>1. \A x, y \in Nat : x - (y + 1) + 1 = x - y
        OBVIOUS
      <4>2. \A j \in Nat : (d + 1) + j - 1 = d + j
        BY <3>4
      <4>3. Len(log[k]) \in Nat /\ \A j \in 1 .. Len(log[k]) - d : j \in Nat
        BY <1>2
      <4>4. Len(log[k]) - (d + 1) + 1 = Len(log[k]) - d
        BY <3>4, <4>1, <4>3
      <4>. QED  BY <3>5, <4>2, <4>3, <4>4
    <3>7. \A j, h \in 1 .. Len(s) : j <= h => s[j] <= s[h]
      <4>. TAKE j, h \in 1 .. Len(s)
      <4>1. d + j \in 1 .. Len(log[k]) /\ d + h \in 1 .. Len(log[k]) /\ (j <= h => d + j <= d + h)
        BY <1>2, <3>4, <3>6
      <4>. QED  BY <1>2, <3>6, <4>1
    <3>8. PICK p \in 0 .. Len(s) :
             Rates!Pruned(s) = SubSeq(s, p + 1, Len(s)) /\ \A j \in 1 .. Len(s) : Rates!Within(s[j], clock) <=> j > p
      BY <3>5, <3>7, Typed, PrunedTimes
    <3>9. p \in Nat /\ p + 1 \in 1 .. Len(s) + 1 /\ Len(s) \in Nat
      BY <3>5, LenProperties
    <3>10. d + p = e
      <4>1. \A j \in 1 .. Len(log[k]) : Rates!Within(log[k][j], clock) <=> j > e
        <5>. TAKE j \in 1 .. Len(log[k])
        <5>1. Rates!Within(log[k][j], clock) <=> j \in e + 1 .. Len(log[k])
          BY <1>1 DEF Rates!Recent
        <5>. QED  BY <5>1, <1>2, <1>3
      <4>2. \A j \in 1 .. Len(log[k]) : Rates!Within(log[k][j], clock) <=> j > d + p
        <5>. TAKE j \in 1 .. Len(log[k])
        <5>1. CASE j <= d
          <6>1. j \in 1 .. d /\ ~(j > d + p)
            BY <5>1, <3>4, <3>9
          <6>. QED  BY <3>3, <6>1
        <5>2. CASE ~(j <= d)
          <6>1. j - d \in 1 .. Len(s) /\ d + (j - d) = j /\ (j - d > p <=> j > d + p)
            <7>1. \A x, y, z \in Nat : \A h \in 1 .. x : y <= x /\ ~(h <= y) =>
                      h - y \in 1 .. x - y /\ y + (h - y) = h /\ (h - y > z <=> h > y + z)
              OBVIOUS
            <7>. QED  BY <5>2, <3>4, <3>6, <3>9, <1>2, <7>1
          <6>2. s[j - d] = log[k][j]
            BY <3>6, <6>1
          <6>. QED  BY <3>8, <6>1, <6>2
        <5>. QED  BY <5>1, <5>2
      <4>3. d + p \in 0 .. Len(log[k])
        BY <3>4, <3>6, <3>9, <1>2
      <4>4. CASE d + p < e
        <5>1. d + p + 1 \in 1 .. Len(log[k]) /\ d + p + 1 > d + p /\ ~(d + p + 1 > e)
          BY <4>3, <4>4, <1>2, <1>3
        <5>. QED  BY <4>1, <4>2, <5>1
      <4>5. CASE e < d + p
        <5>1. e + 1 \in 1 .. Len(log[k]) /\ e + 1 > e /\ ~(e + 1 > d + p)
          BY <4>3, <4>5, <1>2, <1>3
        <5>. QED  BY <4>1, <4>2, <5>1
      <4>. QED  BY <4>3, <4>4, <4>5, <1>2, <1>3
    <3>11. SubSeq(s, p + 1, Len(s)) = t
      <4>. DEFINE u == SubSeq(s, p + 1, Len(s))
      <4>1. u \in Seq(Nat) /\ Len(u) = Len(s) - (p + 1) + 1
            /\ \A j \in 1 .. Len(s) - (p + 1) + 1 : u[j] = s[(p + 1) + j - 1]
        BY <3>5, <3>9, TailOf
      <4>. HIDE DEF u, t
      <4>2. Len(u) = Len(log[k]) - e /\ Len(t) = Len(log[k]) - e
        <5>1. \A x, y, z \in Nat : (x - y) - (z + 1) + 1 = x - (y + z) /\ x - ((y + z) + 1) + 1 = x - (y + z)
          OBVIOUS
        <5>2. Len(u) = (Len(log[k]) - d) - (p + 1) + 1 /\ Len(t) = Len(log[k]) - ((d + p) + 1) + 1
          BY <4>1, <2>0, <3>6, <3>10
        <5>. QED  BY <5>1, <5>2, <1>2, <3>4, <3>9, <3>10
      <4>3. ASSUME NEW j \in 1 .. Len(u)  PROVE u[j] = t[j]
        <5>1. j \in 1 .. Len(s) - (p + 1) + 1 /\ (p + 1) + j - 1 = p + j /\ p + j \in 1 .. Len(s)
          <6>1. \A x, y, z \in Nat : \A h \in 1 .. x - (y + z) : y <= x /\ z <= x - y =>
                    /\ h \in 1 .. (x - y) - (z + 1) + 1 /\ (z + 1) + h - 1 = z + h
                    /\ z + h \in 1 .. x - y
            OBVIOUS
          <6>2. j \in 1 .. Len(log[k]) - (d + p)
            BY <4>2, <3>10
          <6>3. p <= Len(log[k]) - d
            BY <3>6, <3>9
          <6>. QED  BY <6>1, <6>2, <6>3, <3>4, <3>6, <3>9, <1>2
        <5>2. u[j] = log[k][d + (p + j)]
          BY <4>1, <5>1, <3>6
        <5>3. j \in 1 .. Len(log[k]) - (e + 1) + 1 /\ (e + 1) + j - 1 = d + (p + j)
          BY <4>2, <3>10, <3>9, <3>4, <1>2, <1>3
        <5>. QED  BY <2>0, <5>2, <5>3
      <4>4. t \in Seq(Nat)
        BY <2>0, TimesAreNumbers DEF Rates!Times
      <4>5. u = t
        BY <4>1, <4>2, <4>3, <4>4, SeqEqual
      <4>. QED  BY <4>5 DEF u
    <3>. HIDE DEF t
    <3>12. Rates!Bucket(k).stamps = Rates!Pruned(s)
      BY <2>2 DEF Rates!Bucket, i, s
    <3>. QED  BY <3>8, <3>11, <3>12 DEF t
  <2>. QED  BY <2>1, <2>2
<1>5. Rates!Bucket(k) = [key |-> k, stamps |-> Rates!Bucket(k).stamps, last |-> clock]
  BY DEF Rates!Bucket
<1>. QED  BY <1>1, <1>4, <1>5

LEMMA FindIs ==
    ASSUME Rates!TypeOK, MemoryInv, NEW k \in RateKeys
    PROVE  (Rates!Find(k) = {}) <=> (k \notin Rates!Counted(clock))
BY LimiterKeeps DEF Rates!Find

LEMMA MemoryAnswers ==
    ASSUME Rates!TypeOK, LogInv, MemoryInv, NEW k \in RateKeys
    PROVE  Rates!MemoryVerdict(k) = Rates!Promised(k, clock)
<1>1. PICK e \in 0 .. Len(log[k]) :
              /\ Rates!Recent(k, clock) = e + 1 .. Len(log[k])
              /\ Cardinality(Rates!Recent(k, clock)) = Len(log[k]) - e
              /\ e < Len(log[k]) =>
                    Rates!Min({log[k][i] : i \in Rates!Recent(k, clock)}) = log[k][e + 1]
              /\ Rates!Bucket(k) = [key |-> k, stamps |-> SubSeq(log[k], e + 1, Len(log[k])), last |-> clock]
  BY BucketIs
<1>2. log[k] \in Seq(Rates!Times) /\ Len(log[k]) \in Nat /\ e + 1 \in 1 .. Len(log[k]) + 1 /\ e \in Nat
  BY Typed DEF Rates!TypeOK
<1>. DEFINE t == Rates!Bucket(k).stamps
<1>3. Len(t) = Len(log[k]) - e /\ (e < Len(log[k]) => t[1] = log[k][e + 1])
  <2>1. t = SubSeq(log[k], e + 1, Len(log[k]))
    BY <1>1
  <2>. HIDE DEF t
  <2>2. Len(t) = Len(log[k]) - (e + 1) + 1
        /\ \A i \in 1 .. Len(log[k]) - (e + 1) + 1 : t[i] = log[k][(e + 1) + i - 1]
    BY <1>2, <2>1, TailOf
  <2>3. \A x, y \in Nat : x - (y + 1) + 1 = x - y /\ (y < x => 1 \in 1 .. x - (y + 1) + 1 /\ (y + 1) + 1 - 1 = y + 1)
    OBVIOUS
  <2>4. e < Len(log[k]) => 1 \in 1 .. Len(log[k]) - (e + 1) + 1 /\ (e + 1) + 1 - 1 = e + 1
    BY <1>2, <2>3
  <2>. QED  BY <1>2, <2>2, <2>3, <2>4
<1>. HIDE DEF t
<1>4. Len(t) = Cardinality(Rates!Recent(k, clock))
  BY <1>1, <1>3
<1>5. Rates!Find(k) = {} /\ Len(Rates!Kept) >= MaxKeys <=> k \notin Rates!Counted(clock) /\ Cardinality(Rates!Counted(clock)) >= MaxKeys
  BY FindIs, LimiterKeeps
<1>6. CASE Rates!Find(k) = {} /\ Len(Rates!Kept) >= MaxKeys
  <2>. DEFINE T == {last[j] : j \in Rates!Counted(clock)}
  <2>1. /\ Rates!Kept \in Seq(Rates!Buckets) /\ Ordered(Rates!Kept) /\ \A i \in 1 .. Len(Rates!Kept) : Rates!Kept[i].key \in Rates!Counted(clock)
        /\ \A j \in Rates!Counted(clock) : \E i \in 1 .. Len(Rates!Kept) : Rates!Kept[i].key = j
    BY LimiterKeeps
  <2>2. 1 \in 1 .. Len(Rates!Kept) /\ \A i \in 1 .. Len(Rates!Kept) : 1 <= i
    BY <1>6, <2>1, LenProperties, RateFacts
  <2>3. Rates!Kept[1].last \in T
    BY <2>1, <2>2 DEF Ordered, FollowsLog
  <2>4. ASSUME NEW y \in T  PROVE Rates!Kept[1].last <= y
    <3>1. PICK j \in Rates!Counted(clock) : y = last[j]
      OBVIOUS
    <3>2. PICK i \in 1 .. Len(Rates!Kept) : Rates!Kept[i].key = j
      BY <2>1
    <3>3. Rates!Kept[i].last = last[j]
      BY <2>1, <3>2 DEF Ordered, FollowsLog
    <3>. QED  BY <2>1, <2>2, <3>1, <3>3 DEF Ordered
  <2>5. T \in SUBSET Nat
    BY Typed DEF Rates!Counted
  <2>. HIDE DEF T
  <2>6. Rates!Min(T) = Rates!Kept[1].last
    BY <2>3, <2>4, <2>5, MinUnique
  <2>7. Rates!Promised(k, clock) = Rates!Refused("full", Rates!Min(T) + RateWindow, clock)
    BY <1>5, <1>6, RatesCardinality DEF Rates!Promised, T
  <2>. QED  BY <1>6, <2>6, <2>7 DEF Rates!MemoryVerdict
<1>7. CASE ~(Rates!Find(k) = {} /\ Len(Rates!Kept) >= MaxKeys) /\ Len(t) >= RateLimit
  <2>1. e < Len(log[k])
    BY <1>1, <1>2, <1>3, <1>7, RateFacts
  <2>2. Rates!Promised(k, clock) = Rates!Refused("limited", log[k][e + 1] + RateWindow, clock)
    BY <1>1, <1>4, <1>5, <1>7, <2>1, RatesCardinality DEF Rates!Promised
  <2>3. Rates!MemoryVerdict(k) = Rates!Refused("limited", t[1] + RateWindow, clock)
    BY <1>7 DEF Rates!MemoryVerdict, t
  <2>. QED  BY <1>3, <2>1, <2>2, <2>3
<1>8. CASE ~(Rates!Find(k) = {} /\ Len(Rates!Kept) >= MaxKeys) /\ ~(Len(t) >= RateLimit)
  <2>1. Rates!Promised(k, clock) = Rates!Accepted
    BY <1>4, <1>5, <1>8, RatesCardinality DEF Rates!Promised
  <2>2. Rates!MemoryVerdict(k) = Rates!Accepted
    BY <1>8 DEF Rates!MemoryVerdict, t
  <2>. QED  BY <2>1, <2>2
<1>. QED  BY <1>6, <1>7, <1>8

(* What is left of the buckets when that of k is taken out.                *)
LEMMA OthersKept ==
    ASSUME Rates!TypeOK, MemoryInv, NEW k \in RateKeys, NEW b, b.key = k
    PROVE  \E s \in Seq(Rates!Buckets) :
              /\ Rates!MovesToEnd(b) = Append(s, b)
              /\ Ordered(s)
              /\ \A i \in 1 .. Len(s) : s[i].key # k
              /\ \A j \in Rates!Counted(clock) \ {k} : \E i \in 1 .. Len(s) : s[i].key = j
<1>1. /\ Rates!Kept \in Seq(Rates!Buckets) /\ Ordered(Rates!Kept) /\ Len(Rates!Kept) \in Nat
      /\ \A j \in Rates!Counted(clock) : \E i \in 1 .. Len(Rates!Kept) : Rates!Kept[i].key = j
  BY LimiterKeeps, LenProperties
<1>2. CASE Rates!Find(k) = {}
  BY <1>1, <1>2 DEF Rates!MovesToEnd, Rates!Find
<1>3. CASE Rates!Find(k) # {}
  <2>. DEFINE i == CHOOSE x \in Rates!Find(k) : TRUE
              s == Rates!RemoveAt(Rates!Kept, i)
              n == Len(Rates!Kept)
  <2>1. i \in 1 .. n /\ Rates!Kept[i].key = k
    BY <1>3 DEF Rates!Find
  <2>2. Rates!MovesToEnd(b) = Append(s, b)
    BY <1>3 DEF Rates!MovesToEnd
  <2>. HIDE DEF i
  <2>3. s \in Seq(Rates!Buckets) /\ Len(s) = n - 1
        /\ \A j \in 1 .. n - 1 : s[j] = IF j < i THEN Rates!Kept[j] ELSE Rates!Kept[j + 1]
    BY <1>1, <2>1, RemoveAtIs
  <2>. HIDE DEF s
  <2>. DEFINE at(j) == IF j < i THEN j ELSE j + 1
  <2>4. ASSUME NEW j \in 1 .. n - 1
        PROVE  at(j) \in 1 .. n /\ at(j) # i /\ s[j] = Rates!Kept[at(j)]
    <3>0. n \in Nat /\ j \in Nat /\ j <= n - 1 /\ i \in Nat
      BY <1>1, <2>1
    <3>1. CASE j < i
      <4>1. at(j) = j /\ at(j) \in 1 .. n /\ at(j) # i
        BY <3>0, <3>1
      <4>. QED  BY <2>3, <3>1, <4>1
    <3>2. CASE ~(j < i)
      BY <1>1, <2>1, <2>3, <3>2
    <3>. QED  BY <3>1, <3>2
  <2>5. \A j, h \in 1 .. n - 1 : (j <= h => at(j) <= at(h)) /\ (at(j) = at(h) => j = h)
    BY <1>1, <2>1
  <2>6. ASSUME NEW j \in 1 .. n, j # i
        PROVE  \E h \in 1 .. n - 1 : at(h) = j
    <3>1. CASE j < i
      <4>1. j \in 1 .. n - 1 /\ at(j) = j
        BY <1>1, <2>1, <3>1
      <4>. QED  BY <4>1
    <3>2. CASE ~(j < i)
      <4>1. j - 1 \in 1 .. n - 1 /\ at(j - 1) = j
        BY <1>1, <2>1, <2>6, <3>2
      <4>. QED  BY <4>1
    <3>. QED  BY <3>1, <3>2
  <2>. HIDE DEF at, n
  <2>7. \A j \in 1 .. n - 1 : s[j].key # k
    BY <1>1, <2>1, <2>4 DEF Ordered, n
  <2>8. Ordered(s)
    <3>1. \A j \in 1 .. n - 1 : FollowsLog(s[j])
      <4>1. \A x \in 1 .. n : FollowsLog(Rates!Kept[x])
        BY <1>1 DEF Ordered, n
      <4>. QED  BY <2>4, <4>1
    <3>2. ASSUME NEW j \in 1 .. n - 1, NEW h \in 1 .. n - 1, j <= h  PROVE s[j].last <= s[h].last
      <4>1. \A x, y \in 1 .. n : x <= y => Rates!Kept[x].last <= Rates!Kept[y].last
        BY <1>1 DEF Ordered, n
      <4>2. at(j) <= at(h)
        BY <2>5, <3>2
      <4>. QED  BY <2>4, <4>1, <4>2
    <3>3. ASSUME NEW j \in 1 .. n - 1, NEW h \in 1 .. n - 1, s[j].key = s[h].key  PROVE j = h
      <4>1. \A x, y \in 1 .. n : Rates!Kept[x].key = Rates!Kept[y].key => x = y
        BY <1>1 DEF Ordered, n
      <4>2. at(j) = at(h)
        BY <2>4, <3>3, <4>1
      <4>. QED  BY <2>5, <4>2
    <3>. QED  BY <2>3, <3>1, <3>2, <3>3 DEF Ordered, n
  <2>9. ASSUME NEW j \in Rates!Counted(clock), j # k
        PROVE  \E h \in 1 .. n - 1 : s[h].key = j
    <3>1. PICK h \in 1 .. n : Rates!Kept[h].key = j
      BY <1>1 DEF n
    <3>2. h # i
      BY <2>1, <2>9, <3>1
    <3>3. PICK g \in 1 .. n - 1 : at(g) = h
      BY <2>6, <3>2
    <3>. QED  BY <2>4, <3>1, <3>3
  <2>. QED  BY <2>2, <2>3, <2>7, <2>8, <2>9 DEF n
<1>. QED  BY <1>2, <1>3

LEMMA TailGrows ==
    ASSUME NEW S, NEW s \in Seq(S), NEW c \in S, NEW e \in 0 .. Len(s)
    PROVE  Append(SubSeq(s, e + 1, Len(s)), c) = SubSeq(Append(s, c), e + 1, Len(Append(s, c)))
<1>. DEFINE n == Len(s)
            t == SubSeq(s, e + 1, n)
            m == Append(s, c)
            u == SubSeq(m, e + 1, Len(m))
            a == Append(t, c)
<1>1. n \in Nat /\ e \in Nat /\ e <= n /\ e + 1 \in 1 .. n + 1 /\ e + 1 \in 1 .. (n + 1) + 1
  BY LenProperties
<1>2. m \in Seq(S) /\ Len(m) = n + 1 /\ \A i \in 1 .. n + 1 : m[i] = IF i = n + 1 THEN c ELSE s[i]
  BY <1>1, AppendProperties
<1>3. t \in Seq(S) /\ Len(t) = n - (e + 1) + 1
      /\ \A i \in 1 .. n - (e + 1) + 1 : t[i] = s[(e + 1) + i - 1]
  BY <1>1, TailOf
<1>. HIDE DEF m, t
<1>4. u \in Seq(S) /\ Len(u) = (n + 1) - (e + 1) + 1
      /\ \A i \in 1 .. (n + 1) - (e + 1) + 1 : u[i] = m[(e + 1) + i - 1]
  BY <1>1, <1>2, TailOf
<1>5. a \in Seq(S) /\ Len(a) = Len(t) + 1 /\ \A i \in 1 .. Len(t) + 1 : a[i] = IF i = Len(t) + 1 THEN c ELSE t[i]
  <2>1. Len(t) \in Nat
    BY <1>3, LenProperties
  <2>. HIDE DEF a
  <2>2. /\ Append(t, c) \in Seq(S) /\ Len(Append(t, c)) = Len(t) + 1 /\ Append(t, c)[Len(t) + 1] = c
        /\ \A i \in 1 .. Len(t) : Append(t, c)[i] = t[i]
    BY <1>3, AppendProperties
  <2>. QED  BY <2>1, <2>2 DEF a
<1>. HIDE DEF u, a, n
<1>6. Len(t) = n - e /\ Len(a) = n - e + 1 /\ Len(u) = n - e + 1
  BY <1>1, <1>3, <1>4, <1>5
<1>7. ASSUME NEW i \in 1 .. n - e + 1  PROVE a[i] = u[i]
  <2>1. i \in 1 .. (n + 1) - (e + 1) + 1 /\ (e + 1) + i - 1 = e + i /\ e + i \in 1 .. n + 1
    BY <1>1
  <2>2. u[i] = IF e + i = n + 1 THEN c ELSE s[e + i]
    BY <1>2, <1>4, <2>1
  <2>3. CASE i = n - e + 1
    <3>1. e + i = n + 1
      BY <1>1, <2>3
    <3>. QED  BY <1>5, <1>6, <2>2, <2>3, <3>1
  <2>4. CASE i # n - e + 1
    <3>1. i \in 1 .. n - (e + 1) + 1 /\ e + i # n + 1
      BY <1>1, <2>4
    <3>. QED  BY <1>3, <1>5, <1>6, <2>1, <2>2, <2>4, <3>1
  <2>. QED  BY <2>3, <2>4
<1>8. a = u
  BY <1>4, <1>5, <1>6, <1>7, SeqEqual
<1>. QED  BY <1>8 DEF a, u, t, m, n

(* A bucket that is moved to the end follows the log as it is then.        *)
LEMMA MovedFollows ==
    ASSUME Rates!TypeOK, LogInv, clock' = clock, NEW k \in RateKeys,
           Rates!Records(k, clock, Rates!Promised(k, clock)), Rates!Promised(k, clock).answer # "full",
           NEW e \in 0 .. Len(log[k]), Rates!Recent(k, clock) = e + 1 .. Len(log[k]),
           NEW b, b = [key |-> k, stamps |-> SubSeq(log'[k], e + 1, Len(log'[k])), last |-> clock]
    PROVE  b \in Rates!Buckets /\ FollowsLog(b)'
<1>. DEFINE L == log[k]
            M == log'[k]
<1>1. L \in Seq(Rates!Times) /\ Len(L) \in Nat /\ e \in Nat /\ clock \in Rates!Times /\ clock > 0
  BY Typed DEF Rates!TypeOK
<1>2. M \in {L, Append(L, clock)} /\ last'[k] = clock
  BY RecordsAtClock DEF Rates!TypeOK
<1>. HIDE DEF L, M
<1>3. M \in Seq(Rates!Times) /\ Len(M) \in {Len(L), Len(L) + 1} /\ \A j \in 1 .. Len(L) : M[j] = L[j]
  <2>1. /\ Append(L, clock) \in Seq(Rates!Times) /\ Len(Append(L, clock)) = Len(L) + 1
        /\ \A j \in 1 .. Len(L) : Append(L, clock)[j] = L[j]
    BY <1>1, AppendProperties
  <2>. QED  BY <1>1, <1>2, <2>1
<1>4. e <= Len(L)
  BY DEF L
<1>5. e \in 0 .. Len(M) /\ e + 1 \in 1 .. Len(M) + 1
  BY <1>1, <1>3, <1>4
<1>6. \A j \in 1 .. e : ~Rates!Within(M[j], clock)
  <2>. TAKE j \in 1 .. e
  <2>1. j \in 1 .. Len(L) /\ j \notin e + 1 .. Len(L)
    BY <1>1, <1>4
  <2>2. ~Rates!Within(L[j], clock)
    BY <2>1 DEF Rates!Recent, L
  <2>. QED  BY <1>3, <2>1, <2>2
<1>7. SubSeq(M, e + 1, Len(M)) \in Seq(Rates!Times)
  BY <1>3, <1>5, TailOf
<1>8. b.key = k /\ b.stamps = SubSeq(M, e + 1, Len(M)) /\ b.last = clock
  BY DEF M
<1>9. b \in Rates!Buckets
  BY <1>1, <1>7 DEF Rates!Buckets, M
<1>10. FollowsLog(b)'
  BY <1>1, <1>2, <1>5, <1>6, <1>8 DEF FollowsLog, Rates!Within, M
<1>. QED  BY <1>9, <1>10

LEMMA ConsumeMemoryKeeps ==
    ASSUME Rates!TypeOK, LogInv, MemoryInv, NEW k \in RateKeys, Rates!ConsumeMemory(k)
    PROVE  Rates!TypeOK' /\ LogInv' /\ MemoryInv'
<1>. DEFINE v == Rates!Promised(k, clock)
<1>1. /\ clock' = clock /\ Rates!Records(k, clock, v)
      /\ buckets' = CASE v.answer = "full" -> Rates!Kept
                      [] v.answer = "limited" -> Rates!MovesToEnd(Rates!Bucket(k))
                      [] OTHER -> Rates!MovesToEnd([Rates!Bucket(k) EXCEPT !.stamps = Append(@, clock)])
  BY MemoryAnswers DEF Rates!ConsumeMemory
<1>3. LogInv'
  BY <1>1, RecordsKeepLog
<1>4. log' \in [RateKeys -> Seq(Rates!Times)] /\ last' \in [RateKeys -> {0} \cup Rates!Times] /\ clock \in Rates!Times
  <2>1. clock \in Rates!Times
    BY DEF Rates!TypeOK
  <2>. HIDE DEF v
  <2>. QED  BY <1>1, <2>1, RecordsTypes
<1>5. CASE v.answer = "full"
  <2>1. log' = log /\ last' = last /\ buckets' = Rates!Kept
    <3>1. v # Rates!Accepted
      BY <1>5, VerdictAnswers
    <3>. HIDE DEF v
    <3>. QED  BY <1>1, <1>5, <3>1 DEF Rates!Records
  <2>2. Rates!Counted(clock)' = Rates!Counted(clock)
    BY <1>1, <2>1 DEF Rates!Counted
  <2>3. \A x : FollowsLog(x) => FollowsLog(x)'
    BY <1>1, <2>1 DEF FollowsLog, Rates!Within
  <2>4. Ordered(buckets)'
    BY <2>1, <2>3, LimiterKeeps DEF Ordered
  <2>5. MemoryInv'
    BY <2>1, <2>2, <2>4, LimiterKeeps DEF MemoryInv
  <2>6. buckets' \in Seq(Rates!Buckets)
    BY <2>1, LimiterKeeps
  <2>7. Rates!TypeOK'
    BY <1>4, <2>6, <1>1 DEF Rates!TypeOK, Rates!ConsumeMemory, Rates!redisVars
  <2>. QED  BY <1>3, <2>5, <2>7
<1>6. CASE v.answer # "full"
  <2>0. PICK e \in 0 .. Len(log[k]) :
              /\ Rates!Recent(k, clock) = e + 1 .. Len(log[k])
              /\ Rates!Bucket(k) = [key |-> k, stamps |-> SubSeq(log[k], e + 1, Len(log[k])), last |-> clock]
    BY BucketIs
  <2>0a. PICK b : b = [key |-> k, stamps |-> SubSeq(log'[k], e + 1, Len(log'[k])), last |-> clock]
    OBVIOUS
  <2>1. b \in Rates!Buckets /\ b.key = k /\ b.last = clock /\ FollowsLog(b)'
    <3>1. b.key = k /\ b.last = clock
      BY <2>0a
    <3>2. b \in Rates!Buckets /\ FollowsLog(b)'
      BY <1>1, <1>6, <2>0, <2>0a, MovedFollows
    <3>. QED  BY <3>1, <3>2
  <2>1a. buckets' = Rates!MovesToEnd(b)
    <3>1. v.answer = "limited" <=> v # Rates!Accepted
      BY <1>6, VerdictAnswers, RatesCardinality DEF Rates!Promised
    <3>2. log \in [RateKeys -> Seq(Rates!Times)] /\ log[k] \in Seq(Rates!Times) /\ clock \in Rates!Times
      BY DEF Rates!TypeOK
    <3>. HIDE DEF v
    <3>3. CASE v # Rates!Accepted
      <4>1. log' = log
        BY <1>1, <3>3 DEF Rates!Records
      <4>. QED  BY <1>1, <2>0, <2>0a, <3>1, <3>3, <4>1
    <3>4. CASE v = Rates!Accepted
      <4>1. log'[k] = Append(log[k], clock)
        BY <1>1, <3>2, <3>4 DEF Rates!Records
      <4>2. Append(SubSeq(log[k], e + 1, Len(log[k])), clock) = SubSeq(log'[k], e + 1, Len(log'[k]))
        BY <3>2, <4>1, TailGrows
      <4>3. [Rates!Bucket(k) EXCEPT !.stamps = Append(@, clock)]
               = [key |-> k, stamps |-> Append(SubSeq(log[k], e + 1, Len(log[k])), clock), last |-> clock]
        <5>1. \A t : [[key |-> k, stamps |-> t, last |-> clock] EXCEPT !.stamps = Append(@, clock)]
                        = [key |-> k, stamps |-> Append(t, clock), last |-> clock]
          OBVIOUS
        <5>. QED  BY <2>0, <5>1
      <4>4. buckets' = Rates!MovesToEnd([Rates!Bucket(k) EXCEPT !.stamps = Append(@, clock)])
        BY <1>1, <1>6, <3>1, <3>4
      <4>. QED  BY <2>0a, <4>2, <4>3, <4>4
    <3>. QED  BY <3>3, <3>4
  <2>2. PICK s \in Seq(Rates!Buckets) :
              /\ Rates!MovesToEnd(b) = Append(s, b)
              /\ Ordered(s)
              /\ \A i \in 1 .. Len(s) : s[i].key # k
              /\ \A j \in Rates!Counted(clock) \ {k} : \E i \in 1 .. Len(s) : s[i].key = j
    BY <2>1, OthersKept
  <2>3. buckets' = Append(s, b)
    BY <2>1a, <2>2
  <2>4. Len(s) \in Nat /\ Len(Append(s, b)) = Len(s) + 1 /\ Append(s, b) \in Seq(Rates!Buckets)
        /\ \A i \in 1 .. Len(s) + 1 : Append(s, b)[i] = IF i = Len(s) + 1 THEN b ELSE s[i]
    BY <2>1, <2>2, AppendProperties, LenProperties
  <2>5. /\ log' = IF v = Rates!Accepted THEN [log EXCEPT ![k] = Append(log[k], clock)] ELSE log
        /\ last' = [last EXCEPT ![k] = clock]
    <3>. HIDE DEF v
    <3>. QED  BY <1>1, <1>6, RecordsAtClock
  <2>6. log \in [RateKeys -> Seq(Rates!Times)] /\ last \in [RateKeys -> {0} \cup Rates!Times]
    BY DEF Rates!TypeOK
  <2>7. \A j \in RateKeys \ {k} : log'[j] = log[j] /\ last'[j] = last[j]
    BY <2>5, <2>6
  <2>8. \A i \in 1 .. Len(s) : s[i] \in Rates!Buckets
    BY <2>2, ElementOfSeq
  <2>9. \A i \in 1 .. Len(s) : FollowsLog(s[i])'
    <3>. TAKE i \in 1 .. Len(s)
    <3>1. s[i].key \in RateKeys \ {k} /\ FollowsLog(s[i])
      BY <2>2, <2>8 DEF Rates!Buckets, Ordered
    <3>2. log'[s[i].key] = log[s[i].key] /\ last'[s[i].key] = last[s[i].key]
      BY <2>7, <3>1
    <3>. QED  BY <1>1, <3>1, <3>2 DEF FollowsLog, Rates!Within
  <2>10. \A i \in 1 .. Len(s) + 1 : i # Len(s) + 1 => i \in 1 .. Len(s)
    BY <2>4
  <2>11. \A i \in 1 .. Len(s) : s[i].last <= clock
    <3>. TAKE i \in 1 .. Len(s)
    <3>1. s[i].last = last[s[i].key] /\ s[i].key \in RateKeys
      BY <2>2, <2>8 DEF Ordered, FollowsLog, Rates!Buckets
    <3>. QED  BY <3>1 DEF LogInv
  <2>12. Ordered(Append(s, b))'
    <3>. DEFINE a == Append(s, b)
    <3>1. \A i \in 1 .. Len(s) + 1 : FollowsLog(a[i])'
      BY <2>1, <2>4, <2>9, <2>10
    <3>2. \A i, j \in 1 .. Len(s) + 1 : i <= j => a[i].last <= a[j].last
      <4>. TAKE i, j \in 1 .. Len(s) + 1
      <4>1. CASE j = Len(s) + 1
        <5>1. a[j].last = clock /\ a[i].last \in {s[i].last, clock} /\ (i # Len(s) + 1 => a[i].last = s[i].last)
              /\ (i = Len(s) + 1 => a[i].last = clock) /\ clock \in Nat
          BY <2>1, <2>4, <4>1, Typed
        <5>. QED  BY <2>10, <2>11, <5>1
      <4>2. CASE j # Len(s) + 1
        <5>1. i <= j => i # Len(s) + 1
          BY <2>4, <4>2
        <5>. QED  BY <2>2, <2>4, <2>10, <4>2, <5>1 DEF Ordered
      <4>. QED  BY <4>1, <4>2
    <3>3. \A i, j \in 1 .. Len(s) + 1 : a[i].key = a[j].key => i = j
      BY <2>1, <2>2, <2>4, <2>10 DEF Ordered
    <3>. QED  BY <2>4, <3>1, <3>2, <3>3 DEF Ordered
  <2>13. \A j \in Rates!Counted(clock)' : \E i \in 1 .. Len(Append(s, b)) : Append(s, b)[i].key = j
    <3>. TAKE j \in Rates!Counted(clock)'
    <3>1. CASE j = k
      BY <2>1, <2>4, <3>1
    <3>2. CASE j # k
      <4>1. j \in Rates!Counted(clock) \ {k}
        BY <1>1, <2>7, <3>2 DEF Rates!Counted
      <4>2. PICK i \in 1 .. Len(s) : s[i].key = j
        BY <2>2, <4>1
      <4>3. i \in 1 .. Len(s) + 1 /\ i # Len(s) + 1
        BY <2>4
      <4>. QED  BY <2>4, <4>2, <4>3
    <3>. QED  BY <3>1, <3>2
  <2>14. MemoryInv'
    BY <2>3, <2>12, <2>13 DEF MemoryInv
  <2>15. buckets' \in Seq(Rates!Buckets)
    BY <2>3, <2>4
  <2>16. Rates!TypeOK'
    BY <1>4, <2>15, <1>1 DEF Rates!TypeOK, Rates!ConsumeMemory, Rates!redisVars
  <2>. QED  BY <1>3, <2>14, <2>16
<1>. QED  BY <1>5, <1>6

-----------------------------------------------------------------------------
(* The limiter in Redis, while no script was late.                         *)

LEMMA ScoresAre ==
    ASSUME Rates!TypeOK, RedisInv, NEW k \in RateKeys
    PROVE  Rates!LiveScores(clock)[k] = IF k \in Rates!Counted(clock) THEN last[k] + RateWindow ELSE 0
<1>1. /\ active[k] \in Nat /\ setLives \in Nat /\ last[k] \in Nat /\ clock \in Nat /\ RateWindow \in Nat
  BY Typed, RateFacts DEF Rates!TypeOK
<1>2. /\ active[k] <= setLives
      /\ active[k] > clock => last[k] > 0 /\ active[k] = last[k] + RateWindow
      /\ k \in Rates!Counted(clock) => active[k] = last[k] + RateWindow
  BY DEF RedisInv
<1>3. k \in Rates!Counted(clock) <=> last[k] > 0 /\ last[k] + RateWindow > clock
  BY DEF Rates!Counted, Rates!Within
<1>4. Rates!LiveScores(clock)[k] = IF setLives > clock /\ active[k] > clock THEN active[k] ELSE 0
  BY DEF Rates!LiveScores
<1>. QED  BY <1>1, <1>2, <1>3, <1>4

LEMMA LiveBucketIs ==
    ASSUME Rates!TypeOK, LogInv, RedisInv, NEW k \in RateKeys
    PROVE  /\ Rates!Recent(k, clock) # {} => Rates!LiveBucket(k)
           /\ Rates!LiveBucket(k) => k \in Rates!Counted(clock)
<1>1. lives[k] = IF Len(log[k]) = 0 THEN 0 ELSE log[k][Len(log[k])] + RateWindow
  BY DEF RedisInv
<1>2. /\ clock \in Nat /\ last[k] \in Nat /\ Len(log[k]) \in Nat /\ RateWindow \in Nat
      /\ \A i \in 1 .. Len(log[k]) : log[k][i] \in Nat /\ log[k][i] >= 1 /\ log[k][i] <= last[k]
      /\ \A i, j \in 1 .. Len(log[k]) : i <= j => log[k][i] <= log[k][j]
  BY Typed, RateFacts DEF LogInv
<1>3. ASSUME NEW i \in Rates!Recent(k, clock)  PROVE Rates!LiveBucket(k)
  <2>1. i \in 1 .. Len(log[k]) /\ log[k][i] + RateWindow > clock
    BY DEF Rates!Recent, Rates!Within
  <2>2. Len(log[k]) # 0 /\ Len(log[k]) \in 1 .. Len(log[k]) /\ log[k][i] <= log[k][Len(log[k])]
    BY <1>2, <2>1
  <2>. DEFINE t == log[k][Len(log[k])]
              x == log[k][i]
  <2>3. t \in Nat /\ x \in Nat /\ lives[k] = t + RateWindow /\ x <= t /\ x + RateWindow > clock
    BY <1>1, <1>2, <2>1, <2>2
  <2>. HIDE DEF t, x
  <2>. QED  BY <1>2, <2>3 DEF Rates!LiveBucket
<1>4. ASSUME Rates!LiveBucket(k)  PROVE k \in Rates!Counted(clock)
  <2>1. lives[k] > clock
    BY <1>4 DEF Rates!LiveBucket
  <2>2. Len(log[k]) # 0 /\ Len(log[k]) \in 1 .. Len(log[k])
    BY <1>1, <1>2, <2>1
  <2>. DEFINE t == log[k][Len(log[k])]
  <2>3. t \in Nat /\ t >= 1 /\ t <= last[k]
    BY <1>2, <2>2
  <2>4. t + RateWindow > clock
    BY <1>1, <2>1, <2>2
  <2>. HIDE DEF t
  <2>. QED  BY <1>2, <2>3, <2>4 DEF Rates!Counted, Rates!Within
<1>. QED  BY <1>3, <1>4

LEMMA StampsAre ==
    ASSUME Rates!TypeOK, LogInv, RedisInv, NEW k \in RateKeys
    PROVE  /\ Rates!Stamps(k, clock) = {Member(k, i) : i \in Rates!Recent(k, clock)}
           /\ Cardinality(Rates!Stamps(k, clock)) = Cardinality(Rates!Recent(k, clock))
           /\ {m.time : m \in Rates!Stamps(k, clock)} = {log[k][i] : i \in Rates!Recent(k, clock)}
<1>. DEFINE S == Rates!Stamps(k, clock)
            R == Rates!Recent(k, clock)
<1>1. \A i \in R : Member(k, i) \in S
  <2>. TAKE i \in R
  <2>1. Member(k, i) \in stamps[k]
    BY DEF RedisInv
  <2>2. Rates!LiveBucket(k)
    BY LiveBucketIs
  <2>3. Rates!Within(Member(k, i).time, clock)
    BY DEF Rates!Recent, Member
  <2>. QED  BY <2>1, <2>2, <2>3 DEF Rates!Stamps
<1>2. \A m \in S : \E i \in R : m = Member(k, i)
  <2>. TAKE m \in S
  <2>1. m \in stamps[k] /\ Rates!Within(m.time, clock)
    BY DEF Rates!Stamps
  <2>2. PICK i \in 1 .. Len(log[k]) : m = Member(k, i)
    BY <2>1 DEF RedisInv
  <2>3. i \in R
    BY <2>1, <2>2 DEF Rates!Recent, Member
  <2>. QED  BY <2>2, <2>3
<1>3. S = {Member(k, i) : i \in R}
  <2>. HIDE DEF S, R
  <2>. QED  BY <1>1, <1>2
<1>4. Cardinality(S) = Cardinality(R)
  <2>. DEFINE f == [i \in R |-> Member(k, i)]
  <2>. HIDE DEF S, R
  <2>1. f \in [R -> S]
    BY <1>1
  <2>2. \A i, j \in R : f[i] = f[j] => i = j
    BY DEF Member
  <2>3. \A m \in S : \E i \in R : f[i] = m
    BY <1>2
  <2>. HIDE DEF f
  <2>4. f \in Bijection(R, S)
    BY <2>1, <2>2, <2>3 DEF Bijection, Injection, IsInjective, Surjection
  <2>5. ExistsBijection(R, S)
    BY <2>4 DEF ExistsBijection
  <2>6. IsFiniteSet(R)
    BY RecentIsFinite DEF R
  <2>. QED  BY <2>5, <2>6, FS_Bijection
<1>5. {m.time : m \in S} = {log[k][i] : i \in R}
  <2>. HIDE DEF S, R
  <2>1. \A i \in R : Member(k, i).time = log[k][i]
    BY DEF Member
  <2>. QED  BY <1>1, <1>2, <2>1
<1>. QED  BY <1>3, <1>4, <1>5

LEMMA RedisAnswers ==
    ASSUME Rates!TypeOK, LogInv, RedisInv, NEW k \in RateKeys
    PROVE  Rates!RedisVerdict(k, clock) = Rates!Promised(k, clock)
<1>. DEFINE C == Rates!Counted(clock)
            others == {j \in RateKeys \ {k} : Rates!LiveScores(clock)[j] > 0}
<1>1. IsFiniteSet(C) /\ C \subseteq RateKeys /\ Cardinality(C) \in Nat /\ Cardinality(C) <= MaxKeys
      /\ \A j \in C : last[j] \in Nat /\ last[j] + RateWindow > 0
  <2>1. \A j \in RateKeys : last[j] \in Nat
    BY Typed
  <2>2. \A j \in C : last[j] > 0 /\ j \in RateKeys
    BY DEF Rates!Counted
  <2>3. Cardinality(C) <= MaxKeys
    BY DEF LogInv
  <2>. QED  BY <2>1, <2>2, <2>3, CountedIsFinite, RateFacts
<1>2. others = C \ {k}
  <2>1. \A j \in RateKeys : Rates!LiveScores(clock)[j] > 0 <=> j \in C
    <3>. TAKE j \in RateKeys
    <3>1. Rates!LiveScores(clock)[j] = IF j \in C THEN last[j] + RateWindow ELSE 0
      BY ScoresAre
    <3>. QED  BY <1>1, <3>1
  <2>. QED  BY <1>1, <2>1
<1>3. IsFiniteSet(C \ {k}) /\ Cardinality(C \ {k}) = IF k \in C THEN Cardinality(C) - 1 ELSE Cardinality(C)
  BY <1>1, FS_RemoveElement
<1>4. ~Rates!LiveBucket(k) /\ Cardinality(others) >= MaxKeys <=> k \notin C /\ Cardinality(C) >= MaxKeys
  <2>1. Rates!LiveBucket(k) => k \in C
    BY LiveBucketIs
  <2>2. k \in C => ~(Cardinality(C \ {k}) >= MaxKeys)
    BY <1>1, <1>3, RateFacts
  <2>3. k \notin C => Cardinality(C \ {k}) = Cardinality(C)
    BY <1>3
  <2>. HIDE DEF C, others
  <2>. QED  BY <1>2, <2>1, <2>2, <2>3
<1>5. Cardinality(Rates!Stamps(k, clock)) = Cardinality(Rates!Recent(k, clock))
      /\ {m.time : m \in Rates!Stamps(k, clock)} = {log[k][i] : i \in Rates!Recent(k, clock)}
  BY StampsAre
<1>6. CASE ~Rates!LiveBucket(k) /\ Cardinality(others) >= MaxKeys
  <2>. DEFINE T == {last[j] : j \in C}
              U == {Rates!LiveScores(clock)[j] : j \in others}
  <2>1. k \notin C /\ Cardinality(C) >= MaxKeys /\ others = C
    BY <1>2, <1>4, <1>6
  <2>2. C # {}
    BY <1>1, <2>1, RateFacts, FS_EmptySet
  <2>3. T \in SUBSET Nat /\ T # {}
    BY <1>1, <2>2
  <2>4. U = {t + RateWindow : t \in T}
    <3>1. \A j \in C : Rates!LiveScores(clock)[j] = last[j] + RateWindow
      BY <1>1, ScoresAre
    <3>2. U = {Rates!LiveScores(clock)[j] : j \in C}
      BY <2>1
    <3>. HIDE DEF U, C
    <3>. QED  BY <3>1, <3>2
  <2>5. Rates!RedisVerdict(k, clock) = Rates!Refused("full", Rates!Min(U), clock)
    BY <1>6, RatesCardinality DEF Rates!RedisVerdict
  <2>6. Rates!Promised(k, clock) = Rates!Refused("full", Rates!Min(T) + RateWindow, clock)
    BY <2>1, RatesCardinality DEF Rates!Promised
  <2>. HIDE DEF T, U
  <2>7. Rates!Min(T) \in T /\ \A y \in T : Rates!Min(T) <= y
    BY <2>3, MinIs
  <2>8. Rates!Min(T) + RateWindow \in U /\ U \in SUBSET Nat /\ \A y \in U : Rates!Min(T) + RateWindow <= y
    <3>1. Rates!Min(T) + RateWindow \in U
      BY <2>4, <2>7
    <3>2. ASSUME NEW y \in U  PROVE y \in Nat /\ Rates!Min(T) + RateWindow <= y
      <4>1. PICK t \in T : y = t + RateWindow
        BY <2>4
      <4>2. t \in Nat /\ Rates!Min(T) \in Nat /\ Rates!Min(T) <= t /\ RateWindow \in Nat
        BY <2>3, <2>7, RateFacts
      <4>. QED  BY <4>1, <4>2
    <3>. QED  BY <3>1, <3>2
  <2>9. Rates!Min(U) = Rates!Min(T) + RateWindow
    BY <2>8, MinUnique
  <2>. QED  BY <2>5, <2>6, <2>9
<1>7. CASE ~(~Rates!LiveBucket(k) /\ Cardinality(others) >= MaxKeys)
  <2>1. ~(k \notin C /\ Cardinality(C) >= MaxKeys)
    BY <1>4, <1>7
  <2>2. Rates!RedisVerdict(k, clock) = IF Cardinality(Rates!Stamps(k, clock)) >= RateLimit
           THEN Rates!Refused("limited", Rates!Min({m.time : m \in Rates!Stamps(k, clock)}) + RateWindow, clock)
           ELSE Rates!Accepted
    BY <1>7, RatesCardinality DEF Rates!RedisVerdict
  <2>3. Rates!Promised(k, clock) = IF Cardinality(Rates!Recent(k, clock)) >= RateLimit
           THEN Rates!Refused("limited", Rates!Min({log[k][i] : i \in Rates!Recent(k, clock)}) + RateWindow, clock)
           ELSE Rates!Accepted
    BY <2>1, RatesCardinality DEF Rates!Promised
  <2>. DEFINE a == {m.time : m \in Rates!Stamps(k, clock)}
              b == {log[k][i] : i \in Rates!Recent(k, clock)}
  <2>4. a = b /\ Rates!Min(a) = Rates!Min(b)
    BY <1>5
  <2>. HIDE DEF a, b
  <2>5. Rates!RedisVerdict(k, clock) = IF Cardinality(Rates!Recent(k, clock)) >= RateLimit
           THEN Rates!Refused("limited", Rates!Min(b) + RateWindow, clock) ELSE Rates!Accepted
    BY <1>5, <2>2, <2>4 DEF a
  <2>6. Rates!Promised(k, clock) = IF Cardinality(Rates!Recent(k, clock)) >= RateLimit
           THEN Rates!Refused("limited", Rates!Min(b) + RateWindow, clock) ELSE Rates!Accepted
    BY <2>3 DEF b
  <2>. QED  BY <2>5, <2>6
<1>. QED  BY <1>6, <1>7

LEMMA RedisTypes ==
    ASSUME Rates!TypeOK, NEW call \in flying, Rates!ConsumeRedis(call)
    PROVE  Rates!TypeOK' /\ flying' \subseteq flying /\ clock' = clock
<1>. DEFINE k == call.key
            now == call.now
            v == Rates!RedisVerdict(k, now)
            recent == Rates!Stamps(k, now)
<1>1. k \in RateKeys /\ now \in Rates!Times /\ clock \in Rates!Times /\ clock + RateWindow \in Nat /\ now + RateWindow \in Nat /\ now \in Nat
  <2>1. k \in RateKeys /\ now \in Rates!Times /\ clock \in Rates!Times
    BY DEF Rates!TypeOK
  <2>. HIDE DEF k, now
  <2>2. \A t \in Rates!Times : t \in Nat /\ t + RateWindow \in Nat
    BY RateFacts DEF Rates!Times
  <2>. QED  BY <2>1, <2>2
<1>2. Rates!LiveScores(now) \in [RateKeys -> Nat]
  BY DEF Rates!LiveScores, Rates!TypeOK
<1>3. recent \in SUBSET [time : Rates!Times, number : Nat]
  BY <1>1 DEF Rates!Stamps, Rates!TypeOK
<1>4. Rates!Records(k, now, v)
  BY DEF Rates!ConsumeRedis
<1>. HIDE DEF v, recent, now, k
<1>5. log' \in [RateKeys -> Seq(Rates!Times)] /\ last' \in [RateKeys -> {0} \cup Rates!Times]
  BY <1>1, <1>4, RecordsTypes
<1>6. /\ active' \in [RateKeys -> Nat] /\ stamps' \in [RateKeys -> SUBSET [time : Rates!Times, number : Nat]]
      /\ sequence' \in [RateKeys -> Nat] /\ lives' \in [RateKeys -> Nat] /\ setLives' \in Nat
  <2>1. CASE v.answer = "full"
    <3>1. active' = [Rates!LiveScores(now) EXCEPT ![k] = 0] /\ UNCHANGED <<stamps, sequence, lives, setLives>>
      BY <2>1 DEF Rates!ConsumeRedis, v, k, now
    <3>. QED  BY <1>1, <1>2, <3>1 DEF Rates!TypeOK
  <2>2. CASE v.answer # "full"
    <3>1. /\ active' = [Rates!LiveScores(now) EXCEPT ![k] = now + RateWindow] /\ setLives' = clock + RateWindow
          /\ IF v = Rates!Accepted
             THEN /\ sequence' = [sequence EXCEPT ![k] = @ + 1]
                  /\ stamps' = [stamps EXCEPT ![k] = recent \cup {[time |-> now, number |-> sequence'[k]]}]
                  /\ lives' = [lives EXCEPT ![k] = clock + RateWindow]
             ELSE /\ stamps' = [stamps EXCEPT ![k] = recent]
                  /\ UNCHANGED <<sequence, lives>>
      BY <2>2 DEF Rates!ConsumeRedis, v, k, now, recent
    <3>2. active' \in [RateKeys -> Nat] /\ setLives' \in Nat
      BY <1>1, <1>2, <3>1
    <3>3. CASE v = Rates!Accepted
      <4>1. sequence' \in [RateKeys -> Nat]
        <5>1. sequence \in [RateKeys -> Nat] /\ \A n \in Nat : n + 1 \in Nat
          BY DEF Rates!TypeOK
        <5>2. sequence' = [sequence EXCEPT ![k] = @ + 1]
          BY <3>1, <3>3
        <5>. QED  BY <5>1, <5>2
      <4>2. recent \cup {[time |-> now, number |-> sequence'[k]]} \in SUBSET [time : Rates!Times, number : Nat]
        BY <1>1, <1>3, <4>1
      <4>3. stamps' \in [RateKeys -> SUBSET [time : Rates!Times, number : Nat]]
        <5>1. stamps' = [stamps EXCEPT ![k] = recent \cup {[time |-> now, number |-> sequence'[k]]}]
          BY <3>1, <3>3
        <5>. DEFINE new == recent \cup {[time |-> now, number |-> sequence'[k]]}
        <5>2. stamps' = [stamps EXCEPT ![k] = new] /\ new \in SUBSET [time : Rates!Times, number : Nat]
          BY <4>2, <5>1
        <5>. HIDE DEF new
        <5>. QED  BY <5>2 DEF Rates!TypeOK
      <4>4. lives' \in [RateKeys -> Nat]
        BY <1>1, <3>1, <3>3 DEF Rates!TypeOK
      <4>. QED  BY <3>2, <4>1, <4>3, <4>4
    <3>4. CASE v # Rates!Accepted
      BY <1>1, <1>3, <3>1, <3>2, <3>4 DEF Rates!TypeOK
    <3>. QED  BY <3>3, <3>4
  <2>. QED  BY <2>1, <2>2
<1>7. /\ shared' = shared /\ clock' = clock /\ buckets' = buckets /\ flying' = flying \ {call}
      /\ late' \in BOOLEAN
  BY DEF Rates!ConsumeRedis
<1>. QED  BY <1>5, <1>6, <1>7 DEF Rates!TypeOK

LEMMA RedisKeeps ==
    ASSUME Rates!TypeOK, LogInv, RedisInv, NEW call \in flying, Rates!ConsumeRedis(call), call.now = clock
    PROVE  LogInv' /\ RedisInv'
<1>. DEFINE k == call.key
            v == Rates!Promised(k, clock)
            recent == Rates!Stamps(k, clock)
<1>1. k \in RateKeys /\ clock \in Rates!Times /\ clock \in Nat /\ clock >= 1 /\ RateWindow \in Nat /\ RateWindow >= 1
  BY Typed, RateFacts DEF Rates!TypeOK
<1>2. Rates!RedisVerdict(k, call.now) = v
  BY <1>1, RedisAnswers
<1>3. Rates!Records(k, clock, v) /\ clock' = clock
  BY <1>2 DEF Rates!ConsumeRedis
<1>4. LogInv'
  BY <1>1, <1>3, RecordsKeepLog
<1>5. /\ log' = IF v = Rates!Accepted THEN [log EXCEPT ![k] = Append(log[k], clock)] ELSE log
      /\ last' = IF v.answer # "full" THEN [last EXCEPT ![k] = clock] ELSE last
  BY <1>1, <1>3, RecordsAtClock
<1>6. log \in [RateKeys -> Seq(Rates!Times)] /\ last \in [RateKeys -> {0} \cup Rates!Times] /\ stamps \in [RateKeys -> SUBSET [time : Rates!Times, number : Nat]]
      /\ sequence \in [RateKeys -> Nat] /\ lives \in [RateKeys -> Nat] /\ active \in [RateKeys -> Nat]
      /\ \A j \in RateKeys : last[j] \in Nat /\ last[j] <= clock /\ Len(log[j]) \in Nat
  BY Typed DEF Rates!TypeOK, LogInv
<1>7. Rates!LiveScores(clock) \in [RateKeys -> Nat]
      /\ \A j \in RateKeys : Rates!LiveScores(clock)[j] = IF j \in Rates!Counted(clock) THEN last[j] + RateWindow ELSE 0
  <2>1. Rates!LiveScores(clock) \in [RateKeys -> Nat]
    BY <1>6 DEF Rates!LiveScores
  <2>. QED  BY <2>1, ScoresAre
<1>8. \A j \in RateKeys : j \in Rates!Counted(clock) <=> last[j] > 0 /\ last[j] + RateWindow > clock
  BY DEF Rates!Counted, Rates!Within
<1>9. \A j \in RateKeys : j \in Rates!Counted(clock)' <=> last'[j] > 0 /\ last'[j] + RateWindow > clock
  BY <1>3 DEF Rates!Counted, Rates!Within
<1>10. \A j \in RateKeys : log'[j] = log[j] => Rates!Recent(j, clock)' = Rates!Recent(j, clock)
  BY <1>3 DEF Rates!Recent
<1>. DEFINE Part(j) ==
        /\ sequence'[j] = Len(log'[j])
        /\ lives'[j] = IF Len(log'[j]) = 0 THEN 0 ELSE log'[j][Len(log'[j])] + RateWindow
        /\ stamps'[j] \subseteq {[time |-> log'[j][i], number |-> i] : i \in 1 .. Len(log'[j])}
        /\ \A i \in Rates!Recent(j, clock)' : [time |-> log'[j][i], number |-> i] \in stamps'[j]
            Scores(j) ==
        /\ active'[j] <= setLives'
        /\ active'[j] > clock => last'[j] > 0 /\ active'[j] = last'[j] + RateWindow
        /\ j \in Rates!Counted(clock)' => active'[j] = last'[j] + RateWindow
<1>11. ASSUME NEW j \in RateKeys
       PROVE  /\ sequence[j] = Len(log[j])
              /\ lives[j] = IF Len(log[j]) = 0 THEN 0 ELSE log[j][Len(log[j])] + RateWindow
              /\ stamps[j] \subseteq {[time |-> log[j][i], number |-> i] : i \in 1 .. Len(log[j])}
              /\ \A i \in Rates!Recent(j, clock) : [time |-> log[j][i], number |-> i] \in stamps[j]
  BY DEF RedisInv, Member
<1>12. \A j \in RateKeys : log'[j] = log[j] /\ sequence'[j] = sequence[j] /\ lives'[j] = lives[j] /\ stamps'[j] = stamps[j]
           => Part(j)
  BY <1>10, <1>11
<1>13. ASSUME \A j \in RateKeys : Part(j) /\ Scores(j)  PROVE RedisInv'
  BY <1>3, <1>13 DEF RedisInv, Member
<1>14. CASE v.answer = "full"
  <2>1. v # Rates!Accepted
    BY <1>14, VerdictAnswers
  <2>2. /\ active' = [Rates!LiveScores(clock) EXCEPT ![k] = 0]
        /\ UNCHANGED <<stamps, sequence, lives, setLives>>
    BY <1>2, <1>14 DEF Rates!ConsumeRedis
  <2>3. k \notin Rates!Counted(clock)
    BY <1>14, VerdictAnswers, RatesCardinality DEF Rates!Promised
  <2>. HIDE DEF v, k
  <2>4. log' = log /\ last' = last
    BY <1>5, <1>14, <2>1
  <2>5. \A j \in RateKeys : Part(j)
    BY <1>12, <2>2, <2>4
  <2>6. \A j \in RateKeys : Scores(j)
    <3>. TAKE j \in RateKeys
    <3>1. active'[j] = IF j = k THEN 0 ELSE Rates!LiveScores(clock)[j]
      BY <1>1, <1>7, <2>2
    <3>2. active[j] <= setLives /\ setLives \in Nat /\ (j \in Rates!Counted(clock) => active[j] = last[j] + RateWindow)
      BY DEF RedisInv, Rates!TypeOK
    <3>3. j \in Rates!Counted(clock)' <=> j \in Rates!Counted(clock)
      BY <1>8, <1>9, <2>4
    <3>4. active'[j] = IF j \in Rates!Counted(clock) THEN last[j] + RateWindow ELSE 0
      BY <1>7, <2>3, <3>1
    <3>. QED  BY <1>1, <1>6, <1>8, <2>2, <2>4, <3>2, <3>3, <3>4
  <2>. QED  BY <1>4, <1>13, <2>5, <2>6
<1>15. CASE v.answer # "full"
  <2>1. /\ active' = [Rates!LiveScores(clock) EXCEPT ![k] = clock + RateWindow] /\ setLives' = clock + RateWindow
        /\ IF v = Rates!Accepted
           THEN /\ sequence' = [sequence EXCEPT ![k] = @ + 1]
                /\ stamps' = [stamps EXCEPT ![k] = recent \cup {[time |-> clock, number |-> sequence'[k]]}]
                /\ lives' = [lives EXCEPT ![k] = clock + RateWindow]
           ELSE /\ stamps' = [stamps EXCEPT ![k] = recent]
                /\ UNCHANGED <<sequence, lives>>
    BY <1>2, <1>15 DEF Rates!ConsumeRedis
  <2>. HIDE DEF v, k
  <2>2. last' = [last EXCEPT ![k] = clock]
    BY <1>5, <1>15
  <2>3. \A j \in RateKeys : Scores(j)
    <3>. TAKE j \in RateKeys
    <3>1. CASE j = k
      <4>1. active'[j] = clock + RateWindow /\ last'[j] = clock
        BY <1>1, <1>6, <1>7, <2>1, <2>2, <3>1
      <4>. QED  BY <1>1, <2>1, <4>1
    <3>2. CASE j # k
      <4>1. active'[j] = Rates!LiveScores(clock)[j] /\ last'[j] = last[j]
        BY <1>1, <1>6, <1>7, <2>1, <2>2, <3>2
      <4>2. active'[j] = IF j \in Rates!Counted(clock) THEN last[j] + RateWindow ELSE 0
        BY <1>7, <4>1
      <4>. QED  BY <1>1, <1>6, <1>8, <1>9, <2>1, <4>1, <4>2
    <3>. QED  BY <3>1, <3>2
  <2>4. recent \subseteq stamps[k] /\ \A i \in Rates!Recent(k, clock) : [time |-> log[k][i], number |-> i] \in recent
    <3>1. recent = {Member(k, i) : i \in Rates!Recent(k, clock)}
      BY <1>1, StampsAre
    <3>2. recent \subseteq stamps[k]
      BY DEF Rates!Stamps
    <3>. HIDE DEF recent
    <3>. QED  BY <3>1, <3>2 DEF Member
  <2>. HIDE DEF recent
  <2>5. CASE v # Rates!Accepted
    <3>1. log' = log /\ stamps' = [stamps EXCEPT ![k] = recent] /\ sequence' = sequence /\ lives' = lives
      BY <1>5, <2>1, <2>5
    <3>2. ASSUME NEW j \in RateKeys  PROVE Part(j)
      <4>1. CASE j # k
        <5>1. stamps'[j] = stamps[j]
          BY <1>6, <3>1, <4>1
        <5>. QED  BY <1>12, <3>1, <5>1
      <4>2. CASE j = k
        <5>1. stamps'[j] = recent
          BY <1>1, <1>6, <3>1, <4>2
        <5>2. Rates!Recent(j, clock)' = Rates!Recent(j, clock)
          BY <1>10, <3>1
        <5>3. stamps'[j] \subseteq {[time |-> log[j][i], number |-> i] : i \in 1 .. Len(log[j])}
          BY <1>11, <2>4, <4>2, <5>1
        <5>. QED  BY <1>11, <2>4, <3>1, <4>2, <5>1, <5>2, <5>3
      <4>. QED  BY <4>1, <4>2
    <3>. QED  BY <1>4, <1>13, <2>3, <3>2
  <2>6. CASE v = Rates!Accepted
    <3>1. /\ log' = [log EXCEPT ![k] = Append(log[k], clock)]
          /\ sequence' = [sequence EXCEPT ![k] = @ + 1]
          /\ stamps' = [stamps EXCEPT ![k] = recent \cup {[time |-> clock, number |-> sequence'[k]]}]
          /\ lives' = [lives EXCEPT ![k] = clock + RateWindow]
      BY <1>5, <2>1, <2>6
    <3>2. ASSUME NEW j \in RateKeys  PROVE Part(j)
      <4>1. CASE j # k
        <5>1. stamps'[j] = stamps[j] /\ log'[j] = log[j] /\ sequence'[j] = sequence[j] /\ lives'[j] = lives[j]
          BY <1>6, <3>1, <4>1
        <5>. QED  BY <1>12, <5>1
      <4>2. CASE j = k
        <5>. DEFINE n == Len(log[k])
                    at(i) == [time |-> log[k][i], number |-> i]
                    new == [time |-> clock, number |-> n + 1]
                    m == Append(log[k], clock)
        <5>1. n \in Nat /\ Len(m) = n + 1 /\ m[n + 1] = clock /\ \A i \in 1 .. n : m[i] = log[k][i]
          BY <1>1, <1>6, AppendProperties
        <5>2. log'[k] = m /\ sequence'[k] = n + 1 /\ lives'[k] = clock + RateWindow
          BY <1>1, <1>6, <1>11, <3>1
        <5>3. stamps'[k] = recent \cup {new}
          <6>1. sequence'[k] = n + 1
            BY <5>2
          <6>. QED  BY <1>1, <1>6, <3>1, <6>1
        <5>. HIDE DEF m
        <5>4. Rates!Recent(k, clock)' \subseteq Rates!Recent(k, clock) \cup {n + 1}
          <6>. SUFFICES ASSUME NEW i \in Rates!Recent(k, clock)', i # n + 1  PROVE i \in Rates!Recent(k, clock)
            OBVIOUS
          <6>1. i \in 1 .. n + 1 /\ m[i] + RateWindow > clock
            BY <1>3, <5>1, <5>2 DEF Rates!Recent, Rates!Within
          <6>2. i \in 1 .. n
            BY <5>1, <6>1
          <6>3. m[i] = log[k][i]
            BY <5>1, <6>2
          <6>. QED  BY <6>1, <6>2, <6>3 DEF Rates!Recent, Rates!Within
        <5>5. Rates!Recent(k, clock) \subseteq 1 .. n
          BY DEF Rates!Recent
        <5>6. \A i \in 1 .. n : [time |-> m[i], number |-> i] = at(i) /\ i \in 1 .. n + 1
          BY <5>1
        <5>7. [time |-> m[n + 1], number |-> n + 1] = new /\ n + 1 \in 1 .. n + 1
          BY <5>1
        <5>8. recent \subseteq {at(i) : i \in 1 .. n} /\ \A i \in Rates!Recent(k, clock) : at(i) \in recent
          BY <1>1, <1>11, <2>4
        <5>. HIDE DEF at, new, n
        <5>9. recent \cup {new} \subseteq {[time |-> m[i], number |-> i] : i \in 1 .. n + 1}
          <6>. SUFFICES ASSUME NEW x \in recent \cup {new}
                        PROVE  \E i \in 1 .. n + 1 : x = [time |-> m[i], number |-> i]
            OBVIOUS
          <6>1. CASE x = new
            BY <5>7, <6>1
          <6>2. CASE x \in recent
            <7>1. PICK i \in 1 .. n : x = at(i)
              BY <5>8, <6>2
            <7>. QED  BY <5>6, <7>1
          <6>. QED  BY <6>1, <6>2
        <5>10. ASSUME NEW i \in Rates!Recent(k, clock)'
               PROVE  [time |-> m[i], number |-> i] \in recent \cup {new}
          <6>1. CASE i = n + 1
            BY <5>7, <6>1
          <6>2. CASE i \in Rates!Recent(k, clock)
            BY <5>5, <5>6, <5>8, <6>2
          <6>. QED  BY <5>4, <6>1, <6>2
        <5>11. Len(m) # 0 /\ m[Len(m)] = clock
          BY <5>1
        <5>. QED  BY <4>2, <5>1, <5>2, <5>3, <5>9, <5>10, <5>11
      <4>. QED  BY <4>1, <4>2
    <3>. QED  BY <1>4, <1>13, <2>3, <3>2
  <2>. QED  BY <2>5, <2>6
<1>. QED  BY <1>14, <1>15

-----------------------------------------------------------------------------
(* The invariant.                                                          *)

LEMMA RateInit == Rates!Init => RateInv
<1>. SUFFICES ASSUME Rates!Init PROVE RateInv
  OBVIOUS
<1>1. Rates!TypeOK
  <2>1. <<>> \in Seq(Rates!Times) /\ <<>> \in Seq(Rates!Buckets) /\ 1 \in Rates!Times
    <3>1. <<>> \in Seq(Rates!Times) /\ <<>> \in Seq(Rates!Buckets)
      OBVIOUS
    <3>. QED  BY <3>1, RateFacts DEF Rates!Times
  <2>2. /\ log \in [RateKeys -> Seq(Rates!Times)] /\ last \in [RateKeys -> {0} \cup Rates!Times]
        /\ stamps \in [RateKeys -> SUBSET [time : Rates!Times, number : Nat]]
    BY <2>1 DEF Rates!Init
  <2>. QED  BY <2>1, <2>2 DEF Rates!Init, Rates!TypeOK
<1>2. Rates!Counted(clock) = {} /\ \A k \in RateKeys : Rates!Recent(k, clock) = {}
  BY DEF Rates!Init, Rates!Counted, Rates!Recent
<1>3. Cardinality(Rates!Counted(clock)) = 0 /\ \A k \in RateKeys : Cardinality(Rates!Recent(k, clock)) = 0
  BY <1>2, FS_EmptySet
<1>4. LogInv
  BY <1>3, RateFacts DEF Rates!Init, LogInv
<1>5. MemoryInv
  BY <1>2 DEF Rates!Init, MemoryInv, Ordered
<1>6. RedisInv
  BY <1>2 DEF Rates!Init, RedisInv
<1>. QED  BY <1>1, <1>4, <1>5, <1>6 DEF Rates!Init, RateInv

LEMMA TickKeeps == RateInv /\ Rates!Tick => RateInv'
<1>. SUFFICES ASSUME RateInv, Rates!Tick PROVE RateInv'
  OBVIOUS
<1>1. Rates!TypeOK /\ clock \in Nat
  BY Typed DEF RateInv
<1>2. clock' = clock + 1 /\ UNCHANGED <<shared, buckets, Rates!redisVars, flying, log, last, late>>
  BY DEF Rates!Tick
<1>3. Rates!TypeOK'
  <2>1. clock' \in Rates!Times
    BY <1>1, RateFacts DEF Rates!Tick, Rates!TypeOK, Rates!Times
  <2>. QED  BY <1>1, <1>2, <2>1 DEF Rates!TypeOK, Rates!redisVars
<1>4. ~late' => LogInv'
  BY <1>2, TickKeepsLog DEF RateInv
<1>5. \A t \in Nat : ~Rates!Within(t, clock) => ~Rates!Within(t, clock + 1)
  BY <1>1, RateFacts DEF Rates!Within
<1>6. Rates!Counted(clock)' \subseteq Rates!Counted(clock) /\ \A k \in RateKeys : Rates!Recent(k, clock)' \subseteq Rates!Recent(k, clock)
  <2>1. Rates!Counted(clock)' = Rates!Counted(clock + 1) /\ \A k \in RateKeys : Rates!Recent(k, clock)' = Rates!Recent(k, clock + 1)
    BY <1>2 DEF Rates!Counted, Rates!Recent
  <2>. QED  BY <1>1, <2>1, TimeForgets
<1>7. MemoryInv => MemoryInv'
  <2>. SUFFICES ASSUME MemoryInv PROVE MemoryInv'
    OBVIOUS
  <2>1. \A i \in 1 .. Len(buckets) : buckets[i] \in Rates!Buckets
    BY <1>1, ElementOfSeq DEF Rates!TypeOK
  <2>2. ASSUME NEW i \in 1 .. Len(buckets)  PROVE FollowsLog(buckets[i])'
    <3>1. FollowsLog(buckets[i]) /\ buckets[i].key \in RateKeys
      BY <2>1 DEF MemoryInv, Ordered, Rates!Buckets
    <3>. DEFINE k == buckets[i].key
    <3>2. PICK d \in 0 .. Len(log[k]) :
        /\ buckets[i].stamps = SubSeq(log[k], d + 1, Len(log[k]))
        /\ \A j \in 1 .. d : ~Rates!Within(log[k][j], clock)
      BY <3>1 DEF FollowsLog
    <3>3. \A j \in 1 .. d : ~Rates!Within(log[k][j], clock + 1)
      <4>. TAKE j \in 1 .. d
      <4>1. j \in 1 .. Len(log[k]) /\ log[k][j] \in Nat
        BY <1>1, <3>1, Typed
      <4>. QED  BY <1>5, <3>2, <4>1
    <3>. QED  BY <1>2, <3>1, <3>2, <3>3 DEF FollowsLog, Rates!Within
  <2>. QED  BY <1>2, <1>6, <2>2 DEF MemoryInv, Ordered
<1>8. RedisInv => RedisInv'
  <2>. SUFFICES ASSUME RedisInv, NEW k \in RateKeys
                PROVE  /\ \A i \in Rates!Recent(k, clock)' : Member(k, i) \in stamps[k]
                       /\ active[k] > clock + 1 => active[k] > clock
                       /\ k \in Rates!Counted(clock)' => k \in Rates!Counted(clock)
    BY <1>2 DEF RedisInv, Member, Rates!redisVars
  <2>1. active[k] \in Nat
    BY <1>1 DEF Rates!TypeOK
  <2>. QED  BY <1>1, <1>6, <2>1 DEF RedisInv
<1>9. \A call \in flying' : call.now <= clock'
  <2>. TAKE call \in flying'
  <2>1. call \in flying /\ call.now <= clock /\ call.now \in Nat
    BY <1>1, <1>2 DEF RateInv, Rates!TypeOK, Rates!Times
  <2>. QED  BY <1>1, <1>2, <2>1
<1>. QED  BY <1>2, <1>3, <1>4, <1>7, <1>8, <1>9 DEF RateInv

LEMMA RateNext == RateInv /\ [Rates!Next]_(Rates!rateVars) => RateInv'
<1>. SUFFICES ASSUME RateInv, [Rates!Next]_(Rates!rateVars) PROVE RateInv'
  OBVIOUS
<1>0. Rates!TypeOK
  BY DEF RateInv
<1>1. CASE Rates!Tick
  BY <1>1, TickKeeps
<1>2. ASSUME NEW k \in RateKeys, Rates!ConsumeMemory(k)  PROVE RateInv'
  <2>1. ~shared /\ MemoryInv /\ LogInv /\ ~late /\ flying = {}
    BY <1>2 DEF Rates!ConsumeMemory, RateInv
  <2>2. Rates!TypeOK' /\ LogInv' /\ MemoryInv'
    BY <1>0, <1>2, <2>1, ConsumeMemoryKeeps
  <2>3. ~shared' /\ ~late' /\ flying' = {}
    BY <1>2, <2>1 DEF Rates!ConsumeMemory
  <2>. QED  BY <2>2, <2>3 DEF RateInv
<1>3. ASSUME NEW k \in RateKeys, Rates!StartRedis(k)  PROVE RateInv'
  <2>1. /\ shared' /\ shared /\ flying' = {[key |-> k, now |-> clock]}
        /\ UNCHANGED <<shared, clock, buckets, Rates!redisVars, log, last, late>>
    BY <1>3 DEF Rates!StartRedis
  <2>2. Rates!TypeOK'
    BY <1>0, <2>1 DEF Rates!TypeOK, Rates!redisVars
  <2>3. LogInv => LogInv'
    BY <2>1 DEF LogInv, Rates!Recent, Rates!Counted
  <2>4. RedisInv => RedisInv'
    BY <2>1 DEF RedisInv, Member, Rates!Recent, Rates!Counted, Rates!redisVars
  <2>5. \A call \in flying' : call.now <= clock'
    BY <1>0, <2>1, Typed
  <2>. QED  BY <2>1, <2>2, <2>3, <2>4, <2>5 DEF RateInv
<1>4. ASSUME NEW call \in flying, Rates!ConsumeRedis(call)  PROVE RateInv'
  <2>1. Rates!TypeOK' /\ flying' \subseteq flying /\ clock' = clock
    BY <1>0, <1>4, RedisTypes
  <2>2. shared' = shared /\ (late' <=> late \/ call.now < clock) /\ (shared \/ flying = {})
    BY <1>4 DEF Rates!ConsumeRedis, RateInv
  <2>3. call.now <= clock /\ call.now \in Nat /\ clock \in Nat
    BY <1>0, Typed DEF RateInv, Rates!TypeOK, Rates!Times
  <2>4. ~late' => LogInv' /\ RedisInv'
    <3>. SUFFICES ASSUME ~late'  PROVE LogInv' /\ RedisInv'
      OBVIOUS
    <3>1. ~late /\ call.now = clock /\ shared
      BY <2>2, <2>3
    <3>2. LogInv /\ RedisInv
      BY <3>1 DEF RateInv
    <3>. QED  BY <1>0, <1>4, <3>1, <3>2, RedisKeeps
  <2>. QED  BY <2>1, <2>2, <2>4 DEF RateInv
<1>5. CASE UNCHANGED Rates!rateVars
  <2>1. UNCHANGED <<shared, clock, buckets, stamps, sequence, lives, active, setLives, flying, log, last, late>>
    BY <1>5 DEF Rates!rateVars, Rates!redisVars
  <2>2. Rates!TypeOK'
    BY <1>0, <2>1 DEF Rates!TypeOK
  <2>3. LogInv => LogInv'
    BY <2>1 DEF LogInv, Rates!Recent, Rates!Counted
  <2>4. RedisInv => RedisInv'
    BY <2>1 DEF RedisInv, Member, Rates!Recent, Rates!Counted
  <2>5. MemoryInv => MemoryInv'
    BY <2>1 DEF MemoryInv, Ordered, FollowsLog, Rates!Counted
  <2>. QED  BY <2>1, <2>2, <2>3, <2>4, <2>5 DEF RateInv
<1>. QED  BY <1>1, <1>2, <1>3, <1>4, <1>5 DEF Rates!Next

LEMMA RatesFollow == RateInv => Rates!TypeOK /\ Rates!RatesAreLimited
<1>. SUFFICES ASSUME RateInv PROVE Rates!TypeOK /\ Rates!RatesAreLimited
  OBVIOUS
<1>1. Rates!TypeOK /\ (~late => LogInv)
  BY DEF RateInv
<1>2. Rates!MemoryKeepsPromise
  BY <1>1, MemoryAnswers DEF Rates!MemoryKeepsPromise, RateInv
<1>3. Rates!RedisKeepsPromise
  BY <1>1, RedisAnswers DEF Rates!RedisKeepsPromise, RateInv
<1>4. Rates!RetriesAreHonest
  BY <1>1, RetriesHonest
<1>. QED  BY <1>1, <1>2, <1>3, <1>4 DEF Rates!RatesAreLimited
-----------------------------------------------------------------------------
(* Tokens.                                                                 *)

LEMMA AuthCardinality == \A S : Auth!Cardinality(S) = Cardinality(S)
BY DEF Auth!Cardinality, Cardinality

LEMMA AuthFinite == \A S : Auth!IsFiniteSet(S) <=> IsFiniteSet(S)
BY DEF Auth!IsFiniteSet, IsFiniteSet

USE DEF Auth!Issued, Auth!LiveTokens, Auth!Goto, Auth!Advance, Auth!lockVars, Auth!historyVars

Row == [family : {0} \cup Tokens, state : {"none", "live", "revoked"}, born : Nat]

(* The tokens: in order, with families that were issued; one lives.        *)
TokensInOrder ==
    /\ token \in [Tokens -> Row]
    /\ Auth!FirstFree \in Nat /\ \A t \in Tokens : t \in Auth!Issued <=> t < Auth!FirstFree
    /\ \A t \in Auth!Issued : token[t].family \in Auth!Issued
    /\ \A t, u \in Auth!LiveTokens : token[t].family = token[u].family => t = u

(* What the requests hold on to.                                           *)
RequestsKnowIssued ==
    /\ \A r \in AuthRequests :
        /\ authPc[r] \in {"token", "family"} => shown[r] \in Auth!Issued
        /\ authPc[r] = "user" /\ AuthKind[r] = "refresh" => shown[r] \in Auth!Issued
        /\ matched[r] \subseteq Auth!Issued
    /\ ended \subseteq Auth!Issued

EndedFamiliesAreDead == \A t \in Auth!LiveTokens : token[t].family \notin ended \ missed
LiveTokensAreCurrent == \A t \in Auth!LiveTokens : token[t].born = epoch
OldAccessIsOlder ==
    ~stale => \A a \in access :
        a.version <= user.version /\ (a.born < epoch /\ user.active => a.version < user.version)

CredInv == /\ Auth!TypeOK /\ TokensInOrder /\ RequestsKnowIssued
           /\ EndedFamiliesAreDead /\ LiveTokensAreCurrent /\ OldAccessIsOlder

-----------------------------------------------------------------------------
(* What the two statements that write tokens do.                           *)

LEMMA IssuedIsFinite ==
    ASSUME Auth!AuthAssumption
    PROVE  /\ Tokens \subseteq Nat \ {0} /\ IsFiniteSet(Auth!Issued)
           /\ Auth!FirstFree \in Nat \ {0}
<1>1. Cardinality(Tokens) \in Nat /\ Tokens \subseteq Nat \ {0}
  BY FS_CardinalityType, AuthCardinality, AuthFinite DEF Auth!AuthAssumption
<1>2. IsFiniteSet(Auth!Issued) /\ Cardinality(Auth!Issued) \in Nat
  BY FS_Subset, FS_CardinalityType, AuthCardinality, AuthFinite DEF Auth!AuthAssumption
<1> QED BY <1>1, <1>2, AuthCardinality DEF Auth!FirstFree

(* Revoking tokens issues none and leaves the others alone.                *)
LEMMA RevokingKeepsOrder ==
    ASSUME token \in [Tokens -> Row], NEW T \in SUBSET Auth!Issued, token' = Auth!Revoked(T)
    PROVE  /\ token' \in [Tokens -> Row] /\ Auth!Issued' = Auth!Issued
           /\ Auth!LiveTokens' = Auth!LiveTokens \ T
           /\ \A t \in Tokens : token'[t].family = token[t].family /\ token'[t].born = token[t].born
<1>1. \A t \in Tokens : token'[t] = IF t \in T THEN [token[t] EXCEPT !.state = "revoked"] ELSE token[t]
  BY DEF Auth!Revoked
<1>2. token' \in [Tokens -> Row]
  BY <1>1 DEF Auth!Revoked, Row
<1>3. \A t \in Tokens : /\ token'[t].family = token[t].family /\ token'[t].born = token[t].born
                        /\ token'[t].state = IF t \in T THEN "revoked" ELSE token[t].state
  BY <1>1 DEF Row
<1> QED BY <1>2, <1>3

(* A token that is issued while some are revoked.                          *)
LEMMA IssuingKeepsOrder ==
    ASSUME Auth!AuthAssumption, TokensInOrder, epoch \in Nat, Auth!FirstFree \in Tokens,
           NEW T \in SUBSET Auth!Issued, NEW f \in Auth!Issued \cup {Auth!FirstFree},
           token' = [Auth!Revoked(T) EXCEPT ![Auth!FirstFree] = Auth!NewToken(f)]
    PROVE  /\ token' \in [Tokens -> Row] /\ Auth!Issued' = Auth!Issued \cup {Auth!FirstFree}
           /\ Auth!FirstFree \notin Auth!Issued
           /\ Auth!LiveTokens' = (Auth!LiveTokens \ T) \cup {Auth!FirstFree}
           /\ token'[Auth!FirstFree] = Auth!NewToken(f)
           /\ \A t \in Tokens \ {Auth!FirstFree} :
                token'[t].family = token[t].family /\ token'[t].born = token[t].born
           /\ Auth!FirstFree' \in Nat /\ \A t \in Tokens : t \in Auth!Issued' <=> t < Auth!FirstFree'
<1>0. Auth!FirstFree \in Nat /\ Tokens \subseteq Nat /\ Auth!FirstFree \notin Auth!Issued
  BY IssuedIsFinite DEF TokensInOrder
<1>1. \A t \in Tokens : Auth!Revoked(T)[t] = IF t \in T THEN [token[t] EXCEPT !.state = "revoked"] ELSE token[t]
  BY DEF Auth!Revoked
<1>2. \A t \in Tokens : token'[t] = IF t = Auth!FirstFree THEN Auth!NewToken(f) ELSE Auth!Revoked(T)[t]
  BY DEF Auth!Revoked
<1>3. token \in [Tokens -> Row] /\ Auth!Issued \subseteq Tokens
  BY DEF TokensInOrder
<1>4. Auth!NewToken(f) \in Row /\ Auth!NewToken(f).state = "live"
  BY <1>3 DEF Auth!NewToken, Row
<1>5. \A t \in Tokens :
          /\ Auth!Revoked(T)[t] \in Row
          /\ Auth!Revoked(T)[t].family = token[t].family /\ Auth!Revoked(T)[t].born = token[t].born
          /\ Auth!Revoked(T)[t].state = IF t \in T THEN "revoked" ELSE token[t].state
  BY <1>1, <1>3 DEF Row
<1>6. /\ token' \in [Tokens -> Row]
      /\ \A t \in Tokens \ {Auth!FirstFree} :
            /\ token'[t].family = token[t].family /\ token'[t].born = token[t].born
            /\ token'[t].state = IF t \in T THEN "revoked" ELSE token[t].state
  <2>1. \A t \in Tokens : token'[t] \in Row
    BY <1>2, <1>4, <1>5
  <2>2. token' = [t \in Tokens |-> token'[t]]
    BY DEF Auth!Revoked
  <2> QED BY <2>1, <2>2, <1>2, <1>5
<1>7. Auth!Issued' = Auth!Issued \cup {Auth!FirstFree}
  BY <1>2, <1>4, <1>6, <1>3
<1>8. Auth!LiveTokens' = (Auth!LiveTokens \ T) \cup {Auth!FirstFree}
  BY <1>2, <1>4, <1>6, <1>3, <1>0
<1>9. Auth!FirstFree' = Auth!FirstFree + 1
  <2> HIDE DEF Auth!Issued
  <2>1. Cardinality(Auth!Issued') = Cardinality(Auth!Issued) + 1
    BY <1>7, <1>0, IssuedIsFinite, FS_AddElement
  <2>2. Cardinality(Auth!Issued) \in Nat
    BY IssuedIsFinite, FS_CardinalityType
  <2> QED BY <2>1, <2>2, AuthCardinality DEF Auth!FirstFree
<1>10. \A t \in Tokens : t \in Auth!Issued' <=> t < Auth!FirstFree'
  BY <1>7, <1>9, <1>0 DEF TokensInOrder
<1> QED BY <1>0, <1>2, <1>6, <1>7, <1>8, <1>9, <1>10

-----------------------------------------------------------------------------
(* Each step, by what it does to the tokens.                               *)

LEMMA InitCred == ASSUME Auth!AuthAssumption, Auth!Init PROVE CredInv
<1> USE DEF Auth!Init, Auth!Unissued
<1>1. Auth!Issued = {} /\ Auth!LiveTokens = {} /\ token \in [Tokens -> Row]
  BY DEF Row
<1>2. Auth!TypeOK
  BY DEF Auth!TypeOK
<1>3. Auth!FirstFree = 1
  BY <1>1, FS_EmptySet, AuthCardinality DEF Auth!FirstFree
<1>4. TokensInOrder
  BY <1>1, <1>3, IssuedIsFinite DEF TokensInOrder
<1>5. RequestsKnowIssued
  BY <1>1 DEF RequestsKnowIssued
<1> QED BY <1>1, <1>2, <1>4, <1>5
    DEF CredInv, EndedFamiliesAreDead, LiveTokensAreCurrent, OldAccessIsOlder

(* A step that writes no token, user or epoch.                             *)
LEMMA QuietSteps ==
    ASSUME Auth!AuthAssumption, CredInv, NEW r \in AuthRequests,
           Auth!LocksUser(r) \/ Auth!LocksToken(r) \/ Auth!UpdatesFamily(r) \/ Auth!LocksSecurity(r) \/ Auth!UpdateReads(r)
    PROVE  CredInv'
<1>0. /\ UNCHANGED <<user, token, access, Auth!historyVars>>
      /\ Auth!Issued' = Auth!Issued /\ Auth!LiveTokens' = Auth!LiveTokens /\ Auth!FirstFree' = Auth!FirstFree
  BY AuthCardinality DEF Auth!LocksUser, Auth!LocksToken, Auth!UpdatesFamily, Auth!LocksSecurity, Auth!UpdateReads, Auth!FirstFree
<1>1. TokensInOrder' /\ EndedFamiliesAreDead' /\ LiveTokensAreCurrent' /\ OldAccessIsOlder'
  BY <1>0 DEF CredInv, TokensInOrder, EndedFamiliesAreDead, LiveTokensAreCurrent, OldAccessIsOlder
<1>2. /\ authPc' \in [AuthRequests -> {"start", "user", "token", "family", "secure", "read", "done"}]
      /\ shown' \in [AuthRequests -> {0} \cup Tokens] /\ known' \in [AuthRequests -> Nat]
      /\ matched' \in [AuthRequests -> SUBSET Tokens]
  BY DEF CredInv, Auth!TypeOK, Auth!LocksUser, Auth!LocksToken, Auth!UpdatesFamily, Auth!LocksSecurity, Auth!UpdateReads, Auth!LiveOf
<1>3. /\ userLock' \in AuthRequests \cup {Nobody} /\ authSecurity' \in AuthRequests \cup {Nobody}
      /\ tokenLock' \in [Tokens -> AuthRequests \cup {Nobody}]
  BY DEF CredInv, Auth!TypeOK, Auth!LocksUser, Auth!LocksToken, Auth!UpdatesFamily, Auth!LocksSecurity, Auth!UpdateReads
<1>4. Auth!TypeOK'
  BY <1>0, <1>2, <1>3 DEF CredInv, Auth!TypeOK
<1>5. RequestsKnowIssued'
  BY <1>0, <1>2, AuthCardinality, AuthFinite DEF CredInv, Auth!TypeOK, RequestsKnowIssued, Auth!AuthAssumption, Auth!LocksUser, Auth!LocksToken,
                    Auth!UpdatesFamily, Auth!LocksSecurity, Auth!UpdateReads, Auth!LiveOf
<1> QED BY <1>1, <1>4, <1>5 DEF CredInv

(* Types of what a step that writes tokens leaves to the others.           *)
RestIsTyped ==
    /\ userLock' \in AuthRequests \cup {Nobody} /\ authSecurity' \in AuthRequests \cup {Nobody}
    /\ tokenLock' \in [Tokens -> AuthRequests \cup {Nobody}]
    /\ authPc' \in [AuthRequests -> {"start", "user", "token", "family", "secure", "read", "done"}]
    /\ known' \in [AuthRequests -> Nat] /\ shown' = shown

(* A pair is handed out: by a login, or by a refresh for a live token.     *)
LEMMA IssuingSteps ==
    ASSUME Auth!AuthAssumption, CredInv, NEW r \in AuthRequests, Auth!Login(r) \/ Auth!Rotates(r)
    PROVE  CredInv'
<1>1. RestIsTyped /\ authPc' = [authPc EXCEPT ![r] = "done"]
      /\ UNCHANGED <<user, matched, epoch, ended, stale, missed>>
  BY DEF CredInv, Auth!TypeOK, Auth!Login, Auth!Rotates, RestIsTyped, Auth!Unlocked
<1>2. CASE UNCHANGED <<token, access>>
  <2>1. Auth!Issued' = Auth!Issued /\ Auth!LiveTokens' = Auth!LiveTokens /\ Auth!FirstFree' = Auth!FirstFree
    BY <1>2, AuthCardinality DEF Auth!FirstFree
  <2>2. Auth!TypeOK'
    BY <1>1, <1>2 DEF CredInv, Auth!TypeOK, RestIsTyped
  <2>3. TokensInOrder' /\ EndedFamiliesAreDead' /\ LiveTokensAreCurrent' /\ OldAccessIsOlder'
    BY <1>1, <1>2, <2>1 DEF CredInv, TokensInOrder, EndedFamiliesAreDead, LiveTokensAreCurrent,
                            OldAccessIsOlder
  <2>4. RequestsKnowIssued'
    BY <1>1, <2>1 DEF CredInv, Auth!TypeOK, RequestsKnowIssued, RestIsTyped
  <2> QED BY <2>2, <2>3, <2>4 DEF CredInv
<1>3. CASE ~UNCHANGED <<token, access>>
  <2>1. PICK T \in SUBSET Auth!Issued, f \in Auth!Issued \cup {Auth!FirstFree} :
            /\ token' = [Auth!Revoked(T) EXCEPT ![Auth!FirstFree] = Auth!NewToken(f)]
            /\ Auth!FirstFree \in Tokens /\ access' = Auth!NewAccess
            /\ f \notin ended \ missed
            /\ \A t \in Auth!LiveTokens \ T : token[t].family # f
    <3>1. CASE Auth!Login(r)
      <4>1. token' = [Auth!Revoked({}) EXCEPT ![Auth!FirstFree] = Auth!NewToken(Auth!FirstFree)]
        <5>1. Auth!Revoked({}) = token
          BY DEF Auth!Revoked, CredInv, Auth!TypeOK
        <5> QED BY <5>1, <3>1, <1>3 DEF Auth!Login
      <4>2. Auth!FirstFree \notin Auth!Issued
        BY IssuedIsFinite DEF CredInv, TokensInOrder
      <4>3. Auth!FirstFree \notin ended /\ \A t \in Auth!LiveTokens : token[t].family # Auth!FirstFree
        BY <4>2 DEF CredInv, RequestsKnowIssued, TokensInOrder
      <4>4. Auth!FirstFree \in Tokens /\ access' = Auth!NewAccess
        BY <3>1, <1>3 DEF Auth!Login
      <4>5. {} \in SUBSET Auth!Issued /\ Auth!FirstFree \in Auth!Issued \cup {Auth!FirstFree}
        OBVIOUS
      <4>6. \A t \in Auth!LiveTokens \ {} : token[t].family # Auth!FirstFree
        BY <4>3
      <4> HIDE DEF Auth!Issued, Auth!LiveTokens
      <4> WITNESS {} \in SUBSET Auth!Issued, Auth!FirstFree \in Auth!Issued \cup {Auth!FirstFree}
      <4> QED BY <4>1, <4>3, <4>4, <4>6
    <3>2. CASE Auth!Rotates(r)
      <4> DEFINE t0 == shown[r] g == token[t0].family
      <4>1. t0 \in Auth!LiveTokens /\ t0 \in Auth!Issued
        BY <3>2 DEF Auth!Rotates, CredInv, RequestsKnowIssued
      <4>2. g \in Auth!Issued /\ g \notin ended \ missed
        BY <4>1 DEF CredInv, TokensInOrder, EndedFamiliesAreDead
      <4>3. \A t \in Auth!LiveTokens \ {t0} : token[t].family # g
        BY <4>1 DEF CredInv, TokensInOrder
      <4>4. /\ token' = [Auth!Revoked({t0}) EXCEPT ![Auth!FirstFree] = Auth!NewToken(g)]
            /\ Auth!FirstFree \in Tokens /\ access' = Auth!NewAccess
        BY <3>2, <1>3 DEF Auth!Rotates
      <4>5. {t0} \in SUBSET Auth!Issued /\ g \in Auth!Issued \cup {Auth!FirstFree}
        BY <4>1, <4>2
      <4> HIDE DEF Auth!Issued, Auth!LiveTokens, t0, g
      <4> QED BY <4>2, <4>3, <4>4, <4>5
    <3> QED BY <3>1, <3>2
  <2>2. TokensInOrder /\ epoch \in Nat
    BY DEF CredInv, Auth!TypeOK
  <2>3. /\ token' \in [Tokens -> Row] /\ Auth!Issued' = Auth!Issued \cup {Auth!FirstFree}
        /\ Auth!FirstFree \notin Auth!Issued
        /\ Auth!LiveTokens' = (Auth!LiveTokens \ T) \cup {Auth!FirstFree}
        /\ token'[Auth!FirstFree] = Auth!NewToken(f)
        /\ \A t \in Tokens \ {Auth!FirstFree} :
              token'[t].family = token[t].family /\ token'[t].born = token[t].born
        /\ Auth!FirstFree' \in Nat /\ \A t \in Tokens : t \in Auth!Issued' <=> t < Auth!FirstFree'
    BY <2>1, <2>2, IssuingKeepsOrder
  <2>4. token'[Auth!FirstFree].family = f /\ token'[Auth!FirstFree].born = epoch
    BY <2>3 DEF Auth!NewToken
  <2>5. TokensInOrder'
    <3>1. \A t \in Auth!Issued' : token'[t].family \in Auth!Issued'
      BY <2>3, <2>4, <2>2 DEF TokensInOrder
    <3>2. \A t, u \in Auth!LiveTokens' : token'[t].family = token'[u].family => t = u
      BY <2>1, <2>3, <2>4, <2>2 DEF TokensInOrder
    <3> QED BY <2>3, <3>1, <3>2 DEF TokensInOrder
  <2>6. EndedFamiliesAreDead' /\ LiveTokensAreCurrent'
    BY <1>1, <2>1, <2>3, <2>4 DEF CredInv, EndedFamiliesAreDead, LiveTokensAreCurrent
  <2>7. access' = access \cup {[version |-> user.version, born |-> epoch]}
    BY <2>1 DEF Auth!NewAccess
  <2>8. OldAccessIsOlder'
    BY <1>1, <2>7 DEF CredInv, Auth!TypeOK, OldAccessIsOlder
  <2>9. Auth!TypeOK'
    BY <1>1, <2>3, <2>7 DEF CredInv, Auth!TypeOK, RestIsTyped, Row
  <2>10. RequestsKnowIssued'
    BY <1>1, <2>3 DEF CredInv, Auth!TypeOK, RequestsKnowIssued, RestIsTyped
  <2> QED BY <2>5, <2>6, <2>8, <2>9, <2>10 DEF CredInv
<1> QED BY <1>2, <1>3

(* The family of a token is revoked.                                       *)
LEMMA EndsFamilyStep ==
    ASSUME Auth!AuthAssumption, CredInv, NEW r \in AuthRequests, Auth!EndsFamily(r)
    PROVE  CredInv'
<1> DEFINE f == token[shown[r]].family
<1>1. RestIsTyped /\ authPc' = [authPc EXCEPT ![r] = "done"] /\ UNCHANGED <<user, access, epoch, stale>>
      /\ matched' = [matched EXCEPT ![r] = {}]
  BY DEF CredInv, Auth!TypeOK, Auth!EndsFamily, RestIsTyped, Auth!Unlocked
<1>2. token' = Auth!Revoked(matched[r]) /\ matched[r] \subseteq Auth!Issued /\ f \in Auth!Issued
      /\ ended' = ended \cup {f}
      /\ missed' = IF Auth!LiveOf(f) \subseteq matched[r] THEN missed ELSE missed \cup {f}
  BY DEF Auth!EndsFamily, CredInv, RequestsKnowIssued, TokensInOrder
<1>3. /\ token' \in [Tokens -> Row] /\ Auth!Issued' = Auth!Issued /\ Auth!FirstFree' = Auth!FirstFree
      /\ Auth!LiveTokens' = Auth!LiveTokens \ matched[r]
      /\ \A t \in Tokens : token'[t].family = token[t].family /\ token'[t].born = token[t].born
  BY <1>2, RevokingKeepsOrder, AuthCardinality DEF CredInv, TokensInOrder, Auth!FirstFree
<1>4. TokensInOrder' /\ LiveTokensAreCurrent' /\ OldAccessIsOlder'
  BY <1>1, <1>3 DEF CredInv, TokensInOrder, LiveTokensAreCurrent, OldAccessIsOlder
<1>5. EndedFamiliesAreDead'
  <2> SUFFICES ASSUME NEW t \in Auth!LiveTokens', token[t].family \in ended' \ missed' PROVE FALSE
    BY <1>3 DEF EndedFamiliesAreDead
  <2>1. t \in Auth!LiveTokens /\ t \notin matched[r]
    BY <1>3
  <2>2. token[t].family \notin ended \ missed
    BY <2>1 DEF CredInv, EndedFamiliesAreDead
  <2>3. token[t].family = f /\ Auth!LiveOf(f) \subseteq matched[r]
    BY <1>2, <2>2
  <2> QED BY <2>1, <2>3 DEF Auth!LiveOf
<1>6. Auth!TypeOK'
  BY <1>1, <1>2, <1>3 DEF CredInv, Auth!TypeOK, RestIsTyped, Row
<1>7. RequestsKnowIssued'
  BY <1>1, <1>2, <1>3 DEF CredInv, Auth!TypeOK, RequestsKnowIssued, RestIsTyped
<1> QED BY <1>4, <1>5, <1>6, <1>7 DEF CredInv

(* All tokens are revoked, or the password of a disabled account is not    *)
(* changed.                                                                *)
LEMMA RevokingSteps ==
    ASSUME Auth!AuthAssumption, CredInv, NEW r \in AuthRequests,
           Auth!ChangePassword(r) \/ Auth!UpdateCommits(r) \/ Auth!DeleteCommits(r)
    PROVE  CredInv'
<1>1. RestIsTyped /\ authPc' = [authPc EXCEPT ![r] = "done"] /\ UNCHANGED <<matched, access, ended, missed>>
  BY DEF CredInv, Auth!TypeOK, Auth!ChangePassword, Auth!UpdateCommits, Auth!DeleteCommits, RestIsTyped
<1>2. CASE UNCHANGED <<token, epoch, user>> /\ stale' = stale
  <2>1. Auth!Issued' = Auth!Issued /\ Auth!LiveTokens' = Auth!LiveTokens /\ Auth!FirstFree' = Auth!FirstFree
    BY <1>2, AuthCardinality DEF Auth!FirstFree
  <2>2. Auth!TypeOK'
    BY <1>1, <1>2 DEF CredInv, Auth!TypeOK, RestIsTyped
  <2>3. TokensInOrder' /\ EndedFamiliesAreDead' /\ LiveTokensAreCurrent' /\ OldAccessIsOlder'
    BY <1>1, <1>2, <2>1 DEF CredInv, TokensInOrder, EndedFamiliesAreDead, LiveTokensAreCurrent,
                            OldAccessIsOlder
  <2>4. RequestsKnowIssued'
    BY <1>1, <2>1 DEF CredInv, Auth!TypeOK, RequestsKnowIssued, RestIsTyped
  <2> QED BY <2>2, <2>3, <2>4 DEF CredInv
<1>3. CASE Auth!RevokesAll(r)
  <2>1. token' = Auth!Revoked(Auth!LiveTokens) /\ epoch' = epoch + 1 /\ Auth!LiveTokens \subseteq Auth!Issued
    BY <1>3 DEF Auth!RevokesAll
  <2>2. /\ token' \in [Tokens -> Row] /\ Auth!Issued' = Auth!Issued /\ Auth!FirstFree' = Auth!FirstFree
        /\ Auth!LiveTokens' = {}
        /\ \A t \in Tokens : token'[t].family = token[t].family
    BY <2>1, RevokingKeepsOrder, AuthCardinality DEF CredInv, TokensInOrder, Auth!FirstFree
  <2>3. TokensInOrder' /\ EndedFamiliesAreDead' /\ LiveTokensAreCurrent'
    BY <1>1, <2>2 DEF CredInv, TokensInOrder, EndedFamiliesAreDead, LiveTokensAreCurrent
  <2>4. user' \in [version : Nat, active : BOOLEAN] /\ stale' \in BOOLEAN
    <3>1. stale' \in BOOLEAN
      <4>1. stale \in BOOLEAN
        BY DEF CredInv, Auth!TypeOK
      <4>2. stale' = stale \/ stale' = (stale \/ user.version # known[r])
        BY DEF Auth!ChangePassword, Auth!UpdateCommits, Auth!DeleteCommits
      <4> QED BY <4>1, <4>2
    <3>2. user' \in [version : Nat, active : BOOLEAN]
      <4>1. user \in [version : Nat, active : BOOLEAN] /\ known[r] \in Nat
        BY DEF CredInv, Auth!TypeOK
      <4>2. \/ user' = user \/ user' = [user EXCEPT !.version = @ + 1]
            \/ user' = [user EXCEPT !.version = known[r] + 1]
            \/ user' = [user EXCEPT !.active = FALSE]
        BY DEF Auth!ChangePassword, Auth!UpdateCommits, Auth!DeleteCommits
      <4>3. CASE user' = [user EXCEPT !.version = @ + 1]
        BY <4>1, <4>3
      <4>4. CASE user' = [user EXCEPT !.version = known[r] + 1]
        BY <4>1, <4>4
      <4>5. CASE user' = [user EXCEPT !.active = FALSE]
        BY <4>1, <4>5
      <4> QED BY <4>1, <4>2, <4>3, <4>4, <4>5
    <3> QED BY <3>1, <3>2
  <2>5. Auth!TypeOK'
    BY <1>1, <2>1, <2>2, <2>4 DEF CredInv, Auth!TypeOK, RestIsTyped, Row
  <2>6. RequestsKnowIssued'
    BY <1>1, <2>2 DEF CredInv, Auth!TypeOK, RequestsKnowIssued, RestIsTyped
  <2>7. ~stale' => /\ ~stale
                   /\ \/ user'.version = user.version + 1
                      \/ user'.version = user.version /\ ~user'.active
    BY DEF CredInv, Auth!TypeOK, Auth!ChangePassword, Auth!UpdateCommits, Auth!DeleteCommits
  <2>8. OldAccessIsOlder'
    BY <1>1, <2>7, <2>4 DEF CredInv, Auth!TypeOK, OldAccessIsOlder
  <2> QED BY <2>3, <2>5, <2>6, <2>8 DEF CredInv
<1> QED BY <1>2, <1>3 DEF Auth!ChangePassword, Auth!UpdateCommits, Auth!DeleteCommits

-----------------------------------------------------------------------------
(* A family has at most one live token, none after a logout or a reuse,    *)
(* and credentials of before a password change, an update or a deletion    *)
(* are void, with the two exceptions the property names.                   *)

LEMMA CredImpliesSafe == ASSUME Auth!AuthAssumption, CredInv PROVE Auth!TokensAreSafe
<1>1. ASSUME NEW f \in Tokens PROVE Cardinality(Auth!LiveOf(f)) <= 1
  <2>1. Auth!LiveOf(f) \subseteq Auth!LiveTokens /\ \A t \in Auth!LiveOf(f) : token[t].family = f
    BY DEF Auth!LiveOf
  <2>2. \A t, u \in Auth!LiveOf(f) : t = u
    BY <2>1 DEF CredInv, TokensInOrder
  <2> HIDE DEF Auth!LiveTokens
  <2>3. Auth!LiveOf(f) = {} \/ \E t : Auth!LiveOf(f) = {t}
    BY <2>2
  <2>4. Cardinality(Auth!LiveOf(f)) = 0 \/ Cardinality(Auth!LiveOf(f)) = 1
    BY <2>3, FS_EmptySet, FS_Singleton, Zenon
  <2> QED BY <2>4
<1>2. \A f \in Tokens : f \in ended \ missed => Auth!LiveOf(f) = {}
  BY DEF CredInv, EndedFamiliesAreDead, Auth!LiveOf
<1>3. Auth!OldCredentialsAreVoid
  <2>1. \A a \in access : a.version \in Nat /\ user.version \in Nat
    BY DEF CredInv, Auth!TypeOK
  <2>2. \A a \in access : a.born < epoch /\ ~stale => ~Auth!Accepted(a)
    BY <2>1 DEF CredInv, OldAccessIsOlder, Auth!Accepted
  <2> QED BY <2>2 DEF CredInv, LiveTokensAreCurrent, Auth!OldCredentialsAreVoid
<1> QED BY <1>1, <1>2, <1>3, AuthCardinality DEF Auth!TokensAreSafe, Auth!FamiliesEnd

LEMMA CredStep == Auth!AuthAssumption /\ CredInv /\ [Auth!Next]_(Auth!authVars) => CredInv'
<1> SUFFICES ASSUME Auth!AuthAssumption, CredInv, [Auth!Next]_(Auth!authVars) PROVE CredInv'
  OBVIOUS
<1>1. CASE UNCHANGED Auth!authVars
  <2>1. Auth!Issued' = Auth!Issued /\ Auth!LiveTokens' = Auth!LiveTokens /\ Auth!FirstFree' = Auth!FirstFree
    BY <1>1, AuthCardinality DEF Auth!authVars, Auth!FirstFree
  <2>2. Auth!TypeOK'
    BY <1>1 DEF CredInv, Auth!TypeOK, Auth!authVars
  <2>3. TokensInOrder' /\ RequestsKnowIssued'
    BY <1>1, <2>1 DEF CredInv, Auth!authVars, TokensInOrder, RequestsKnowIssued
  <2> QED BY <1>1, <2>1, <2>2, <2>3
      DEF CredInv, Auth!authVars, EndedFamiliesAreDead, LiveTokensAreCurrent, OldAccessIsOlder
<1>2. ASSUME NEW r \in AuthRequests,
             \/ Auth!LocksUser(r) \/ Auth!Login(r) \/ Auth!LocksToken(r) \/ Auth!Rotates(r)
             \/ Auth!UpdatesFamily(r) \/ Auth!EndsFamily(r)
             \/ Auth!ChangePassword(r) \/ Auth!LocksSecurity(r)
             \/ Auth!UpdateReads(r) \/ Auth!UpdateCommits(r) \/ Auth!DeleteCommits(r)
      PROVE  CredInv'
  BY <1>2, QuietSteps, IssuingSteps, EndsFamilyStep, RevokingSteps
<1> QED BY <1>1, <1>2 DEF Auth!Next
-----------------------------------------------------------------------------
(* Roles.                                                                  *)

LEMMA RolesCardinality == \A S : Roles!Cardinality(S) = Cardinality(S)
BY DEF Roles!Cardinality, Cardinality

LEMMA RolesFinite == \A S : Roles!IsFiniteSet(S) <=> IsFiniteSet(S)
BY DEF Roles!IsFiniteSet, IsFiniteSet

(* Phases of a request that works on the identity of its role.             *)
Working == {"user", "undo", "commit", "dropUser", "dropRole", "delete"}
Works(a, r) == target[a] = r /\ pc[a] \in Working
Compensates(a) == pc[a] \in {"dropUser", "dropRole"} /\ security # a

(* The locks of each phase.                                                *)
LocksAreHeld ==
    /\ \A a \in Admins : pc[a] \in {"role", "user", "undo", "commit", "delete", "change"} => security = a
    /\ \A p \in Roles!Requests : pc[p] \in {"change", "locked", "observed"} => rowLock[target[p]] = p
    /\ \A p \in Roles!Requests : pc[p] # "idle" => target[p] \in RoleNames
    /\ \A p \in Roles!Requests \ Admins : pc[p] \in {"idle", "found", "locked", "observed"}

(* Versions only grow, and are seen in their order.                        *)
SeenInOrder ==
    /\ \A r \in RoleNames : seen[r] <= fingerprint[r] /\ seen[r] <= doris[r].version
    /\ \A p \in Roles!Requests :
          pc[p] = "observed" => /\ seen[target[p]] <= snapshot[p]
                                /\ snapshot[p] <= doris[target[p]].version

(* Accounts and what is created and deleted.                               *)
RolesOfAccounts ==
    /\ \A u \in Accounts : account[u].role \in configured \cup {NoRole}
    /\ \A u \in Accounts \ Roles!Existing : account[u].role = NoRole
    /\ \A a \in Admins :
          /\ pc[a] \in {"role", "user", "undo", "commit"} => target[a] \notin configured
          /\ pc[a] \in {"dropUser", "dropRole", "delete"} /\ security = a =>
                target[a] \in configured /\ Roles!AssignedUsers(target[a]) = {}
          /\ pc[a] = "delete" => ~doris[target[a]].role
          /\ pc[a] = "delete" \/ (pc[a] = "dropRole" /\ security = a) => ~doris[target[a]].user

(* The identity of a role that is not broken.                              *)
IdentityIsTidy(r) ==
    /\ \A a, b \in Admins : Works(a, r) /\ Works(b, r) => a = b
    /\ (\A a \in Admins : ~Works(a, r)) =>
          (doris[r].role <=> r \in configured) /\ (doris[r].user <=> r \in configured)
    /\ \A a \in Admins : Works(a, r) =>
          /\ pc[a] # "delete" => doris[r].role
          /\ pc[a] \in {"user", "undo", "dropRole"} => ~doris[r].user
          /\ pc[a] = "commit" => doris[r].user
          /\ Compensates(a) => r \notin configured
IdentitiesAreTidy == \A r \in RoleNames \ broken : IdentityIsTidy(r)

RoleInv == Roles!TypeOK /\ LocksAreHeld /\ SeenInOrder /\ RolesOfAccounts /\ IdentitiesAreTidy
           /\ Roles!AdministratorRemains

USE DEF Roles!rowVars, Roles!lockVars, Roles!workVars, Roles!roleVars, Roles!Goto, Roles!Breaks, Roles!Fault

-----------------------------------------------------------------------------
(* Accounts.                                                               *)

(* An administrator other than u, when there are two.                      *)
LEMMA AnotherAdmin ==
    ASSUME Roles!RolesAssumption, Roles!CountAdmins > 1, NEW u \in Accounts
    PROVE  \E v \in Roles!ActiveAdmins : v # u
<1> SUFFICES ASSUME Roles!ActiveAdmins \subseteq {u} PROVE FALSE
  OBVIOUS
<1> DEFINE S == Roles!ActiveAdmins
<1>1. IsFiniteSet({u}) /\ Cardinality({u}) = 1
  BY FS_Singleton, Zenon
<1> HIDE DEF S
<1>2. Cardinality(S) <= 1 /\ Cardinality(S) \in Nat
  <2>1. S \subseteq {u}
    BY DEF S
  <2>2. IsFiniteSet(S) /\ Cardinality(S) <= Cardinality({u})
    BY <1>1, <2>1, FS_Subset
  <2> QED BY <1>1, <2>2, FS_CardinalityType
<1>3. Cardinality(S) > 1
  BY RolesCardinality DEF Roles!CountAdmins, S
<1> QED BY <1>2, <1>3

(* What the changes of an account have in common.                          *)
AccountRows == [state : {"none", "active", "disabled", "gone"}, admin : BOOLEAN,
                role : RoleNames \cup {NoRole}]
RowReplaced(u, row) ==
    /\ security = Nobody /\ account' = [account EXCEPT ![u] = row]
    /\ row \in AccountRows /\ row.role \in configured \cup {NoRole}
    /\ row.state \notin {"active", "disabled"} => row.role = NoRole
    /\ account[u].state = "active" /\ account[u].admin /\ ~(row.state = "active" /\ row.admin) =>
          Roles!CountAdmins > 1
    /\ UNCHANGED <<configured, default, fingerprint, doris, Roles!lockVars, Roles!workVars, seen, broken, faults>>

LEMMA AccountRowChanges ==
    ASSUME Roles!RolesAssumption, RoleInv, NEW u \in Accounts,
           Roles!CreateUser(u) \/ Roles!UpdateUser(u) \/ Roles!BootstrapAdmin(u) \/ Roles!RequestDeletion(u)
           \/ Roles!CompleteDeletion(u)
    PROVE  \E row \in AccountRows : RowReplaced(u, row)
<1>1. /\ account[u] \in AccountRows /\ configured \subseteq RoleNames
      /\ default \in configured \cup {NoRole} /\ account[u].role \in configured \cup {NoRole}
      /\ (u \notin Roles!Existing => account[u].role = NoRole)
  BY DEF RoleInv, Roles!TypeOK, RolesOfAccounts, AccountRows
<1>2. CASE Roles!CreateUser(u)
  <2>1. PICK r \in configured \cup {default}, admin \in BOOLEAN :
            Roles!WritesAccount(u, [state |-> "active", admin |-> admin, role |-> r])
    BY <1>2 DEF Roles!CreateUser
  <2> DEFINE row == [state |-> "active", admin |-> admin, role |-> r]
  <2>2. row \in AccountRows /\ row.role \in configured \cup {NoRole} /\ row.state = "active"
    BY <1>1 DEF AccountRows
  <2>3. Roles!Secured /\ account[u].state = "none"
    BY <1>2 DEF Roles!CreateUser
  <2>4. RowReplaced(u, row)
    BY <2>1, <2>2, <2>3 DEF Roles!WritesAccount, RowReplaced, Roles!Secured
  <2> QED BY <2>2, <2>4
<1>3. CASE Roles!UpdateUser(u)
  <2>1. PICK r \in configured \cup {NoRole, account[u].role}, admin \in BOOLEAN :
            /\ account[u].admin /\ ~admin => Roles!CountAdmins > 1
            /\ Roles!WritesAccount(u, [account[u] EXCEPT !.role = r, !.admin = admin])
    BY <1>3 DEF Roles!UpdateUser
  <2> DEFINE row == [account[u] EXCEPT !.role = r, !.admin = admin]
  <2>2. /\ row \in AccountRows /\ row.role = r /\ row.admin = admin
        /\ row.state = account[u].state
    BY <1>1 DEF AccountRows
  <2>3. Roles!Secured /\ account[u].state \in {"active", "disabled"}
    BY <1>3 DEF Roles!UpdateUser, Roles!Existing
  <2>4. RowReplaced(u, row)
    BY <1>1, <2>1, <2>2, <2>3 DEF Roles!WritesAccount, RowReplaced, Roles!Secured
  <2> QED BY <2>2, <2>4
<1>4. CASE Roles!BootstrapAdmin(u)
  <2> DEFINE row == [account[u] EXCEPT !.state = "active", !.admin = TRUE]
  <2>1. /\ row \in AccountRows /\ row.role = account[u].role /\ row.admin = TRUE
        /\ row.state = "active"
    BY <1>1 DEF AccountRows
  <2>2. RowReplaced(u, row)
    BY <1>1, <1>4, <2>1 DEF Roles!BootstrapAdmin, Roles!WritesAccount, RowReplaced, Roles!Secured
  <2> QED BY <2>1, <2>2
<1>5. CASE Roles!RequestDeletion(u)
  <2> DEFINE row == [account[u] EXCEPT !.state = "disabled"]
  <2>1. /\ row \in AccountRows /\ row.role = account[u].role /\ row.admin = account[u].admin
        /\ row.state = "disabled"
    BY <1>1 DEF AccountRows
  <2>2. RowReplaced(u, row)
    BY <1>1, <1>5, <2>1 DEF Roles!RequestDeletion, Roles!WritesAccount, RowReplaced, Roles!Secured
  <2> QED BY <2>1, <2>2
<1>6. CASE Roles!CompleteDeletion(u)
  <2> DEFINE row == [Roles!NewUser EXCEPT !.state = "gone"]
  <2>1. row \in AccountRows /\ row.role = NoRole
    BY DEF AccountRows, Roles!NewUser
  <2>2. RowReplaced(u, row)
    BY <1>6, <2>1 DEF Roles!CompleteDeletion, Roles!WritesAccount, RowReplaced, Roles!Secured
  <2> QED BY <2>1, <2>2
<1> QED BY <1>2, <1>3, <1>4, <1>5, <1>6

LEMMA AccountKeeps ==
    ASSUME Roles!RolesAssumption, RoleInv, NEW u \in Accounts, NEW row \in AccountRows, RowReplaced(u, row)
    PROVE  RoleInv'
<1>1. /\ account \in [Accounts -> AccountRows] /\ account' = [account EXCEPT ![u] = row]
      /\ \A v \in Accounts : account'[v] = IF v = u THEN row ELSE account[v]
  BY DEF RoleInv, Roles!TypeOK, RowReplaced, AccountRows
<1>2. Roles!TypeOK'
  <2>1. account' \in [Accounts -> AccountRows]
    BY <1>1
  <2> QED BY <2>1 DEF RoleInv, Roles!TypeOK, RowReplaced, AccountRows
<1>3. LocksAreHeld' /\ SeenInOrder' /\ IdentitiesAreTidy'
  BY DEF RoleInv, RowReplaced, LocksAreHeld, SeenInOrder, IdentitiesAreTidy, IdentityIsTidy,
         Works, Compensates
<1>4. RolesOfAccounts'
  <2>1. \A a \in Admins : security # a
    BY RolesFinite DEF RowReplaced, Roles!RolesAssumption
  <2> QED BY <1>1, <2>1 DEF RoleInv, RowReplaced, RolesOfAccounts, LocksAreHeld, Roles!Existing
<1>5. Roles!AdministratorRemains'
  <2>1. PICK v \in Roles!ActiveAdmins : v # u \/ (row.state = "active" /\ row.admin)
    BY AnotherAdmin DEF RoleInv, Roles!AdministratorRemains, RowReplaced, Roles!ActiveAdmins, Roles!Existing
  <2>2. v \in Roles!ActiveAdmins'
    BY <1>1, <2>1 DEF Roles!ActiveAdmins, Roles!Existing
  <2> QED BY <2>2 DEF Roles!AdministratorRemains
<1> QED BY <1>2, <1>3, <1>4, <1>5 DEF RoleInv

LEMMA SetDefaultKeeps ==
    ASSUME Roles!RolesAssumption, RoleInv, NEW r \in RoleNames \cup {NoRole}, Roles!SetDefault(r)
    PROVE  RoleInv'
<1>1. Roles!TypeOK'
  BY DEF Roles!SetDefault, RoleInv, Roles!TypeOK
<1>2. LocksAreHeld' /\ SeenInOrder' /\ IdentitiesAreTidy' /\ Roles!AdministratorRemains'
  BY DEF Roles!SetDefault, RoleInv, LocksAreHeld, SeenInOrder, IdentitiesAreTidy, IdentityIsTidy,
         Works, Compensates, Roles!AdministratorRemains, Roles!ActiveAdmins, Roles!Existing
<1>3. RolesOfAccounts'
  BY DEF Roles!SetDefault, RoleInv, RolesOfAccounts, Roles!AssignedUsers, Roles!Existing
<1> QED BY <1>1, <1>2, <1>3 DEF RoleInv

-----------------------------------------------------------------------------
(* What a step of one request owes to each part of the invariant.          *)

(* The request p is in phase x of the work on t.                           *)
Moved(p, x, t) == pc' = [pc EXCEPT ![p] = x] /\ target' = [target EXCEPT ![p] = t]

(* No lock is taken from another request.                                  *)
LocksOfOthers(p) ==
    \A q \in Roles!Requests \ {p} :
        /\ (security = q <=> security' = q)
        /\ \A r \in RoleNames : rowLock[r] = q => rowLock'[r] = q

LocksOwed(p, x, t) ==
    /\ LocksOfOthers(p)
    /\ x # "idle" => t \in RoleNames
    /\ p \in Admins /\ x \in {"role", "user", "undo", "commit", "delete", "change"} => security' = p
    /\ x \in {"change", "locked", "observed"} => rowLock'[t] = p
    /\ p \notin Admins => x \in {"idle", "found", "locked", "observed"}

LEMMA LocksStep ==
    ASSUME Roles!RolesAssumption, RoleInv, NEW p \in Roles!Requests, NEW x, NEW t, Moved(p, x, t),
           LocksOwed(p, x, t)
    PROVE  LocksAreHeld'
<1>1. \A q \in Roles!Requests : /\ pc'[q] = IF q = p THEN x ELSE pc[q]
                                /\ target'[q] = IF q = p THEN t ELSE target[q]
  BY DEF RoleInv, Roles!TypeOK, Moved
<1> USE DEF Roles!Requests
<1>2. \A a \in Admins : pc'[a] \in {"role", "user", "undo", "commit", "delete", "change"} => security' = a
  BY <1>1 DEF LocksOwed, RoleInv, LocksAreHeld, LocksOfOthers
<1>3. \A q \in Roles!Requests : pc'[q] \in {"change", "locked", "observed"} => rowLock'[target'[q]] = q
  BY <1>1 DEF LocksOwed, RoleInv, LocksAreHeld, LocksOfOthers
<1>4. \A q \in Roles!Requests : pc'[q] # "idle" => target'[q] \in RoleNames
  BY <1>1 DEF LocksOwed, RoleInv, LocksAreHeld
<1>5. \A q \in Roles!Requests \ Admins : pc'[q] \in {"idle", "found", "locked", "observed"}
  BY <1>1 DEF LocksOwed, RoleInv, LocksAreHeld
<1> QED BY <1>2, <1>3, <1>4, <1>5 DEF LocksAreHeld

(* The identities of other roles are as they were; those of E are broken   *)
(* or tidy.                                                                *)
LEMMA IdentityStep ==
    ASSUME Roles!RolesAssumption, RoleInv, NEW p \in Roles!Requests, NEW x, NEW t, Moved(p, x, t),
           LocksOfOthers(p), NEW E \in SUBSET RoleNames,
           pc[p] \in Working => target[p] \in E, x \in Working => t \in E,
           \A s \in RoleNames \ E :
               /\ doris'[s].role = doris[s].role /\ doris'[s].user = doris[s].user
               /\ (s \in configured' <=> s \in configured)
               /\ (s \in broken => s \in broken'),
           \A s \in E : s \in broken' \/ IdentityIsTidy(s)'
    PROVE  IdentitiesAreTidy'
<1>1. \A q \in Roles!Requests : /\ pc'[q] = IF q = p THEN x ELSE pc[q]
                                /\ target'[q] = IF q = p THEN t ELSE target[q]
  BY DEF RoleInv, Roles!TypeOK, Moved
<1> SUFFICES ASSUME NEW s \in RoleNames, s \notin broken', s \notin E PROVE IdentityIsTidy(s)'
  BY DEF IdentitiesAreTidy
<1>2. \A a \in Admins : /\ Works(a, s)' <=> Works(a, s)
                        /\ Works(a, s) => pc'[a] = pc[a] /\ (Compensates(a)' <=> Compensates(a))
  BY <1>1 DEF Works, Compensates, LocksOfOthers, Roles!Requests
<1>3. IdentityIsTidy(s) /\ doris'[s].role = doris[s].role /\ doris'[s].user = doris[s].user
      /\ (s \in configured' <=> s \in configured)
  <2>1. /\ doris'[s].role = doris[s].role /\ doris'[s].user = doris[s].user
        /\ (s \in configured' <=> s \in configured)
        /\ s \notin broken
    OBVIOUS
  <2>2. IdentitiesAreTidy
    BY DEF RoleInv
  <2>3. IdentityIsTidy(s)
    BY <2>1, <2>2 DEF IdentitiesAreTidy
  <2> QED BY <2>1, <2>3
<1>4. \A a, b \in Admins : Works(a, s)' /\ Works(b, s)' => a = b
  BY <1>2, <1>3 DEF IdentityIsTidy
<1>5. (\A a \in Admins : ~Works(a, s)') =>
          (doris'[s].role <=> s \in configured') /\ (doris'[s].user <=> s \in configured')
  BY <1>2, <1>3 DEF IdentityIsTidy
<1>6. \A a \in Admins : Works(a, s)' =>
          /\ pc'[a] # "delete" => doris'[s].role
          /\ pc'[a] \in {"user", "undo", "dropRole"} => ~doris'[s].user
          /\ pc'[a] = "commit" => doris'[s].user
          /\ Compensates(a)' => s \notin configured'
  BY <1>2, <1>3 DEF IdentityIsTidy
<1> QED BY <1>4, <1>5, <1>6 DEF IdentityIsTidy

(* The role that p works on, or has worked on alone.                       *)
LEMMA AloneStep ==
    ASSUME Roles!RolesAssumption, RoleInv, NEW p \in Admins, NEW x, NEW t, Moved(p, x, t),
           NEW r \in RoleNames, r \notin broken \/ \A b \in Admins \ {p} : ~Works(b, r),
           Works(p, r) \/ \A b \in Admins : ~Works(b, r),
           ~(t = r /\ x \in Working) =>
               /\ doris'[r].role <=> r \in configured'
               /\ doris'[r].user <=> r \in configured',
           t = r /\ x \in Working =>
               /\ x # "delete" => doris'[r].role
               /\ x \in {"user", "undo", "dropRole"} => ~doris'[r].user
               /\ x = "commit" => doris'[r].user
               /\ x \in {"dropUser", "dropRole"} /\ security' # p => r \notin configured'
    PROVE  IdentityIsTidy(r)'
<1>1. \A a \in Admins : /\ pc'[a] = IF a = p THEN x ELSE pc[a]
                        /\ target'[a] = IF a = p THEN t ELSE target[a]
  BY DEF RoleInv, Roles!TypeOK, Moved, Roles!Requests
<1>2. \A b \in Admins \ {p} : ~Works(b, r)
  BY DEF RoleInv, IdentitiesAreTidy, IdentityIsTidy
<1>3. \A b \in Admins \ {p} : ~Works(b, r)'
  BY <1>1, <1>2 DEF Works
<1>4. Works(p, r)' <=> t = r /\ x \in Working
  BY <1>1 DEF Works
<1>5. CASE t = r /\ x \in Working
  BY <1>1, <1>3, <1>4, <1>5 DEF IdentityIsTidy, Compensates
<1>6. CASE ~(t = r /\ x \in Working)
  BY <1>3, <1>4, <1>6 DEF IdentityIsTidy
<1> QED BY <1>5, <1>6

(* Versions and the rows of the roles that are not touched.                *)
SeenOwed(p, x, t) ==
    /\ \E n : /\ snapshot' = [snapshot EXCEPT ![p] = n]
              /\ x = "observed" => t \in RoleNames /\ n \in Nat /\ seen[t] <= n /\ n <= doris[t].version
    /\ fingerprint' = fingerprint /\ seen' = seen
    /\ \A r \in RoleNames : doris[r].version <= doris'[r].version

LEMMA SeenStep ==
    ASSUME Roles!RolesAssumption, RoleInv, Roles!TypeOK', NEW p \in Roles!Requests, NEW x, NEW t, Moved(p, x, t),
           SeenOwed(p, x, t)
    PROVE  SeenInOrder'
<1>0. PICK n : /\ snapshot' = [snapshot EXCEPT ![p] = n]
               /\ x = "observed" => t \in RoleNames /\ n \in Nat /\ seen[t] <= n /\ n <= doris[t].version
  BY DEF SeenOwed
<1>1. \A q \in Roles!Requests : /\ pc'[q] = IF q = p THEN x ELSE pc[q]
                                /\ target'[q] = IF q = p THEN t ELSE target[q]
                                /\ snapshot'[q] = IF q = p THEN n ELSE snapshot[q]
  BY <1>0 DEF RoleInv, Roles!TypeOK, Moved
<1>2. \A r \in RoleNames : doris[r].version \in Nat /\ doris'[r].version \in Nat /\ seen[r] \in Nat
  BY DEF RoleInv, Roles!TypeOK
<1>3. \A q \in Roles!Requests : snapshot[q] \in Nat
  BY DEF RoleInv, Roles!TypeOK
<1>4. \A r \in RoleNames : seen'[r] <= fingerprint'[r] /\ seen'[r] <= doris'[r].version
  <2> SUFFICES ASSUME NEW r \in RoleNames PROVE seen[r] <= fingerprint[r] /\ seen[r] <= doris'[r].version
    BY DEF SeenOwed
  <2>1. /\ seen[r] <= fingerprint[r] /\ seen[r] <= doris[r].version
        /\ doris[r].version <= doris'[r].version
    BY DEF RoleInv, SeenInOrder, SeenOwed
  <2> QED BY <1>2, <2>1
<1>5. \A q \in Roles!Requests : pc'[q] = "observed" => /\ seen'[target'[q]] <= snapshot'[q]
                                                       /\ snapshot'[q] <= doris'[target'[q]].version
  <2> SUFFICES ASSUME NEW q \in Roles!Requests, pc'[q] = "observed"
               PROVE  /\ seen[target'[q]] <= snapshot'[q]
                      /\ snapshot'[q] <= doris'[target'[q]].version
    BY DEF SeenOwed
  <2>1. target'[q] \in RoleNames
    BY <1>0, <1>1 DEF RoleInv, LocksAreHeld
  <2>2. /\ seen[target'[q]] <= snapshot'[q] /\ snapshot'[q] <= doris[target'[q]].version
        /\ snapshot'[q] \in Nat
    BY <1>0, <1>1, <1>3 DEF RoleInv, SeenInOrder
  <2>3. doris[target'[q]].version <= doris'[target'[q]].version
    BY <2>1 DEF SeenOwed
  <2> QED BY <1>2, <2>1, <2>2, <2>3
<1> QED BY <1>4, <1>5 DEF SeenInOrder

(* Rows and identities of the roles; what others hold back is kept.        *)
RolesOwed(p, x, t) ==
    /\ \A u \in Accounts : account[u].role \in configured' \cup {NoRole}
    /\ \A b \in Admins \ {p} :
          security = b => /\ configured' = configured
                          /\ \A r \in RoleNames : /\ doris'[r].role => doris[r].role
                                                  /\ doris'[r].user => doris[r].user
    /\ p \in Admins =>
          /\ x \in {"role", "user", "undo", "commit"} => t \notin configured'
          /\ x \in {"dropUser", "dropRole", "delete"} /\ security' = p =>
                t \in configured' /\ Roles!AssignedUsers(t) = {}
          /\ x = "delete" => ~doris'[t].role
          /\ x = "delete" \/ (x = "dropRole" /\ security' = p) => ~doris'[t].user

LEMMA RolesStep ==
    ASSUME Roles!RolesAssumption, RoleInv, NEW p \in Roles!Requests, NEW x, NEW t, Moved(p, x, t),
           LocksOwed(p, x, t), account' = account, RolesOwed(p, x, t)
    PROVE  RolesOfAccounts'
<1>1. \A q \in Roles!Requests : /\ pc'[q] = IF q = p THEN x ELSE pc[q]
                                /\ target'[q] = IF q = p THEN t ELSE target[q]
  BY DEF RoleInv, Roles!TypeOK, Moved
<1>2. \A u \in Accounts : account'[u].role \in configured' \cup {NoRole}
  BY DEF RolesOwed
<1>3. Roles!Existing' = Roles!Existing /\ \A r : Roles!AssignedUsers(r)' = Roles!AssignedUsers(r)
  BY DEF Roles!Existing, Roles!AssignedUsers
<1>4. \A u \in Accounts \ Roles!Existing' : account'[u].role = NoRole
  BY <1>3 DEF RoleInv, RolesOfAccounts
<1> DEFINE Own(a, s) ==
          /\ pc'[a] \in {"role", "user", "undo", "commit"} => target'[a] \notin configured'
          /\ pc'[a] \in {"dropUser", "dropRole", "delete"} /\ s = a =>
                target'[a] \in configured' /\ Roles!AssignedUsers(target'[a]) = {}
          /\ pc'[a] = "delete" => ~doris'[target'[a]].role
          /\ pc'[a] = "delete" \/ (pc'[a] = "dropRole" /\ s = a) => ~doris'[target'[a]].user
<1>5. \A a \in Admins : Own(a, security')
  <2> SUFFICES ASSUME NEW a \in Admins PROVE Own(a, security')
    OBVIOUS
  <2>1. CASE a = p
    BY <1>1, <2>1 DEF RolesOwed
  <2>2. CASE a # p
    <3>1. pc'[a] = pc[a] /\ target'[a] = target[a]
      BY <1>1, <2>2 DEF Roles!Requests
    <3>2. security' = a <=> security = a
      BY <2>2 DEF LocksOwed, LocksOfOthers, Roles!Requests
    <3>3. CASE security = a
      <4>1. target[a] \in RoleNames \/ pc[a] = "idle"
        BY DEF RoleInv, LocksAreHeld, Roles!Requests
      <4> QED BY <2>2, <3>1, <3>2, <3>3, <4>1 DEF RolesOwed, RoleInv, RolesOfAccounts
    <3>4. CASE security # a
      BY <3>1, <3>2, <3>4 DEF RoleInv, LocksAreHeld
    <3> QED BY <3>3, <3>4
  <2> QED BY <2>1, <2>2
<1> QED BY <1>2, <1>3, <1>4, <1>5 DEF RolesOfAccounts

(* All of it.                                                              *)
LEMMA RequestStep ==
    ASSUME Roles!RolesAssumption, RoleInv, Roles!TypeOK', NEW p \in Roles!Requests, NEW x, NEW t, Moved(p, x, t),
           account' = account, LocksOwed(p, x, t), SeenOwed(p, x, t), RolesOwed(p, x, t),
           IdentitiesAreTidy'
    PROVE  RoleInv'
<1>1. Roles!AdministratorRemains'
  BY DEF RoleInv, Roles!AdministratorRemains, Roles!ActiveAdmins, Roles!Existing
<1> QED BY <1>1, LocksStep, SeenStep, RolesStep DEF RoleInv

(* A step that leaves the rows and the identities of the roles alone.      *)
LEMMA QuietStep ==
    ASSUME Roles!RolesAssumption, RoleInv, Roles!TypeOK', NEW p \in Roles!Requests, NEW x, NEW t, Moved(p, x, t),
           account' = account, configured' = configured, LocksOwed(p, x, t), SeenOwed(p, x, t),
           \A r \in RoleNames : doris'[r].role = doris[r].role /\ doris'[r].user = doris[r].user,
           \A r \in RoleNames : r \in broken => r \in broken',
           pc[p] \notin Working, x \notin Working, x = "role" => t \notin configured
    PROVE  RoleInv'
<1>1. IdentitiesAreTidy'
  <2> DEFINE E == {}
  <2>1. E \in SUBSET RoleNames /\ RoleNames \ E = RoleNames /\ \A s \in E : s \in broken' \/ IdentityIsTidy(s)'
    OBVIOUS
  <2>2. \A s \in RoleNames \ E :
            /\ doris'[s].role = doris[s].role /\ doris'[s].user = doris[s].user
            /\ (s \in configured' <=> s \in configured)
            /\ (s \in broken => s \in broken')
    BY <2>1
  <2> HIDE DEF E
  <2> QED BY <2>1, <2>2, IdentityStep DEF LocksOwed
<1>2. RolesOwed(p, x, t)
  BY DEF RolesOwed, RoleInv, RolesOfAccounts, Working
<1> QED BY <1>1, <1>2, RequestStep

(* A step of which the target stays.                                       *)
LEMMA SameTarget ==
    ASSUME RoleInv, NEW p \in Roles!Requests, NEW x, Roles!Goto(p, x), target' = target
    PROVE  Moved(p, x, target[p])
BY DEF RoleInv, Roles!TypeOK, Moved

LEMMA SameSnapshot ==
    ASSUME RoleInv, NEW p \in Roles!Requests, NEW x, NEW t, x # "observed", snapshot' = snapshot,
           fingerprint' = fingerprint, seen' = seen,
           \A r \in RoleNames : doris[r].version <= doris'[r].version
    PROVE  SeenOwed(p, x, t)
<1>1. snapshot' = [snapshot EXCEPT ![p] = snapshot[p]]
  BY DEF RoleInv, Roles!TypeOK
<1> QED BY <1>1 DEF SeenOwed

LEMMA SameVersions ==
    ASSUME RoleInv, doris' = doris
    PROVE  \A r \in RoleNames : doris[r].version <= doris'[r].version
BY DEF RoleInv, Roles!TypeOK

(* The end of a transaction, and of a request.                             *)
LEMMA Unlocked ==
    ASSUME Roles!RolesAssumption, RoleInv, NEW p \in Roles!Requests, Roles!Unlocks(p)
    PROVE  /\ LocksOfOthers(p) /\ security' # p
           /\ security' \in Admins \cup {Nobody}
           /\ rowLock' \in [RoleNames -> Roles!Requests \cup {Nobody}]
<1>1. Nobody \notin Roles!Requests
  BY RolesFinite DEF Roles!RolesAssumption, Roles!Requests
<1>2. /\ security \in Admins \cup {Nobody} /\ rowLock \in [RoleNames -> Roles!Requests \cup {Nobody}]
      /\ security' = (IF security = p THEN Nobody ELSE security)
      /\ rowLock' = [r \in RoleNames |-> IF rowLock[r] = p THEN Nobody ELSE rowLock[r]]
  BY DEF RoleInv, Roles!TypeOK, Roles!Unlocks
<1>3. rowLock' \in [RoleNames -> Roles!Requests \cup {Nobody}]
  BY <1>2
<1>4. LocksOfOthers(p)
  BY <1>1, <1>2 DEF LocksOfOthers
<1> QED BY <1>1, <1>2, <1>3, <1>4

LEMMA Left ==
    ASSUME Roles!RolesAssumption, RoleInv, NEW p \in Roles!Requests, Roles!Leaves(p)
    PROVE  /\ Moved(p, "idle", NoRole) /\ LocksOwed(p, "idle", NoRole)
           /\ security' # p /\ security' \in Admins \cup {Nobody}
           /\ rowLock' \in [RoleNames -> Roles!Requests \cup {Nobody}]
           /\ pc' \in [Roles!Requests -> Roles!Phases] /\ target' \in [Roles!Requests -> RoleNames \cup {NoRole}]
           /\ snapshot' \in [Roles!Requests -> Nat]
           /\ snapshot' = [snapshot EXCEPT ![p] = 0]
<1>1. /\ pc' = [pc EXCEPT ![p] = "idle"] /\ target' = [target EXCEPT ![p] = NoRole]
      /\ snapshot' = [snapshot EXCEPT ![p] = 0] /\ Roles!Unlocks(p)
  BY DEF Roles!Leaves
<1>2. /\ pc' \in [Roles!Requests -> Roles!Phases] /\ target' \in [Roles!Requests -> RoleNames \cup {NoRole}]
      /\ snapshot' \in [Roles!Requests -> Nat]
  BY <1>1 DEF RoleInv, Roles!TypeOK, Roles!Phases
<1> QED BY <1>1, <1>2, Unlocked DEF Moved, LocksOwed

-----------------------------------------------------------------------------
(* Steps of a request that leave rows and identities alone.                *)

LEMMA BeginCreateKeeps ==
    ASSUME Roles!RolesAssumption, RoleInv, NEW a \in Admins, NEW r \in RoleNames, Roles!BeginCreate(a, r)
    PROVE  RoleInv'
<1>1. /\ pc[a] = "idle" /\ security = Nobody /\ r \notin configured /\ security' = a
      /\ target' = [target EXCEPT ![a] = r] /\ pc' = [pc EXCEPT ![a] = "role"]
      /\ configured' = configured /\ default' = default /\ fingerprint' = fingerprint
      /\ account' = account /\ doris' = doris /\ rowLock' = rowLock /\ snapshot' = snapshot
      /\ seen' = seen /\ broken' = broken /\ faults' = faults
  BY DEF Roles!BeginCreate, Roles!Secured
<1>2. a \in Roles!Requests /\ Moved(a, "role", r)
  BY <1>1 DEF Moved, Roles!Requests
<1>3. Roles!TypeOK'
  BY <1>1, <1>2 DEF RoleInv, Roles!TypeOK, Roles!Phases
<1>4. LocksOwed(a, "role", r)
  BY <1>1, RolesFinite DEF LocksOwed, LocksOfOthers, Roles!RolesAssumption, Roles!Requests
<1>5. SeenOwed(a, "role", r)
  BY <1>1, <1>2, SameSnapshot, SameVersions
<1> QED BY <1>1, <1>2, <1>3, <1>4, <1>5, QuietStep DEF Working

LEMMA BeginChangeKeeps ==
    ASSUME Roles!RolesAssumption, RoleInv, NEW a \in Admins, NEW r \in RoleNames, Roles!BeginChange(a, r)
    PROVE  RoleInv'
<1>1. /\ pc[a] = "idle" /\ security = Nobody /\ rowLock[r] = Nobody /\ security' = a
      /\ target' = [target EXCEPT ![a] = r] /\ pc' = [pc EXCEPT ![a] = "change"]
      /\ configured' = configured /\ default' = default /\ fingerprint' = fingerprint
      /\ account' = account /\ doris' = doris /\ rowLock' = [rowLock EXCEPT ![r] = a]
      /\ snapshot' = snapshot /\ seen' = seen /\ broken' = broken /\ faults' = faults
  BY DEF Roles!BeginChange, Roles!Secured
<1>2. a \in Roles!Requests /\ Moved(a, "change", r)
  BY <1>1 DEF Moved, Roles!Requests
<1>3. Roles!TypeOK'
  BY <1>1, <1>2 DEF RoleInv, Roles!TypeOK, Roles!Phases
<1>4. LocksOwed(a, "change", r)
  BY <1>1, <1>2, RolesFinite DEF LocksOwed, LocksOfOthers, Roles!RolesAssumption, Roles!Requests, RoleInv, Roles!TypeOK
<1>5. SeenOwed(a, "change", r)
  BY <1>1, <1>2, SameSnapshot, SameVersions
<1> QED BY <1>1, <1>2, <1>3, <1>4, <1>5, QuietStep DEF Working

LEMMA BeginObserveKeeps ==
    ASSUME Roles!RolesAssumption, RoleInv, NEW o \in Observers, NEW u \in Accounts, Roles!BeginObserve(o, u)
    PROVE  RoleInv'
<1> DEFINE t == account[u].role
<1>1. /\ pc[o] = "idle" /\ t # NoRole
      /\ target' = [target EXCEPT ![o] = t] /\ pc' = [pc EXCEPT ![o] = "found"]
      /\ configured' = configured /\ default' = default /\ fingerprint' = fingerprint
      /\ account' = account /\ doris' = doris /\ rowLock' = rowLock /\ security' = security
      /\ snapshot' = snapshot /\ seen' = seen /\ broken' = broken /\ faults' = faults
  BY DEF Roles!BeginObserve
<1>2. o \in Roles!Requests /\ Moved(o, "found", t)
  BY <1>1 DEF Moved, Roles!Requests
<1>3. t \in RoleNames
  BY <1>1 DEF RoleInv, Roles!TypeOK
<1> HIDE DEF t
<1>4. Roles!TypeOK'
  BY <1>1, <1>2, <1>3 DEF RoleInv, Roles!TypeOK, Roles!Phases
<1>5. LocksOwed(o, "found", t)
  BY <1>1, <1>3 DEF LocksOwed, LocksOfOthers
<1>6. SeenOwed(o, "found", t)
  BY <1>1, <1>2, SameSnapshot, SameVersions
<1> QED BY <1>1, <1>2, <1>4, <1>5, <1>6, QuietStep DEF Working

LEMMA LocksRowKeeps ==
    ASSUME Roles!RolesAssumption, RoleInv, NEW o \in Observers, Roles!LocksRow(o)
    PROVE  RoleInv'
<1> DEFINE r == target[o]
<1>1. /\ pc[o] = "found" /\ configured' = configured /\ default' = default
      /\ fingerprint' = fingerprint /\ account' = account /\ doris' = doris
      /\ seen' = seen /\ broken' = broken /\ faults' = faults
  BY DEF Roles!LocksRow
<1>2. o \in Roles!Requests /\ r \in RoleNames
  BY <1>1 DEF Roles!Requests, RoleInv, LocksAreHeld
<1>3. CASE Roles!Leaves(o)
  <2>1. Roles!TypeOK'
    BY <1>1, <1>2, <1>3, Left DEF RoleInv, Roles!TypeOK
  <2>2. SeenOwed(o, "idle", NoRole)
    BY <1>1, <1>2, <1>3, Left, SameVersions DEF SeenOwed
  <2> QED BY <1>1, <1>2, <1>3, <2>1, <2>2, Left, QuietStep DEF Working
<1>4. CASE /\ rowLock[r] = Nobody /\ rowLock' = [rowLock EXCEPT ![r] = o]
           /\ pc' = [pc EXCEPT ![o] = "locked"] /\ security' = security
           /\ target' = target /\ snapshot' = snapshot
  <2>1. Moved(o, "locked", r)
    BY <1>2, <1>4, SameTarget
  <2>2. Roles!TypeOK'
    BY <1>1, <1>2, <1>4 DEF RoleInv, Roles!TypeOK, Roles!Phases
  <2>3. LocksOwed(o, "locked", r)
    BY <1>1, <1>2, <1>4, RolesFinite DEF LocksOwed, LocksOfOthers, Roles!RolesAssumption, Roles!Requests, RoleInv, Roles!TypeOK
  <2>4. SeenOwed(o, "locked", r)
    BY <1>1, <1>2, <1>4, SameSnapshot, SameVersions
  <2> QED BY <1>1, <1>2, <2>1, <2>2, <2>3, <2>4, QuietStep DEF Working
<1> QED BY <1>3, <1>4 DEF Roles!LocksRow

LEMMA ReadsAuthorizationKeeps ==
    ASSUME Roles!RolesAssumption, RoleInv, NEW p \in Roles!Requests, Roles!ReadsAuthorization(p)
    PROVE  RoleInv'
<1> DEFINE r == target[p]
<1>1. /\ pc[p] = "locked" /\ configured' = configured /\ default' = default
      /\ fingerprint' = fingerprint /\ account' = account /\ doris' = doris
      /\ seen' = seen /\ broken' = broken /\ faults' = faults
  BY DEF Roles!ReadsAuthorization
<1>2. r \in RoleNames /\ rowLock[r] = p
  BY <1>1 DEF RoleInv, LocksAreHeld
<1>3. CASE Roles!Leaves(p)
  <2>1. Roles!TypeOK'
    BY <1>1, <1>3, Left DEF RoleInv, Roles!TypeOK
  <2>2. SeenOwed(p, "idle", NoRole)
    BY <1>1, <1>3, Left, SameVersions DEF SeenOwed
  <2> QED BY <1>1, <1>3, <2>1, <2>2, Left, QuietStep DEF Working
<1>4. CASE /\ snapshot' = [snapshot EXCEPT ![p] = doris[r].version]
           /\ pc' = [pc EXCEPT ![p] = "observed"] /\ security' = security
           /\ rowLock' = rowLock /\ target' = target
  <2>1. Moved(p, "observed", r)
    BY <1>4, SameTarget
  <2>2. doris[r].version \in Nat /\ seen[r] <= doris[r].version
    BY <1>2 DEF RoleInv, Roles!TypeOK, SeenInOrder
  <2>3. Roles!TypeOK'
    BY <1>1, <1>2, <1>4, <2>2 DEF RoleInv, Roles!TypeOK, Roles!Phases
  <2>4. LocksOwed(p, "observed", r)
    BY <1>1, <1>2, <1>4 DEF LocksOwed, LocksOfOthers
  <2>5. SeenOwed(p, "observed", r)
    <3>1. doris[r].version <= doris[r].version
      BY <2>2
    <3> DEFINE n == doris[r].version
    <3>2. /\ snapshot' = [snapshot EXCEPT ![p] = n] /\ r \in RoleNames /\ n \in Nat
          /\ seen[r] <= n /\ n <= doris[r].version
      BY <1>2, <1>4, <2>2, <3>1
    <3>3. \A s \in RoleNames : doris[s].version <= doris'[s].version
      BY <1>1, SameVersions
    <3> HIDE DEF n
    <3> QED BY <1>1, <3>2, <3>3 DEF SeenOwed
  <2> QED BY <1>1, <2>1, <2>3, <2>4, <2>5, QuietStep DEF Working
<1> QED BY <1>3, <1>4 DEF Roles!ReadsAuthorization

(* The grants of a role change: its version, and nothing else in Doris.    *)
LEMMA VersionGrows ==
    ASSUME Roles!RolesAssumption, RoleInv, NEW r \in RoleNames, Roles!Changed(r)
    PROVE  /\ doris' \in [RoleNames -> [role : BOOLEAN, user : BOOLEAN, version : Nat]]
           /\ \A s \in RoleNames : doris[s].version <= doris'[s].version
           /\ \A s \in RoleNames : doris'[s].role = doris[s].role /\ doris'[s].user = doris[s].user
<1>1. /\ doris' = [doris EXCEPT ![r] = [doris[r] EXCEPT !.version = doris[r].version + 1]]
      /\ doris \in [RoleNames -> [role : BOOLEAN, user : BOOLEAN, version : Nat]]
  BY DEF Roles!Changed, RoleInv, Roles!TypeOK
<1> DEFINE new == [doris[r] EXCEPT !.version = doris[r].version + 1]
<1>2. /\ new \in [role : BOOLEAN, user : BOOLEAN, version : Nat]
      /\ new.role = doris[r].role /\ new.user = doris[r].user
      /\ new.version = doris[r].version + 1
  BY <1>1
<1>3. doris' = [doris EXCEPT ![r] = new]
  BY <1>1
<1> HIDE DEF new
<1>4. \A s \in RoleNames : doris'[s] = IF s = r THEN new ELSE doris[s]
  BY <1>1, <1>3
<1>5. \A s \in RoleNames : doris[s].version \in Nat
  BY <1>1
<1>6. \A s \in RoleNames : doris[s].version <= doris'[s].version
  BY <1>2, <1>4, <1>5
<1>7. doris' \in [RoleNames -> [role : BOOLEAN, user : BOOLEAN, version : Nat]]
  BY <1>1, <1>2, <1>3
<1>8. \A s \in RoleNames : doris'[s].role = doris[s].role /\ doris'[s].user = doris[s].user
  BY <1>2, <1>4
<1> QED BY <1>6, <1>7, <1>8

LEMMA ChangesGrantsKeeps ==
    ASSUME Roles!RolesAssumption, RoleInv, NEW a \in Admins, Roles!ChangesGrants(a)
    PROVE  RoleInv'
<1> DEFINE r == target[a]
<1>1. /\ pc[a] = "change" /\ Roles!Changed(r) /\ configured' = configured /\ default' = default
      /\ fingerprint' = fingerprint /\ account' = account /\ seen' = seen /\ broken' = broken
  BY DEF Roles!ChangesGrants
<1>2. a \in Roles!Requests /\ r \in RoleNames /\ rowLock[r] = a
  BY <1>1 DEF Roles!Requests, RoleInv, LocksAreHeld
<1>3. /\ doris' \in [RoleNames -> [role : BOOLEAN, user : BOOLEAN, version : Nat]]
      /\ \A s \in RoleNames : doris[s].version <= doris'[s].version
      /\ \A s \in RoleNames : doris'[s].role = doris[s].role /\ doris'[s].user = doris[s].user
  BY <1>1, <1>2, VersionGrows
<1>4. CASE /\ pc' = [pc EXCEPT ![a] = "locked"] /\ security' = security /\ rowLock' = rowLock
           /\ target' = target /\ snapshot' = snapshot /\ faults' = faults
  <2>1. Moved(a, "locked", r)
    BY <1>2, <1>4, SameTarget
  <2>2. Roles!TypeOK'
    BY <1>1, <1>2, <1>3, <1>4 DEF RoleInv, Roles!TypeOK, Roles!Phases
  <2>3. LocksOwed(a, "locked", r)
    BY <1>1, <1>2, <1>4 DEF LocksOwed, LocksOfOthers
  <2>4. SeenOwed(a, "locked", r)
    BY <1>1, <1>2, <1>3, <1>4, SameSnapshot
  <2> QED BY <1>1, <1>2, <1>3, <2>1, <2>2, <2>3, <2>4, QuietStep DEF Working
<1>5. CASE Roles!Leaves(a) /\ Roles!Fault
  <2>1. Roles!TypeOK'
    BY <1>1, <1>2, <1>3, <1>5, Left, RolesFinite DEF RoleInv, Roles!TypeOK, Roles!RolesAssumption
  <2>2. SeenOwed(a, "idle", NoRole)
    BY <1>1, <1>2, <1>3, <1>5, Left DEF SeenOwed
  <2> QED BY <1>1, <1>2, <1>3, <1>5, <2>1, <2>2, Left, QuietStep DEF Working
<1> QED BY <1>4, <1>5 DEF Roles!ChangesGrants

(* A refused statement, a revocation that is rolled back, a crash that     *)
(* hits nothing half done.                                                 *)
LEMMA LeavingKeeps ==
    ASSUME Roles!RolesAssumption, RoleInv, NEW p \in Roles!Requests, Roles!Leaves(p), pc[p] \notin Working,
           UNCHANGED <<Roles!rowVars, doris, seen>>, \A r \in RoleNames : r \in broken => r \in broken',
           broken' \subseteq RoleNames, faults' \in 0 .. MaxRoleFaults
    PROVE  RoleInv'
<1>1. /\ configured' = configured /\ default' = default /\ fingerprint' = fingerprint
      /\ account' = account /\ doris' = doris /\ seen' = seen
  OBVIOUS
<1>2. Roles!TypeOK'
  BY <1>1, Left DEF RoleInv, Roles!TypeOK
<1>3. SeenOwed(p, "idle", NoRole)
  BY <1>1, Left, SameVersions DEF SeenOwed
<1> QED BY <1>1, <1>2, <1>3, Left, QuietStep DEF Working

LEMMA CommitsFingerprintKeeps ==
    ASSUME Roles!RolesAssumption, RoleInv, NEW p \in Roles!Requests, Roles!CommitsFingerprint(p)
    PROVE  RoleInv'
<1> DEFINE r == target[p]
           newest == IF seen[r] < snapshot[p] THEN snapshot[p] ELSE seen[r]
<1>1. /\ pc[p] = "observed" /\ Roles!Leaves(p) /\ configured' = configured /\ default' = default
      /\ account' = account /\ doris' = doris /\ broken' = broken /\ faults' = faults
      /\ fingerprint' = [fingerprint EXCEPT ![r] = snapshot[p]]
      /\ seen' = [seen EXCEPT ![r] = newest]
  BY DEF Roles!CommitsFingerprint
<1>2. r \in RoleNames /\ rowLock[r] = p
  BY <1>1 DEF RoleInv, LocksAreHeld
<1>3. /\ snapshot[p] \in Nat /\ seen[r] \in Nat /\ doris[r].version \in Nat
      /\ seen[r] <= snapshot[p] /\ snapshot[p] <= doris[r].version
  BY <1>1, <1>2 DEF RoleInv, Roles!TypeOK, SeenInOrder
<1>4. newest = snapshot[p]
  BY <1>3
<1>5. Roles!TypeOK'
  <2>1. /\ fingerprint' \in [RoleNames -> Nat] /\ seen' \in [RoleNames -> Nat]
    BY <1>1, <1>2, <1>3, <1>4 DEF RoleInv, Roles!TypeOK
  <2> QED BY <1>1, <2>1, Left DEF RoleInv, Roles!TypeOK
<1>6. SeenInOrder'
  <2>1. \A s \in RoleNames : seen'[s] <= fingerprint'[s] /\ seen'[s] <= doris'[s].version
    BY <1>1, <1>2, <1>3, <1>4 DEF RoleInv, Roles!TypeOK, SeenInOrder
  <2>2. \A q \in Roles!Requests : pc'[q] = "observed" =>
            q # p /\ pc[q] = "observed" /\ target'[q] = target[q] /\ snapshot'[q] = snapshot[q]
    BY <1>1, Left DEF RoleInv, Roles!TypeOK, Moved
  <2>3. \A q \in Roles!Requests : q # p /\ pc[q] = "observed" => target[q] \in RoleNames /\ target[q] # r
    BY <1>2 DEF RoleInv, LocksAreHeld
  <2>4. \A q \in Roles!Requests : q # p /\ pc[q] = "observed" => seen'[target[q]] = seen[target[q]]
    BY <1>1, <2>3 DEF RoleInv, Roles!TypeOK
  <2>5. \A q \in Roles!Requests : pc'[q] = "observed" =>
            /\ seen'[target'[q]] <= snapshot'[q]
            /\ snapshot'[q] <= doris'[target'[q]].version
    BY <1>1, <2>2, <2>4 DEF RoleInv, SeenInOrder
  <2> QED BY <2>1, <2>5 DEF SeenInOrder
<1>7. LocksOwed(p, "idle", NoRole) /\ Moved(p, "idle", NoRole)
  BY <1>1, Left
<1>8. RolesOfAccounts'
  <2>1. RolesOwed(p, "idle", NoRole)
    BY <1>1 DEF RolesOwed, RoleInv, RolesOfAccounts
  <2> QED BY <1>1, <1>7, <2>1, RolesStep
<1>9. IdentitiesAreTidy'
  <2> DEFINE E == {}
  <2>1. E \in SUBSET RoleNames /\ \A s \in E : s \in broken' \/ IdentityIsTidy(s)'
    OBVIOUS
  <2>2. \A s \in RoleNames \ E :
            /\ doris'[s].role = doris[s].role /\ doris'[s].user = doris[s].user
            /\ (s \in configured' <=> s \in configured)
            /\ (s \in broken => s \in broken')
    BY <1>1
  <2>3. pc[p] \notin Working /\ "idle" \notin Working
    BY <1>1 DEF Working
  <2> HIDE DEF E
  <2> QED BY <1>7, <2>1, <2>2, <2>3, IdentityStep DEF LocksOwed
<1>10. Roles!AdministratorRemains'
  BY <1>1 DEF RoleInv, Roles!AdministratorRemains, Roles!ActiveAdmins, Roles!Existing
<1> QED BY <1>5, <1>6, <1>7, <1>8, <1>9, <1>10, LocksStep DEF RoleInv

LEMMA ChangedOutsideKeeps ==
    ASSUME Roles!RolesAssumption, RoleInv, NEW r \in RoleNames, Roles!ChangedOutside(r)
    PROVE  RoleInv'
<1>1. /\ Roles!Changed(r) /\ configured' = configured /\ default' = default
      /\ fingerprint' = fingerprint /\ account' = account /\ security' = security
      /\ rowLock' = rowLock /\ pc' = pc /\ target' = target /\ snapshot' = snapshot
      /\ seen' = seen /\ broken' = broken /\ faults' = faults
  BY DEF Roles!ChangedOutside
<1>2. /\ doris' \in [RoleNames -> [role : BOOLEAN, user : BOOLEAN, version : Nat]]
      /\ \A s \in RoleNames : doris[s].version <= doris'[s].version
      /\ \A s \in RoleNames : doris'[s].role = doris[s].role /\ doris'[s].user = doris[s].user
  BY <1>1, VersionGrows
<1>3. Roles!TypeOK'
  BY <1>1, <1>2 DEF RoleInv, Roles!TypeOK
<1>4. LocksAreHeld' /\ Roles!AdministratorRemains'
  BY <1>1 DEF RoleInv, LocksAreHeld, Roles!AdministratorRemains, Roles!ActiveAdmins, Roles!Existing
<1>5. SeenInOrder'
  <2>1. \A s \in RoleNames : doris[s].version \in Nat /\ doris'[s].version \in Nat /\ seen[s] \in Nat
    BY <1>2 DEF RoleInv, Roles!TypeOK
  <2>2. \A q \in Roles!Requests : snapshot[q] \in Nat /\ (pc[q] = "observed" => target[q] \in RoleNames)
    BY DEF RoleInv, Roles!TypeOK, LocksAreHeld
  <2> QED BY <1>1, <1>2, <2>1, <2>2 DEF RoleInv, SeenInOrder
<1>6. RolesOfAccounts'
  <2>1. \A a \in Admins : pc[a] # "idle" => target[a] \in RoleNames
    BY DEF RoleInv, LocksAreHeld, Roles!Requests
  <2>2. \A a \in Admins : pc[a] \in {"dropRole", "delete"} =>
            /\ doris'[target[a]].role = doris[target[a]].role
            /\ doris'[target[a]].user = doris[target[a]].user
    BY <1>2, <2>1
  <2> QED BY <1>1, <2>2 DEF RoleInv, RolesOfAccounts, Roles!Existing, Roles!AssignedUsers
<1>7. IdentitiesAreTidy'
  <2> SUFFICES ASSUME NEW s \in RoleNames \ broken PROVE IdentityIsTidy(s)'
    BY <1>1 DEF IdentitiesAreTidy
  <2>1. IdentityIsTidy(s)
    BY DEF RoleInv, IdentitiesAreTidy
  <2>2. doris'[s].role = doris[s].role /\ doris'[s].user = doris[s].user
    BY <1>2
  <2> QED BY <1>1, <2>1, <2>2 DEF IdentityIsTidy, Works, Compensates
<1> QED BY <1>3, <1>4, <1>5, <1>6, <1>7 DEF RoleInv

-----------------------------------------------------------------------------
(* Steps that work on the identity of a role.                              *)

(* Who holds the security lock is the only one to work under it.           *)
LEMMA NobodyElse ==
    ASSUME Roles!RolesAssumption, RoleInv, NEW p \in Admins, security \in {p, Nobody},
           NEW b \in Admins \ {p}
    PROVE  /\ security # b
           /\ pc[b] \in Working => Compensates(b)
BY RolesFinite DEF Roles!RolesAssumption, RoleInv, LocksAreHeld, Working, Compensates

(* Nobody works on a role that is not broken when it has a row, or when it *)
(* is not in Doris.                                                        *)
LEMMA NobodyWorks ==
    ASSUME Roles!RolesAssumption, RoleInv, NEW p \in Admins, security \in {p, Nobody},
           NEW r \in RoleNames, r \notin broken, r \in configured \/ ~doris[r].role,
           ~Works(p, r)
    PROVE  \A b \in Admins : ~Works(b, r)
<1> SUFFICES ASSUME NEW b \in Admins, Works(b, r) PROVE FALSE
  OBVIOUS
<1>1. b # p /\ Compensates(b)
  BY NobodyElse DEF Works
<1> QED BY <1>1 DEF Compensates, RoleInv, IdentitiesAreTidy, IdentityIsTidy

(* All identities but that of r are as they were.                          *)
LEMMA OneIdentity ==
    ASSUME Roles!RolesAssumption, RoleInv, NEW p \in Admins, NEW x, NEW t, Moved(p, x, t),
           LocksOfOthers(p), NEW r \in RoleNames,
           pc[p] \in Working => target[p] = r, x \in Working => t = r,
           \A s \in RoleNames : s # r =>
               /\ doris'[s].role = doris[s].role /\ doris'[s].user = doris[s].user
               /\ (s \in configured' <=> s \in configured)
               /\ (s \in broken => s \in broken'),
           r \in broken' \/ IdentityIsTidy(r)'
    PROVE  IdentitiesAreTidy'
<1> DEFINE E == {r}
<1>1. E \in SUBSET RoleNames /\ \A s \in E : s \in broken' \/ IdentityIsTidy(s)'
  OBVIOUS
<1>2. \A s \in RoleNames \ E :
          /\ doris'[s].role = doris[s].role /\ doris'[s].user = doris[s].user
          /\ (s \in configured' <=> s \in configured)
          /\ (s \in broken => s \in broken')
  OBVIOUS
<1>3. (pc[p] \in Working => target[p] \in E) /\ (x \in Working => t \in E) /\ p \in Roles!Requests
  BY DEF Roles!Requests
<1> HIDE DEF E
<1> QED BY <1>1, <1>2, <1>3, IdentityStep

(* What is written of one role.                                            *)
LEMMA OneRole ==
    ASSUME RoleInv, NEW r \in RoleNames, NEW new \in [role : BOOLEAN, user : BOOLEAN, version : Nat],
           doris' = [doris EXCEPT ![r] = new], doris[r].version <= new.version
    PROVE  /\ doris' \in [RoleNames -> [role : BOOLEAN, user : BOOLEAN, version : Nat]]
           /\ doris'[r] = new
           /\ \A s \in RoleNames : s # r => doris'[s] = doris[s]
           /\ \A s \in RoleNames : doris[s].version <= doris'[s].version
<1>1. doris \in [RoleNames -> [role : BOOLEAN, user : BOOLEAN, version : Nat]]
  BY DEF RoleInv, Roles!TypeOK
<1>2. \A s \in RoleNames : doris'[s] = IF s = r THEN new ELSE doris[s]
  BY <1>1
<1>3. \A s \in RoleNames : doris[s].version \in Nat
  BY <1>1
<1> QED BY <1>1, <1>2, <1>3

LEMMA BeginDeleteKeeps ==
    ASSUME Roles!RolesAssumption, RoleInv, NEW a \in Admins, NEW r \in RoleNames, Roles!BeginDelete(a, r)
    PROVE  RoleInv'
<1>1. /\ pc[a] = "idle" /\ security = Nobody /\ rowLock[r] = Nobody /\ security' = a
      /\ r \in configured /\ Roles!AssignedUsers(r) = {}
      /\ target' = [target EXCEPT ![a] = r] /\ pc' = [pc EXCEPT ![a] = "dropUser"]
      /\ configured' = configured /\ default' = default /\ fingerprint' = fingerprint
      /\ account' = account /\ doris' = doris /\ rowLock' = [rowLock EXCEPT ![r] = a]
      /\ snapshot' = snapshot /\ seen' = seen /\ broken' = broken /\ faults' = faults
  BY DEF Roles!BeginDelete, Roles!Secured, Roles!Unused
<1>2. a \in Roles!Requests /\ Moved(a, "dropUser", r)
  BY <1>1 DEF Moved, Roles!Requests
<1>3. Roles!TypeOK'
  BY <1>1, <1>2 DEF RoleInv, Roles!TypeOK, Roles!Phases
<1>4. LocksOwed(a, "dropUser", r)
  BY <1>1, <1>2, RolesFinite DEF LocksOwed, LocksOfOthers, Roles!RolesAssumption, Roles!Requests, RoleInv, Roles!TypeOK
<1>5. SeenOwed(a, "dropUser", r)
  BY <1>1, <1>2, SameSnapshot, SameVersions
<1>6. RolesOwed(a, "dropUser", r)
  BY <1>1 DEF RolesOwed, RoleInv, RolesOfAccounts
<1>7. IdentitiesAreTidy'
  <2>1. r \notin broken => IdentityIsTidy(r)'
    <3> SUFFICES ASSUME r \notin broken PROVE IdentityIsTidy(r)'
      OBVIOUS
    <3>1. \A b \in Admins : ~Works(b, r)
      BY <1>1, NobodyWorks DEF Works, Working
    <3>2. doris[r].role
      BY <1>1, <3>1 DEF RoleInv, IdentitiesAreTidy, IdentityIsTidy
    <3> QED BY <1>1, <1>2, <3>1, <3>2, AloneStep DEF Working
  <2>2. r \in broken' \/ IdentityIsTidy(r)'
    BY <1>1, <2>1
  <2>3. pc[a] \notin Working
    BY <1>1 DEF Working
  <2> QED BY <1>1, <1>2, <1>4, <2>2, <2>3, OneIdentity DEF LocksOwed
<1> QED BY <1>1, <1>2, <1>3, <1>4, <1>5, <1>6, <1>7, RequestStep

(* What the request gives up: the role it worked on is broken by then.     *)
LEMMA GivingUp ==
    ASSUME Roles!RolesAssumption, RoleInv, NEW p \in Admins, pc[p] # "idle", Roles!Leaves(p),
           UNCHANGED <<Roles!rowVars, seen>>, broken' = broken \cup {target[p]},
           faults' \in 0 .. MaxRoleFaults,
           doris' \in [RoleNames -> [role : BOOLEAN, user : BOOLEAN, version : Nat]],
           \A s \in RoleNames : s # target[p] => doris'[s] = doris[s],
           \A s \in RoleNames : doris[s].version <= doris'[s].version,
           \/ security = p
           \/ \A s \in RoleNames : (doris'[s].role => doris[s].role) /\ (doris'[s].user => doris[s].user)
    PROVE  RoleInv'
<1> DEFINE r == target[p]
<1>1. /\ p \in Roles!Requests /\ r \in RoleNames
      /\ configured' = configured /\ default' = default /\ fingerprint' = fingerprint
      /\ account' = account /\ seen' = seen
  BY DEF Roles!Requests, RoleInv, LocksAreHeld
<1>2. /\ Moved(p, "idle", NoRole) /\ LocksOwed(p, "idle", NoRole)
      /\ snapshot' = [snapshot EXCEPT ![p] = 0]
  BY <1>1, Left
<1>3. Roles!TypeOK'
  <2>1. /\ security' \in Admins \cup {Nobody} /\ rowLock' \in [RoleNames -> Roles!Requests \cup {Nobody}]
        /\ pc' \in [Roles!Requests -> Roles!Phases] /\ target' \in [Roles!Requests -> RoleNames \cup {NoRole}]
        /\ snapshot' \in [Roles!Requests -> Nat]
    BY <1>1, Left
  <2>2. broken' \subseteq RoleNames
    BY <1>1 DEF RoleInv, Roles!TypeOK
  <2> QED BY <1>1, <2>1, <2>2 DEF RoleInv, Roles!TypeOK
<1>4. SeenOwed(p, "idle", NoRole)
  BY <1>1, <1>2 DEF SeenOwed
<1>5. RolesOwed(p, "idle", NoRole)
  <2>1. \A b \in Admins \ {p} : security = b =>
            \A s \in RoleNames : (doris'[s].role => doris[s].role) /\ (doris'[s].user => doris[s].user)
    OBVIOUS
  <2> QED BY <1>1, <2>1 DEF RolesOwed, RoleInv, RolesOfAccounts
<1>6. IdentitiesAreTidy'
  <2>1. /\ pc[p] \in Working => target[p] = r
        /\ "idle" \notin Working /\ r \in broken'
    BY DEF Working
  <2>2. \A s \in RoleNames : s # r =>
            /\ doris'[s].role = doris[s].role /\ doris'[s].user = doris[s].user
            /\ (s \in configured' <=> s \in configured)
            /\ (s \in broken => s \in broken')
    BY <1>1
  <2> HIDE DEF r
  <2> QED BY <1>1, <1>2, <2>1, <2>2, OneIdentity DEF LocksOwed
<1> QED BY <1>1, <1>2, <1>3, <1>4, <1>5, <1>6, RequestStep

(* The request goes on with its role in phase x, or is over with it, and   *)
(* has written new in Doris.                                               *)
TidyAfter(p, x, new) ==
    LET r == target[p] IN
    /\ Works(p, r) \/ \A b \in Admins : ~Works(b, r)
    /\ x \notin Working =>
          (new.role <=> r \in configured) /\ (new.user <=> r \in configured)
    /\ x \in Working =>
          /\ x # "delete" => new.role
          /\ x \in {"user", "undo", "dropRole"} => ~new.user
          /\ x = "commit" => new.user
          /\ x \in {"dropUser", "dropRole"} /\ security' # p => r \notin configured

LEMMA WorkStep ==
    ASSUME Roles!RolesAssumption, RoleInv, NEW p \in Admins, Roles!TypeOK', NEW x, NEW t,
           Moved(p, x, t), LocksOwed(p, x, t), t = target[p] \/ x = "idle",
           x # "observed", NEW n, snapshot' = [snapshot EXCEPT ![p] = n],
           pc[p] # "idle", fingerprint' = fingerprint, seen' = seen, account' = account,
           configured' = configured, broken' \in {broken, broken \cup {target[p]}},
           NEW new \in [role : BOOLEAN, user : BOOLEAN, version : Nat],
           doris' = [doris EXCEPT ![target[p]] = new], doris[target[p]].version <= new.version,
           RolesOwed(p, x, t),
           target[p] \notin broken' => TidyAfter(p, x, new)
    PROVE  RoleInv'
<1>0. PICK r \in RoleNames : r = target[p]
  BY DEF Roles!Requests, RoleInv, LocksAreHeld
<1>1. p \in Roles!Requests /\ r \in RoleNames /\ r = target[p]
  BY <1>0 DEF Roles!Requests
<1>2. /\ doris'[r] = new
      /\ \A s \in RoleNames : s # r => doris'[s] = doris[s]
      /\ \A s \in RoleNames : doris[s].version <= doris'[s].version
  BY <1>1, OneRole
<1>3. SeenOwed(p, x, t)
  BY <1>2 DEF SeenOwed
<1>4. x \in Working => t = r
  BY <1>1 DEF Working
<1>5. r \in broken' \/ IdentityIsTidy(r)'
  <2> SUFFICES ASSUME r \notin broken' PROVE IdentityIsTidy(r)'
    OBVIOUS
  <2>0. r \notin broken
    OBVIOUS
  <2>1. TidyAfter(p, x, new)
    BY <1>1
  <2>2. /\ Works(p, r) \/ \A b \in Admins : ~Works(b, r)
        /\ x \notin Working => (new.role <=> r \in configured) /\ (new.user <=> r \in configured)
        /\ x \in Working =>
              /\ x # "delete" => new.role
              /\ x \in {"user", "undo", "dropRole"} => ~new.user
              /\ x = "commit" => new.user
              /\ x \in {"dropUser", "dropRole"} /\ security' # p => r \notin configured
    BY <1>1, <2>1 DEF TidyAfter
  <2>3. ~(t = r /\ x \in Working) =>
            /\ (doris'[r].role <=> r \in configured')
            /\ (doris'[r].user <=> r \in configured')
    BY <1>2, <1>4, <2>2
  <2>4. t = r /\ x \in Working =>
            /\ x # "delete" => doris'[r].role
            /\ x \in {"user", "undo", "dropRole"} => ~doris'[r].user
            /\ x = "commit" => doris'[r].user
            /\ x \in {"dropUser", "dropRole"} /\ security' # p => r \notin configured'
    BY <1>2, <2>2
  <2> QED BY <1>1, <2>0, <2>2, <2>3, <2>4, AloneStep
<1>6. IdentitiesAreTidy'
  <2>1. \A s \in RoleNames : s # r =>
            /\ doris'[s].role = doris[s].role /\ doris'[s].user = doris[s].user
            /\ (s \in configured' <=> s \in configured)
            /\ (s \in broken => s \in broken')
    BY <1>2
  <2>2. LocksOfOthers(p) /\ (pc[p] \in Working => target[p] = r)
    BY <1>1 DEF LocksOwed
  <2>3. r \in RoleNames
    BY <1>1
  <2> QED BY <1>4, <1>5, <2>1, <2>2, <2>3, OneIdentity
<1> QED BY <1>1, <1>3, <1>6, RequestStep

(* A record with some of its parts replaced.                               *)
Identities == [role : BOOLEAN, user : BOOLEAN, version : Nat]
LEMMA Identity ==
    ASSUME RoleInv, NEW r \in RoleNames
    PROVE  /\ doris[r] \in Identities /\ doris[r].version \in Nat
           /\ doris = [doris EXCEPT ![r] = doris[r]]
           /\ \A b \in BOOLEAN :
                 /\ [doris EXCEPT ![r].user = b] = [doris EXCEPT ![r] = [doris[r] EXCEPT !.user = b]]
                 /\ [doris EXCEPT ![r].role = b] = [doris EXCEPT ![r] = [doris[r] EXCEPT !.role = b]]
                 /\ [doris[r] EXCEPT !.user = b] \in Identities
                 /\ [doris[r] EXCEPT !.user = b].user = b
                 /\ [doris[r] EXCEPT !.user = b].role = doris[r].role
                 /\ [doris[r] EXCEPT !.user = b].version = doris[r].version
                 /\ [doris[r] EXCEPT !.role = b] \in Identities
                 /\ [doris[r] EXCEPT !.role = b].role = b
                 /\ [doris[r] EXCEPT !.role = b].user = doris[r].user
                 /\ [doris[r] EXCEPT !.role = b].version = doris[r].version
BY DEF RoleInv, Roles!TypeOK, Identities

(* The role that CREATE ROLE makes.                                        *)
LEMMA NewRole ==
    ASSUME RoleInv, NEW r \in RoleNames,
           doris' = [doris EXCEPT ![r].role = TRUE, ![r].version = @ + 1]
    PROVE  \E new \in Identities :
              /\ doris' = [doris EXCEPT ![r] = new] /\ doris[r].version <= new.version
              /\ new.role = TRUE /\ new.user = doris[r].user
<1> DEFINE new == [doris[r] EXCEPT !.role = TRUE, !.version = doris[r].version + 1]
<1>1. doris[r] \in Identities /\ doris \in [RoleNames -> Identities]
  BY DEF RoleInv, Roles!TypeOK, Identities
<1>2. /\ new \in Identities /\ new.role = TRUE /\ new.user = doris[r].user
      /\ new.version = doris[r].version + 1
  BY <1>1 DEF Identities
<1>3. doris' = [doris EXCEPT ![r] = new]
  BY <1>1 DEF Identities
<1>4. doris[r].version \in Nat
  BY <1>1 DEF Identities
<1>5. doris[r].version <= new.version
  BY <1>2, <1>4
<1> HIDE DEF new
<1> QED BY <1>2, <1>3, <1>5

LEMMA CreatesRoleKeeps ==
    ASSUME Roles!RolesAssumption, RoleInv, NEW a \in Admins, Roles!CreatesRole(a)
    PROVE  RoleInv'
<1>1. PICK r \in RoleNames : r = target[a]
  BY DEF Roles!CreatesRole, Roles!Requests, RoleInv, LocksAreHeld
<1>2. /\ pc[a] = "role" /\ security = a /\ r \notin configured /\ a \in Roles!Requests
      /\ configured' = configured /\ default' = default /\ fingerprint' = fingerprint
      /\ account' = account /\ seen' = seen
  BY <1>1 DEF Roles!CreatesRole, RoleInv, LocksAreHeld, RolesOfAccounts, Roles!Requests
<1>3. CASE /\ ~doris[r].role
           /\ doris' = [doris EXCEPT ![r].role = TRUE, ![r].version = @ + 1]
           /\ pc' = [pc EXCEPT ![a] = "user"]
           /\ UNCHANGED <<Roles!lockVars, target, snapshot, broken, faults>>
  <2>1. PICK new \in Identities :
            /\ doris' = [doris EXCEPT ![r] = new] /\ doris[r].version <= new.version
            /\ new.role = TRUE /\ new.user = doris[r].user
    BY <1>3, NewRole
  <2>2. /\ security' = security /\ rowLock' = rowLock /\ target' = target
        /\ snapshot' = snapshot /\ broken' = broken /\ faults' = faults
    BY <1>3
  <2>3. Moved(a, "user", r)
    BY <1>1, <1>2, <1>3, <2>2, SameTarget
  <2>4. doris' \in [RoleNames -> Identities] /\ \A s \in RoleNames : s # r => doris'[s] = doris[s]
    BY <2>1, OneRole DEF Identities
  <2>5. Roles!TypeOK'
    BY <1>2, <1>3, <2>2, <2>4 DEF RoleInv, Roles!TypeOK, Roles!Phases, Identities
  <2>6. LocksOwed(a, "user", r)
    BY <1>2, <2>2 DEF LocksOwed, LocksOfOthers
  <2>7. snapshot' = [snapshot EXCEPT ![a] = snapshot[a]]
    BY <1>2, <2>2 DEF RoleInv, Roles!TypeOK
  <2>8. RolesOwed(a, "user", r)
    BY <1>2 DEF RolesOwed, RoleInv, RolesOfAccounts
  <2>9. r \notin broken => TidyAfter(a, "user", new)
    <3> SUFFICES ASSUME r \notin broken PROVE TidyAfter(a, "user", new)
      OBVIOUS
    <3>1. \A b \in Admins : ~Works(b, r)
      BY <1>2, <1>3, NobodyWorks DEF Works, Working
    <3>2. ~doris[r].user
      BY <1>2, <3>1 DEF RoleInv, IdentitiesAreTidy, IdentityIsTidy
    <3> QED BY <1>1, <2>1, <3>1, <3>2 DEF TidyAfter, Working
  <2> HIDE DEF Identities
  <2> QED BY <1>1, <1>2, <2>1, <2>2, <2>3, <2>5, <2>6, <2>7, <2>8, <2>9, WorkStep DEF Identities
<1>4. CASE Roles!Leaves(a) /\ UNCHANGED <<doris, broken, faults>>
  <2>1. /\ pc[a] \notin Working /\ UNCHANGED <<Roles!rowVars, doris, seen>>
        /\ \A s \in RoleNames : s \in broken => s \in broken'
        /\ broken' \subseteq RoleNames /\ faults' \in 0 .. MaxRoleFaults
    BY <1>2, <1>4 DEF Working, RoleInv, Roles!TypeOK
  <2> QED BY <1>2, <1>4, <2>1, LeavingKeeps
<1>5. CASE /\ ~doris[r].role /\ Roles!Fault /\ Roles!Leaves(a) /\ Roles!Breaks(r)
           /\ doris' = [doris EXCEPT ![r].role = TRUE, ![r].version = @ + 1]
  <2>1. PICK new \in Identities :
            /\ doris' = [doris EXCEPT ![r] = new] /\ doris[r].version <= new.version
    BY <1>5, NewRole
  <2>2. /\ doris' \in [RoleNames -> Identities] /\ \A s \in RoleNames : s # r => doris'[s] = doris[s]
        /\ \A s \in RoleNames : doris[s].version <= doris'[s].version
    BY <2>1, OneRole DEF Identities
  <2>3. faults' \in 0 .. MaxRoleFaults
    BY <1>5, RolesFinite DEF RoleInv, Roles!TypeOK, Roles!RolesAssumption
  <2> QED BY <1>1, <1>2, <1>5, <2>2, <2>3, GivingUp DEF Identities
<1> QED BY <1>1, <1>3, <1>4, <1>5 DEF Roles!CreatesRole

(* Going on without a word to Doris, or with one about the query user or   *)
(* the role; the row and its lock stay.                                    *)
LEMMA GoingOn ==
    ASSUME Roles!RolesAssumption, RoleInv, NEW a \in Admins, NEW r \in RoleNames, r = target[a],
           pc[a] # "idle", NEW x \in Roles!Phases, x \notin {"idle", "observed", "change", "locked", "role"},
           x \in {"user", "undo", "commit", "delete"} => security = a,
           Roles!Goto(a, x), UNCHANGED <<Roles!rowVars, Roles!lockVars, target, snapshot, seen>>,
           broken' \in {broken, broken \cup {r}}, faults' \in 0 .. MaxRoleFaults,
           NEW new \in Identities, doris' = [doris EXCEPT ![r] = new],
           doris[r].version <= new.version, RolesOwed(a, x, r),
           r \notin broken' => TidyAfter(a, x, new)
    PROVE  RoleInv'
<1>1. /\ a \in Roles!Requests /\ security' = security /\ rowLock' = rowLock /\ target' = target
      /\ snapshot' = snapshot /\ seen' = seen /\ configured' = configured
      /\ default' = default /\ fingerprint' = fingerprint /\ account' = account
      /\ pc' = [pc EXCEPT ![a] = x]
  BY DEF Roles!Requests
<1>2. Moved(a, x, r)
  BY <1>1, SameTarget
<1>3. doris' \in [RoleNames -> Identities]
  BY OneRole DEF Identities
<1>4. Roles!TypeOK'
  <2>1. pc' \in [Roles!Requests -> Roles!Phases] /\ broken' \subseteq RoleNames
    BY <1>1 DEF RoleInv, Roles!TypeOK
  <2> QED BY <1>1, <1>3, <2>1 DEF RoleInv, Roles!TypeOK, Identities
<1>5. LocksOwed(a, x, r)
  BY <1>1 DEF LocksOwed, LocksOfOthers
<1>6. snapshot' = [snapshot EXCEPT ![a] = snapshot[a]]
  BY <1>1 DEF RoleInv, Roles!TypeOK
<1>7. broken' \in {broken, broken \cup {target[a]}} /\ (target[a] \notin broken' => TidyAfter(a, x, new))
  OBVIOUS
<1>8. doris' = [doris EXCEPT ![target[a]] = new] /\ doris[target[a]].version <= new.version
      /\ new \in [role : BOOLEAN, user : BOOLEAN, version : Nat]
  BY DEF Identities
<1> QED BY <1>1, <1>2, <1>4, <1>5, <1>6, <1>7, <1>8, WorkStep

LEMMA CreatesUserKeeps ==
    ASSUME Roles!RolesAssumption, RoleInv, NEW a \in Admins, Roles!CreatesUser(a)
    PROVE  RoleInv'
<1>1. PICK r \in RoleNames : r = target[a]
  BY DEF Roles!CreatesUser, Roles!Requests, RoleInv, LocksAreHeld
<1>2. /\ pc[a] = "user" /\ security = a /\ r \notin configured /\ Works(a, r)
      /\ UNCHANGED <<Roles!rowVars, Roles!lockVars, target, snapshot, seen>>
      /\ configured' = configured /\ account' = account /\ security' = security
  BY <1>1 DEF Roles!CreatesUser, RoleInv, LocksAreHeld, RolesOfAccounts, Roles!Requests, Works, Working
<1>3. r \notin broken => doris[r].role /\ ~doris[r].user
  BY <1>2 DEF RoleInv, IdentitiesAreTidy, IdentityIsTidy
<1>4. /\ RolesOwed(a, "commit", r) /\ RolesOwed(a, "undo", r)
      /\ "commit" \in Roles!Phases /\ "undo" \in Roles!Phases
  BY <1>2 DEF RolesOwed, RoleInv, RolesOfAccounts, Roles!Phases
<1> DEFINE new == [doris[r] EXCEPT !.user = TRUE]
<1>5. /\ new \in Identities /\ new.user = TRUE /\ new.role = doris[r].role
      /\ new.version = doris[r].version /\ doris[r].version \in Nat /\ doris[r] \in Identities
      /\ [doris EXCEPT ![r].user = TRUE] = [doris EXCEPT ![r] = new]
      /\ doris = [doris EXCEPT ![r] = doris[r]]
  BY Identity
<1> HIDE DEF new
<1>6. doris[r].version <= new.version /\ doris[r].version <= doris[r].version
  BY <1>5
<1>7. CASE /\ doris[r].role /\ doris' = [doris EXCEPT ![r].user = TRUE]
           /\ Roles!Goto(a, "commit") /\ UNCHANGED <<broken, faults>>
  <2>1. doris' = [doris EXCEPT ![r] = new] /\ broken' = broken /\ faults' \in 0 .. MaxRoleFaults
    BY <1>5, <1>7 DEF RoleInv, Roles!TypeOK
  <2>2. TidyAfter(a, "commit", new)
    BY <1>1, <1>2, <1>5, <1>7 DEF TidyAfter, Working
  <2> QED BY <1>1, <1>2, <1>4, <1>5, <1>6, <1>7, <2>1, <2>2, GoingOn
<1>8. CASE /\ Roles!Goto(a, "undo") /\ doris' = doris /\ broken' = broken
           /\ faults' \in 0 .. MaxRoleFaults
  <2>1. doris' = [doris EXCEPT ![r] = doris[r]]
    BY <1>5, <1>8
  <2>2. r \notin broken' => TidyAfter(a, "undo", doris[r])
    BY <1>1, <1>2, <1>3, <1>8 DEF TidyAfter, Working
  <2> QED BY <1>1, <1>2, <1>4, <1>5, <1>6, <1>8, <2>1, <2>2, GoingOn
<1>9. CASE /\ Roles!Fault /\ Roles!Goto(a, "undo") /\ doris' = [doris EXCEPT ![r].user = TRUE] /\ Roles!Breaks(r)
  <2>1. doris' = [doris EXCEPT ![r] = new] /\ broken' = broken \cup {r}
        /\ faults' \in 0 .. MaxRoleFaults /\ r \in broken'
    BY <1>5, <1>9, RolesFinite DEF RoleInv, Roles!TypeOK, Roles!RolesAssumption
  <2> QED BY <1>1, <1>2, <1>4, <1>5, <1>6, <1>9, <2>1, GoingOn
<1>10. faults \in 0 .. MaxRoleFaults /\ (Roles!Fault => faults' \in 0 .. MaxRoleFaults)
  BY RolesFinite DEF RoleInv, Roles!TypeOK, Roles!RolesAssumption
<1> QED BY <1>1, <1>7, <1>8, <1>9, <1>10 DEF Roles!CreatesUser

(* Over with it, the identity being what the row says.                     *)
LEMMA Finishing ==
    ASSUME Roles!RolesAssumption, RoleInv, NEW a \in Admins, NEW r \in RoleNames, r = target[a],
           pc[a] # "idle", Roles!Leaves(a), UNCHANGED <<Roles!rowVars, seen, broken, faults>>,
           NEW new \in Identities, doris' = [doris EXCEPT ![r] = new],
           doris[r].version <= new.version,
           \/ security = a
           \/ (new.role => doris[r].role) /\ (new.user => doris[r].user),
           r \notin broken => TidyAfter(a, "idle", new)
    PROVE  RoleInv'
<1>1. /\ a \in Roles!Requests /\ seen' = seen /\ configured' = configured /\ default' = default
      /\ fingerprint' = fingerprint /\ account' = account /\ broken' = broken /\ faults' = faults
  BY DEF Roles!Requests
<1>2. /\ doris' \in [RoleNames -> Identities] /\ doris'[r] = new
      /\ \A s \in RoleNames : s # r => doris'[s] = doris[s]
  BY OneRole DEF Identities
<1>3. Roles!TypeOK'
  BY <1>1, <1>2, Left DEF RoleInv, Roles!TypeOK, Identities
<1>4. RolesOwed(a, "idle", NoRole)
  <2>1. \A b \in Admins \ {a} : security = b =>
            \A s \in RoleNames : (doris'[s].role => doris[s].role) /\ (doris'[s].user => doris[s].user)
    BY <1>2
  <2> QED BY <1>1, <2>1 DEF RolesOwed, RoleInv, RolesOfAccounts
<1>5. doris' = [doris EXCEPT ![target[a]] = new] /\ doris[target[a]].version <= new.version
      /\ new \in [role : BOOLEAN, user : BOOLEAN, version : Nat]
      /\ (target[a] \notin broken' => TidyAfter(a, "idle", new))
  BY <1>1 DEF Identities
<1>6. /\ Moved(a, "idle", NoRole) /\ LocksOwed(a, "idle", NoRole)
      /\ snapshot' = [snapshot EXCEPT ![a] = 0]
  BY <1>1, Left
<1> QED BY <1>1, <1>3, <1>4, <1>5, <1>6, WorkStep

LEMMA UndoesRoleKeeps ==
    ASSUME Roles!RolesAssumption, RoleInv, NEW a \in Admins, Roles!UndoesRole(a)
    PROVE  RoleInv'
<1>1. PICK r \in RoleNames : r = target[a]
  BY DEF Roles!UndoesRole, Roles!Requests, RoleInv, LocksAreHeld
<1>2. /\ pc[a] = "undo" /\ security = a /\ r \notin configured /\ Works(a, r) /\ Roles!Leaves(a)
      /\ UNCHANGED <<Roles!rowVars, seen>>
  BY <1>1 DEF Roles!UndoesRole, RoleInv, LocksAreHeld, RolesOfAccounts, Roles!Requests, Works, Working
<1> DEFINE new == [doris[r] EXCEPT !.role = FALSE]
<1>3. /\ new \in Identities /\ new.role = FALSE /\ new.user = doris[r].user
      /\ new.version = doris[r].version /\ doris[r].version \in Nat
      /\ [doris EXCEPT ![r].role = FALSE] = [doris EXCEPT ![r] = new]
  BY Identity
<1> HIDE DEF new
<1>4. CASE doris' = [doris EXCEPT ![r].role = FALSE] /\ UNCHANGED <<broken, faults>>
  <2>1. doris' = [doris EXCEPT ![r] = new] /\ doris[r].version <= new.version
    BY <1>3, <1>4
  <2>2. r \notin broken => TidyAfter(a, "idle", new)
    <3>1. r \notin broken => ~doris[r].user
      BY <1>2 DEF RoleInv, IdentitiesAreTidy, IdentityIsTidy
    <3> QED BY <1>1, <1>2, <1>3, <3>1 DEF TidyAfter, Working
  <2> QED BY <1>1, <1>2, <1>3, <1>4, <2>1, <2>2, Finishing
<1>5. CASE Roles!Fault /\ Roles!Breaks(r) /\ UNCHANGED doris
  <2>1. /\ doris' \in [RoleNames -> [role : BOOLEAN, user : BOOLEAN, version : Nat]]
        /\ \A s \in RoleNames : s # r => doris'[s] = doris[s]
        /\ \A s \in RoleNames : doris[s].version <= doris'[s].version
        /\ faults' \in 0 .. MaxRoleFaults
    BY <1>5, SameVersions, RolesFinite DEF RoleInv, Roles!TypeOK, Roles!RolesAssumption
  <2> QED BY <1>1, <1>2, <1>5, <2>1, GivingUp
<1> QED BY <1>1, <1>4, <1>5 DEF Roles!UndoesRole

(* A DROP that takes only away, and breaks what it was about.              *)
LEMMA DropFailsKeeps ==
    ASSUME Roles!RolesAssumption, RoleInv, NEW a \in Admins, pc[a] # "idle", NEW what,
           Roles!DropFails(a, what), UNCHANGED <<Roles!rowVars, seen>>
    PROVE  RoleInv'
<1>1. PICK r \in RoleNames : r = target[a]
  BY DEF Roles!Requests, RoleInv, LocksAreHeld
<1> DEFINE noUser == [doris[r] EXCEPT !.user = FALSE]
           noRole == [doris[r] EXCEPT !.role = FALSE]
<1>2. /\ noUser \in Identities /\ noRole \in Identities /\ doris[r] \in Identities
      /\ doris = [doris EXCEPT ![r] = doris[r]]
      /\ [doris EXCEPT ![r].user = FALSE] = [doris EXCEPT ![r] = noUser]
      /\ [doris EXCEPT ![r].role = FALSE] = [doris EXCEPT ![r] = noRole]
      /\ ~noUser.user /\ noUser.role = doris[r].role /\ noUser.version = doris[r].version
      /\ ~noRole.role /\ noRole.user = doris[r].user /\ noRole.version = doris[r].version
      /\ doris[r].version \in Nat
  BY Identity
<1> HIDE DEF noUser, noRole
<1>3. PICK new \in Identities :
          /\ doris' = [doris EXCEPT ![r] = new] /\ doris[r].version <= new.version
          /\ (new.role => doris[r].role) /\ (new.user => doris[r].user)
  <2>1. /\ doris[r].version <= doris[r].version /\ doris[r].version <= noUser.version
        /\ doris[r].version <= noRole.version
    BY <1>2
  <2>2. \/ doris' = doris \/ doris' = [doris EXCEPT ![r].user = FALSE]
        \/ doris' = [doris EXCEPT ![r].role = FALSE]
    BY <1>1 DEF Roles!DropFails
  <2>3. CASE doris' = doris
    BY <1>2, <2>1, <2>3
  <2>4. CASE doris' = [doris EXCEPT ![r].user = FALSE]
    BY <1>2, <2>1, <2>4
  <2>5. CASE doris' = [doris EXCEPT ![r].role = FALSE]
    BY <1>2, <2>1, <2>5
  <2> QED BY <2>2, <2>3, <2>4, <2>5
<1>4. /\ doris' \in [RoleNames -> [role : BOOLEAN, user : BOOLEAN, version : Nat]] /\ doris'[r] = new
      /\ \A s \in RoleNames : s # r => doris'[s] = doris[s]
      /\ \A s \in RoleNames : doris[s].version <= doris'[s].version
  BY <1>3, OneRole DEF Identities
<1>5. \A s \in RoleNames : (doris'[s].role => doris[s].role) /\ (doris'[s].user => doris[s].user)
  BY <1>3, <1>4
<1>6. /\ Roles!Leaves(a) /\ broken' = broken \cup {r} /\ faults' \in 0 .. MaxRoleFaults
  BY <1>1, RolesFinite DEF Roles!DropFails, RoleInv, Roles!TypeOK, Roles!RolesAssumption
<1> QED BY <1>1, <1>4, <1>5, <1>6, GivingUp

LEMMA DropsUserKeeps ==
    ASSUME Roles!RolesAssumption, RoleInv, NEW a \in Admins, Roles!DropsUser(a)
    PROVE  RoleInv'
<1>1. PICK r \in RoleNames : r = target[a]
  BY DEF Roles!DropsUser, Roles!Requests, RoleInv, LocksAreHeld
<1>2. /\ pc[a] = "dropUser" /\ Works(a, r) /\ UNCHANGED <<Roles!rowVars, seen>>
      /\ (security = a => r \in configured /\ Roles!AssignedUsers(r) = {})
  BY <1>1 DEF Roles!DropsUser, RoleInv, RolesOfAccounts, Works, Working
<1> DEFINE new == [doris[r] EXCEPT !.user = FALSE]
<1>3. /\ new \in Identities /\ new.user = FALSE /\ new.role = doris[r].role
      /\ new.version = doris[r].version /\ doris[r].version \in Nat
      /\ [doris EXCEPT ![r].user = FALSE] = [doris EXCEPT ![r] = new]
  BY Identity
<1> HIDE DEF new
<1>4. CASE /\ doris' = [doris EXCEPT ![r].user = FALSE] /\ Roles!Goto(a, "dropRole")
           /\ UNCHANGED <<Roles!lockVars, target, snapshot, broken, faults>>
  <2>1. /\ doris' = [doris EXCEPT ![r] = new] /\ doris[r].version <= new.version
        /\ broken' = broken /\ faults' \in 0 .. MaxRoleFaults /\ security' = security
        /\ configured' = configured /\ account' = account
    BY <1>2, <1>3, <1>4 DEF RoleInv, Roles!TypeOK
  <2>2. doris'[r] = new /\ \A s \in RoleNames : s # r => doris'[s] = doris[s]
    BY <1>3, <2>1, OneRole DEF Identities
  <2>3. RolesOwed(a, "dropRole", r)
    <3>1. \A s \in RoleNames : (doris'[s].role => doris[s].role) /\ (doris'[s].user => doris[s].user)
      BY <1>3, <2>2
    <3> QED BY <1>2, <1>3, <2>1, <2>2, <3>1 DEF RolesOwed, RoleInv, RolesOfAccounts
  <2>4. r \notin broken' => TidyAfter(a, "dropRole", new)
    <3>1. r \notin broken => doris[r].role /\ (security # a => r \notin configured)
      BY <1>2 DEF RoleInv, IdentitiesAreTidy, IdentityIsTidy, Compensates
    <3> QED BY <1>1, <1>2, <1>3, <2>1, <3>1 DEF TidyAfter, Working
  <2>5. "dropRole" \in Roles!Phases
    BY DEF Roles!Phases
  <2> QED BY <1>1, <1>2, <1>3, <1>4, <2>1, <2>3, <2>4, <2>5, GoingOn
<1>5. CASE Roles!DropFails(a, "user")
  BY <1>2, <1>5, DropFailsKeeps
<1> QED BY <1>1, <1>4, <1>5 DEF Roles!DropsUser

LEMMA DropsRoleKeeps ==
    ASSUME Roles!RolesAssumption, RoleInv, NEW a \in Admins, Roles!DropsRole(a)
    PROVE  RoleInv'
<1>1. PICK r \in RoleNames : r = target[a]
  BY DEF Roles!DropsRole, Roles!Requests, RoleInv, LocksAreHeld
<1>2. /\ pc[a] = "dropRole" /\ Works(a, r) /\ UNCHANGED <<Roles!rowVars, seen>>
      /\ (security = a => r \in configured /\ Roles!AssignedUsers(r) = {} /\ ~doris[r].user)
  BY <1>1 DEF Roles!DropsRole, RoleInv, RolesOfAccounts, Works, Working
<1> DEFINE new == [doris[r] EXCEPT !.role = FALSE]
<1>3. /\ new \in Identities /\ new.role = FALSE /\ new.user = doris[r].user
      /\ new.version = doris[r].version /\ doris[r].version \in Nat
      /\ [doris EXCEPT ![r].role = FALSE] = [doris EXCEPT ![r] = new]
  BY Identity
<1> HIDE DEF new
<1>4. CASE /\ doris' = [doris EXCEPT ![r].role = FALSE] /\ security = a /\ Roles!Goto(a, "delete")
           /\ UNCHANGED <<Roles!lockVars, target, snapshot, broken, faults>>
  <2>1. /\ doris' = [doris EXCEPT ![r] = new] /\ doris[r].version <= new.version
        /\ broken' = broken /\ faults' \in 0 .. MaxRoleFaults /\ security' = security
        /\ configured' = configured /\ account' = account
    BY <1>2, <1>3, <1>4 DEF RoleInv, Roles!TypeOK
  <2>2. doris'[r] = new /\ \A s \in RoleNames : s # r => doris'[s] = doris[s]
    BY <1>3, <2>1, OneRole DEF Identities
  <2>3. RolesOwed(a, "delete", r)
    <3>1. \A s \in RoleNames : (doris'[s].role => doris[s].role) /\ (doris'[s].user => doris[s].user)
      BY <1>3, <2>2
    <3> QED BY <1>2, <1>3, <1>4, <2>1, <2>2, <3>1 DEF RolesOwed, RoleInv, RolesOfAccounts
  <2>4. TidyAfter(a, "delete", new)
    BY <1>1, <1>2 DEF TidyAfter, Working
  <2>5. "delete" \in Roles!Phases
    BY DEF Roles!Phases
  <2> QED BY <1>1, <1>2, <1>3, <1>4, <2>1, <2>3, <2>4, <2>5, GoingOn
<1>5. CASE /\ doris' = [doris EXCEPT ![r].role = FALSE] /\ security # a /\ Roles!Leaves(a)
           /\ UNCHANGED <<broken, faults>>
  <2>1. doris' = [doris EXCEPT ![r] = new] /\ doris[r].version <= new.version
    BY <1>3, <1>5
  <2>2. r \notin broken => TidyAfter(a, "idle", new)
    <3>1. r \notin broken => ~doris[r].user /\ r \notin configured
      BY <1>2, <1>5 DEF RoleInv, IdentitiesAreTidy, IdentityIsTidy, Compensates
    <3> QED BY <1>1, <1>2, <1>3, <3>1 DEF TidyAfter, Working
  <2> QED BY <1>1, <1>2, <1>3, <1>5, <2>1, <2>2, Finishing
<1>6. CASE Roles!DropFails(a, "role")
  BY <1>2, <1>6, DropFailsKeeps
<1> QED BY <1>1, <1>4, <1>5, <1>6 DEF Roles!DropsRole

(* A step of the only request under the security lock that writes the row. *)
LEMMA CommitsRoleKeeps ==
    ASSUME Roles!RolesAssumption, RoleInv, NEW a \in Admins, Roles!CommitsRole(a)
    PROVE  RoleInv'
<1>1. PICK r \in RoleNames : r = target[a]
  BY DEF Roles!CommitsRole, Roles!Requests, RoleInv, LocksAreHeld
<1>2. /\ pc[a] = "commit" /\ security = a /\ r \notin configured /\ Works(a, r) /\ a \in Roles!Requests
      /\ default' = default /\ fingerprint' = fingerprint /\ account' = account
      /\ doris' = doris /\ seen' = seen
      /\ (r \notin broken => doris[r].role /\ doris[r].user)
  <2>1. pc[a] = "commit" /\ Works(a, r)
    BY <1>1 DEF Roles!CommitsRole, Works, Working
  <2> QED BY <1>1, <2>1 DEF Roles!CommitsRole, RoleInv, LocksAreHeld, RolesOfAccounts, Roles!Requests,
                            IdentitiesAreTidy, IdentityIsTidy
<1>3. \A s \in RoleNames : doris[s].version <= doris'[s].version
  BY <1>2, SameVersions
<1>4. CASE configured' = configured \cup {r} /\ Roles!Leaves(a) /\ UNCHANGED <<broken, faults>>
  <2>1. Roles!TypeOK'
    BY <1>2, <1>4, Left DEF RoleInv, Roles!TypeOK
  <2>2. /\ Moved(a, "idle", NoRole) /\ LocksOwed(a, "idle", NoRole)
        /\ snapshot' = [snapshot EXCEPT ![a] = 0]
    BY <1>2, <1>4, Left
  <2>3. SeenOwed(a, "idle", NoRole)
    BY <1>2, <1>3, <2>2 DEF SeenOwed
  <2>4. RolesOwed(a, "idle", NoRole)
    BY <1>2, <1>4 DEF RolesOwed, RoleInv, RolesOfAccounts
  <2>5. IdentitiesAreTidy'
    <3>1. r \notin broken => IdentityIsTidy(r)'
      BY <1>2, <1>4, <2>2, AloneStep DEF Working
    <3>2. \A s \in RoleNames : s # r =>
              /\ doris'[s].role = doris[s].role /\ doris'[s].user = doris[s].user
              /\ (s \in configured' <=> s \in configured)
              /\ (s \in broken => s \in broken')
      BY <1>2, <1>4
    <3>3. "idle" \notin Working /\ (r \in broken' \/ IdentityIsTidy(r)')
      BY <1>4, <3>1 DEF Working
    <3> QED BY <1>1, <2>2, <3>2, <3>3, OneIdentity DEF LocksOwed
  <2> QED BY <1>2, <2>1, <2>2, <2>3, <2>4, <2>5, RequestStep
<1>5. CASE /\ Roles!Fault /\ pc' = [pc EXCEPT ![a] = "dropUser"] /\ Roles!Unlocks(a) /\ target' = target
           /\ snapshot' = snapshot
           /\ \/ configured' = configured /\ broken' = broken
              \/ configured' = configured \cup {r} /\ broken' = broken \cup {r}
  <2>1. /\ Moved(a, "dropUser", r) /\ LocksOfOthers(a) /\ security' # a
        /\ security' \in Admins \cup {Nobody} /\ rowLock' \in [RoleNames -> Roles!Requests \cup {Nobody}]
    BY <1>1, <1>2, <1>5, SameTarget, Unlocked
  <2>2. Roles!TypeOK'
    BY <1>2, <1>5, <2>1, RolesFinite DEF RoleInv, Roles!TypeOK, Roles!Phases, Roles!RolesAssumption
  <2>3. LocksOwed(a, "dropUser", r)
    BY <1>2, <2>1 DEF LocksOwed
  <2>4. SeenOwed(a, "dropUser", r)
    BY <1>2, <1>3, <1>5, SameSnapshot
  <2>5. RolesOwed(a, "dropUser", r)
    BY <1>2, <1>5, <2>1 DEF RolesOwed, RoleInv, RolesOfAccounts
  <2>6. IdentitiesAreTidy'
    <3>1. configured' = configured /\ broken' = broken /\ r \notin broken => IdentityIsTidy(r)'
      BY <1>2, <2>1, AloneStep DEF Working
    <3>2. \A s \in RoleNames : s # r =>
              /\ doris'[s].role = doris[s].role /\ doris'[s].user = doris[s].user
              /\ (s \in configured' <=> s \in configured)
              /\ (s \in broken => s \in broken')
      BY <1>2, <1>5
    <3>3. r \in broken' \/ IdentityIsTidy(r)'
      BY <1>5, <3>1
    <3> QED BY <1>1, <2>1, <3>2, <3>3, OneIdentity
  <2> QED BY <1>2, <2>1, <2>2, <2>3, <2>4, <2>5, <2>6, RequestStep
<1> QED BY <1>1, <1>4, <1>5 DEF Roles!CommitsRole

LEMMA CommitsDeleteKeeps ==
    ASSUME Roles!RolesAssumption, RoleInv, NEW a \in Admins, Roles!CommitsDelete(a)
    PROVE  RoleInv'
<1>1. PICK r \in RoleNames : r = target[a]
  BY DEF Roles!CommitsDelete, Roles!Requests, RoleInv, LocksAreHeld
<1>2. /\ pc[a] = "delete" /\ security = a /\ Roles!Leaves(a) /\ a \in Roles!Requests /\ Works(a, r)
      /\ Roles!AssignedUsers(r) = {} /\ ~doris[r].role /\ ~doris[r].user
      /\ account' = account /\ doris' = doris /\ faults' = faults
  <2>1. pc[a] = "delete" /\ security = a
    BY DEF Roles!CommitsDelete, RoleInv, LocksAreHeld
  <2> QED BY <1>1, <2>1 DEF Roles!CommitsDelete, RoleInv, RolesOfAccounts, Roles!Requests, Works, Working
<1>3. /\ configured' = configured \ {r}
      /\ default' = (IF default = r THEN NoRole ELSE default)
      /\ fingerprint' = [fingerprint EXCEPT ![r] = 0] /\ seen' = [seen EXCEPT ![r] = 0]
      /\ broken' = IF \E b \in Admins \ {a} : target[b] = r THEN broken ELSE broken \ {r}
  BY <1>1, <1>2 DEF Roles!CommitsDelete
<1>4. /\ Moved(a, "idle", NoRole) /\ LocksOwed(a, "idle", NoRole)
      /\ snapshot' = [snapshot EXCEPT ![a] = 0]
  BY <1>2, Left
<1>5. Roles!TypeOK'
  <2>1. /\ fingerprint' \in [RoleNames -> Nat] /\ seen' \in [RoleNames -> Nat]
        /\ configured' \subseteq RoleNames /\ default' \in configured' \cup {NoRole}
        /\ broken' \subseteq RoleNames
    BY <1>3 DEF RoleInv, Roles!TypeOK
  <2> QED BY <1>2, <2>1, Left DEF RoleInv, Roles!TypeOK
<1>6. SeenInOrder'
  <2>1. \A s \in RoleNames : /\ seen'[s] = (IF s = r THEN 0 ELSE seen[s])
                        /\ fingerprint'[s] = (IF s = r THEN 0 ELSE fingerprint[s])
                        /\ doris[s].version \in Nat
    BY <1>3 DEF RoleInv, Roles!TypeOK
  <2>2. \A s \in RoleNames : seen'[s] <= fingerprint'[s] /\ seen'[s] <= doris'[s].version
    BY <1>2, <2>1 DEF RoleInv, SeenInOrder
  <2>3. \A q \in Roles!Requests : pc'[q] = "observed" =>
            /\ pc[q] = "observed" /\ target'[q] = target[q] /\ snapshot'[q] = snapshot[q]
            /\ target[q] \in RoleNames /\ snapshot[q] \in Nat
    BY <1>4 DEF RoleInv, Roles!TypeOK, Moved, LocksAreHeld
  <2>4. \A q \in Roles!Requests : pc'[q] = "observed" =>
            /\ seen'[target'[q]] <= snapshot'[q]
            /\ snapshot'[q] <= doris'[target'[q]].version
    BY <1>2, <2>1, <2>3 DEF RoleInv, SeenInOrder
  <2> QED BY <2>2, <2>4 DEF SeenInOrder
<1>7. RolesOfAccounts'
  <2>1. \A u \in Accounts : account[u].role \in configured' \cup {NoRole}
    <3>1. \A u \in Accounts : account[u].role = r => u \notin Roles!Existing
      BY <1>2 DEF Roles!AssignedUsers
    <3>2. r # NoRole
      BY RolesFinite DEF Roles!RolesAssumption
    <3> QED BY <1>3, <3>1, <3>2 DEF RoleInv, RolesOfAccounts
  <2>2. RolesOwed(a, "idle", NoRole)
    BY <1>2, <2>1 DEF RolesOwed
  <2> QED BY <1>2, <1>4, <2>2, RolesStep
<1>8. IdentitiesAreTidy'
  <2>1. (r \notin broken \/ \A b \in Admins \ {a} : ~Works(b, r)) => IdentityIsTidy(r)'
    BY <1>2, <1>3, <1>4, AloneStep DEF Working
  <2>2. r \in broken' \/ r \notin broken \/ \A b \in Admins \ {a} : ~Works(b, r)
    BY <1>3 DEF Works
  <2>3. \A s \in RoleNames : s # r =>
            /\ doris'[s].role = doris[s].role /\ doris'[s].user = doris[s].user
            /\ (s \in configured' <=> s \in configured)
            /\ (s \in broken => s \in broken')
    BY <1>2, <1>3
  <2>4. "idle" \notin Working /\ (r \in broken' \/ IdentityIsTidy(r)')
    BY <2>1, <2>2 DEF Working
  <2> QED BY <1>1, <1>4, <2>3, <2>4, OneIdentity DEF LocksOwed
<1>9. Roles!AdministratorRemains'
  BY <1>2 DEF RoleInv, Roles!AdministratorRemains, Roles!ActiveAdmins, Roles!Existing
<1> QED BY <1>2, <1>4, <1>5, <1>6, <1>7, <1>8, <1>9, LocksStep DEF RoleInv

LEMMA CrashKeeps ==
    ASSUME Roles!RolesAssumption, RoleInv, NEW p \in Roles!Requests, Roles!Crash(p)
    PROVE  RoleInv'
<1>1. /\ pc[p] # "idle" /\ Roles!Leaves(p) /\ UNCHANGED <<Roles!rowVars, doris, seen>>
      /\ faults' \in 0 .. MaxRoleFaults
      /\ broken' = (IF pc[p] \in Working THEN broken \cup {target[p]} ELSE broken)
  BY RolesFinite DEF Roles!Crash, Roles!Creating, Working, RoleInv, Roles!TypeOK, Roles!RolesAssumption
<1>2. CASE pc[p] \in Working
  <2>1. p \in Admins
    BY <1>2 DEF RoleInv, LocksAreHeld, Working
  <2>2. /\ doris' \in [RoleNames -> [role : BOOLEAN, user : BOOLEAN, version : Nat]]
        /\ doris' = doris /\ \A s \in RoleNames : doris[s].version <= doris'[s].version
    BY <1>1, SameVersions DEF RoleInv, Roles!TypeOK
  <2> QED BY <1>1, <1>2, <2>1, <2>2, GivingUp
<1>3. CASE pc[p] \notin Working
  <2>1. broken' = broken /\ broken \subseteq RoleNames
    BY <1>1, <1>3 DEF RoleInv, Roles!TypeOK
  <2> QED BY <1>1, <1>3, <2>1, LeavingKeeps
<1> QED BY <1>2, <1>3

-----------------------------------------------------------------------------
(* Inductiveness and the theorem.                                          *)

LEMMA RoleInvInit == ASSUME Roles!RolesAssumption, Roles!Init PROVE RoleInv
<1>0. \A u \in Accounts : account[u] \in [state : {"none", "active", "disabled", "gone"},
                                      admin : BOOLEAN, role : RoleNames \cup {NoRole}]
                       /\ account[u].role = NoRole
  <2> SUFFICES ASSUME NEW u \in Accounts
               PROVE  /\ account[u] \in [state : {"none", "active", "disabled", "gone"},
                                         admin : BOOLEAN, role : RoleNames \cup {NoRole}]
                      /\ account[u].role = NoRole
    OBVIOUS
  <2>1. CASE u = FirstAdmin
    BY <2>1 DEF Roles!Init, Roles!NewUser
  <2>2. CASE u # FirstAdmin
    BY <2>2 DEF Roles!Init, Roles!NewUser
  <2> QED BY <2>1, <2>2
<1>1. Roles!TypeOK
  <2>1. account \in [Accounts -> [state : {"none", "active", "disabled", "gone"},
                               admin : BOOLEAN, role : RoleNames \cup {NoRole}]]
    BY <1>0 DEF Roles!Init
  <2>2. faults \in 0 .. MaxRoleFaults
    BY RolesFinite DEF Roles!Init, Roles!RolesAssumption
  <2> QED BY <2>1, <2>2 DEF Roles!Init, Roles!TypeOK, Roles!Phases
<1>2. LocksAreHeld
  BY DEF Roles!Init, LocksAreHeld, Roles!Requests
<1>3. SeenInOrder
  BY DEF Roles!Init, SeenInOrder
<1>4. RolesOfAccounts
  <2>1. \A a \in Admins : pc[a] = "idle"
    BY DEF Roles!Init, Roles!Requests
  <2> QED BY <1>0, <2>1 DEF RolesOfAccounts
<1>5. IdentitiesAreTidy
  BY DEF Roles!Init, IdentitiesAreTidy, IdentityIsTidy, Works, Working, Roles!Requests
<1>6. Roles!AdministratorRemains
  <2>1. FirstAdmin \in Roles!ActiveAdmins
    BY RolesFinite DEF Roles!Init, Roles!ActiveAdmins, Roles!Existing, Roles!NewUser, Roles!RolesAssumption
  <2> QED BY <2>1 DEF Roles!AdministratorRemains
<1> QED BY <1>1, <1>2, <1>3, <1>4, <1>5, <1>6 DEF RoleInv

LEMMA RoleInvStep == ASSUME Roles!RolesAssumption, RoleInv, [Roles!Next]_(Roles!roleVars) PROVE RoleInv'
<1>1. CASE UNCHANGED Roles!roleVars
  BY <1>1 DEF RoleInv, Roles!TypeOK, LocksAreHeld, SeenInOrder, RolesOfAccounts, IdentitiesAreTidy,
              IdentityIsTidy, Works, Compensates, Roles!AdministratorRemains, Roles!ActiveAdmins, Roles!Existing,
              Roles!AssignedUsers
<1>2. CASE Roles!AccountNext
  BY <1>2, AccountRowChanges, AccountKeeps, SetDefaultKeeps DEF Roles!AccountNext
<1>3. CASE \E a \in Admins : Roles!RoleNext(a)
  <2>1. PICK a \in Admins : Roles!RoleNext(a)
    BY <1>3
  <2>2. CASE \E r \in RoleNames : Roles!BeginCreate(a, r) \/ Roles!BeginDelete(a, r) \/ Roles!BeginChange(a, r)
    BY <2>2, BeginCreateKeeps, BeginDeleteKeeps, BeginChangeKeeps
  <2>3. CASE Roles!CreatesRole(a) \/ Roles!CreatesUser(a) \/ Roles!UndoesRole(a) \/ Roles!CommitsRole(a)
             \/ Roles!DropsUser(a) \/ Roles!DropsRole(a) \/ Roles!CommitsDelete(a) \/ Roles!ChangesGrants(a)
    BY <2>3, CreatesRoleKeeps, CreatesUserKeeps, UndoesRoleKeeps, CommitsRoleKeeps,
       DropsUserKeeps, DropsRoleKeeps, CommitsDeleteKeeps, ChangesGrantsKeeps
  <2>4. CASE Roles!ChangeFails(a) \/ Roles!StillGranted(a)
    <3>1. /\ a \in Roles!Requests /\ Roles!Leaves(a) /\ pc[a] \notin Working
          /\ UNCHANGED <<Roles!rowVars, doris, seen>> /\ broken' = broken /\ faults' = faults
      BY <2>4 DEF Roles!ChangeFails, Roles!StillGranted, Working, Roles!Requests
    <3>2. broken' \subseteq RoleNames /\ faults' \in 0 .. MaxRoleFaults
      BY <3>1 DEF RoleInv, Roles!TypeOK
    <3> QED BY <3>1, <3>2, LeavingKeeps
  <2> QED BY <2>1, <2>2, <2>3, <2>4 DEF Roles!RoleNext
<1>4. CASE \E o \in Observers : Roles!LocksRow(o) \/ \E u \in Accounts : Roles!BeginObserve(o, u)
  BY <1>4, LocksRowKeeps, BeginObserveKeeps
<1>5. CASE \E p \in Roles!Requests : Roles!ReadsAuthorization(p) \/ Roles!CommitsFingerprint(p) \/ Roles!Crash(p)
  BY <1>5, ReadsAuthorizationKeeps, CommitsFingerprintKeeps, CrashKeeps
<1>6. CASE \E r \in RoleNames : Roles!ChangedOutside(r)
  BY <1>6, ChangedOutsideKeeps
<1> QED BY <1>1, <1>2, <1>3, <1>4, <1>5, <1>6 DEF Roles!Next

(* What the invariant says of a role that nobody works on and that no      *)
(* fault has broken.                                                       *)
LEMMA RoleInvSafe == ASSUME Roles!RolesAssumption, RoleInv PROVE Roles!RolesAreSafe
<1>1. Roles!FingerprintsFollow
  BY DEF RoleInv, Roles!TypeOK, SeenInOrder, Roles!FingerprintsFollow
<1>2. Roles!AssignedRolesWork
  <2> SUFFICES ASSUME NEW u \in Roles!Existing, account[u].role # NoRole
               PROVE  /\ account[u].role \in configured
                      /\ account[u].role \notin broken => Roles!Readable(account[u].role)
    BY DEF Roles!AssignedRolesWork
  <2> DEFINE r == account[u].role
  <2>1. r \in configured /\ r \in RoleNames /\ u \in Roles!AssignedUsers(r)
    BY DEF RoleInv, Roles!TypeOK, RolesOfAccounts, Roles!Existing, Roles!AssignedUsers
  <2>2. ASSUME r \notin broken PROVE \A a \in Admins : ~Works(a, r)
    <3> SUFFICES ASSUME NEW a \in Admins, Works(a, r) PROVE FALSE
      OBVIOUS
    <3>1. IdentityIsTidy(r)
      BY <2>1, <2>2 DEF RoleInv, IdentitiesAreTidy
    <3>2. pc[a] \in Working /\ target[a] = r
      BY DEF Works
    <3>3. CASE pc[a] \in {"user", "undo", "commit"}
      BY <2>1, <3>2, <3>3 DEF RoleInv, RolesOfAccounts
    <3>4. CASE pc[a] \in {"dropUser", "dropRole", "delete"}
      <4>1. security = a
        BY <2>1, <3>1, <3>4 DEF IdentityIsTidy, Compensates, RoleInv, LocksAreHeld
      <4> QED BY <2>1, <3>2, <3>4, <4>1 DEF RoleInv, RolesOfAccounts
    <3> QED BY <3>2, <3>3, <3>4 DEF Working
  <2> HIDE DEF r
  <2>3. r \notin broken => Roles!Readable(r)
    BY <2>1, <2>2 DEF RoleInv, IdentitiesAreTidy, IdentityIsTidy, Roles!Readable
  <2> QED BY <2>1, <2>3 DEF r
<1>3. Roles!IdentitiesMatchRows
  BY DEF RoleInv, IdentitiesAreTidy, IdentityIsTidy, Works, Roles!IdentitiesMatchRows
<1> QED BY <1>1, <1>2, <1>3 DEF RoleInv, Roles!RolesAreSafe


-----------------------------------------------------------------------------
(* The three parts.  Each keeps its invariant whichever part moves.        *)

AccessInv == CredInv /\ RoleInv /\ RateInv

LEMMA AccessInvInit == AccessInit => AccessInv
BY AccessAssumption, InitCred, RoleInvInit, RateInit DEF AccessInit, AccessInv

LEMMA AccessInvNext == AccessInv /\ [AccessNext]_accessVars => AccessInv'
<1>. SUFFICES ASSUME AccessInv, [AccessNext]_accessVars PROVE AccessInv'
  OBVIOUS
<1>1. /\ [Auth!Next]_(Auth!authVars) /\ [Roles!Next]_(Roles!roleVars)
      /\ [Rates!Next]_(Rates!rateVars)
  <2>1. UNCHANGED authVars => UNCHANGED Auth!authVars
    BY DEF authVars, Auth!authVars, Auth!lockVars, Auth!historyVars
  <2>2. UNCHANGED roleVars => UNCHANGED Roles!roleVars
    BY DEF roleVars, Roles!roleVars, Roles!rowVars, Roles!lockVars, Roles!workVars
  <2>3. UNCHANGED rateVars => UNCHANGED Rates!rateVars
    BY DEF rateVars, Rates!rateVars, Rates!redisVars
  <2>. QED  BY <2>1, <2>2, <2>3 DEF AccessNext, AuthStep, RoleStep, RateStep, accessVars
<1>2. CredInv'
  BY <1>1, AccessAssumption, CredStep DEF AccessInv
<1>3. RoleInv'
  BY <1>1, AccessAssumption, RoleInvStep DEF AccessInv
<1>4. RateInv'
  BY <1>1, RateNext DEF AccessInv
<1>. QED  BY <1>2, <1>3, <1>4 DEF AccessInv

LEMMA AccessInvHolds == AccessSpec => []AccessInv
BY AccessInvInit, AccessInvNext, PTL DEF AccessSpec

(* Every variable of the part that moves has its type.                     *)
THEOREM AccessTypesKept == AccessSpec => []AccessTypes
<1>1. AccessInv => AccessTypes
  BY RatesFollow DEF AccessInv, CredInv, RoleInv, AccessTypes
<1>. QED  BY <1>1, AccessInvHolds, PTL

(* A family of refresh tokens has one live token at most and none after a  *)
(* logout or a reuse, and old credentials are void; whatever statements    *)
(* fail and requests crash, newer authorizations are not overwritten,      *)
(* roles in use have their row and their identity, and there is an active  *)
(* administrator; and BoundedRateLimiter and its script in Redis answer    *)
(* every request as the log of what they accepted asks for.                *)
THEOREM AccessStaysSafe == AccessSpec => []AccessIsSafe
<1>1. AccessInv => AccessIsSafe
  BY AccessAssumption, CredImpliesSafe, RoleInvSafe, RatesFollow DEF AccessInv, AccessIsSafe
<1>. QED  BY <1>1, AccessInvHolds, PTL
=============================================================================
