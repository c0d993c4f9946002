-------------------------- MODULE SemanticResources --------------------------
(* What a semantic recall returns of the metadata catalog, and what a user's *)
(* policy leaves of it: columns with the reference they show, tables with    *)
(* the key columns they show, metrics, values of columns, failed searches.   *)
EXTENDS Naturals, FiniteSets

CONSTANTS
    Columns, Tables, TableOf,
    Reference,       \* the column a column refers to
    Keys,            \* the primary key columns
    Metrics, Needs,  \* the columns a metric is computed from
    Values, ColumnOf,
    Failures,        \* the scopes in which a search can fail
    MaxVersion,      \* bound: metadata versions
    None

ResourcesAssumption ==
    /\ TableOf \in [Columns -> Tables] /\ Keys \subseteq Columns
    /\ Reference \in [Columns -> Columns \cup {None}] /\ None \notin Columns
    /\ Needs \in [Metrics -> SUBSET Columns] /\ ColumnOf \in [Values -> Columns]
    /\ MaxVersion \in Nat \ {0}

(* A policy grants columns, or the whole database.                           *)
Policies == [columns : SUBSET Columns, database : BOOLEAN]

(* The version of a resource is 0 where the response does not have it.       *)
Versions == 0 .. MaxVersion
Responses ==
    [columns : [Columns -> Versions], shown : SUBSET Columns,
     tables : [Tables -> Versions], keys : SUBSET Columns,
     metrics : [Metrics -> Versions], values : SUBSET Values, failures : SUBSET Failures]

In(items) == {i \in DOMAIN items : items[i] > 0}
Kept(items, kept) == [i \in DOMAIN items |-> IF i \in kept THEN items[i] ELSE 0]

-----------------------------------------------------------------------------
AllowedColumns(p) == IF p.database THEN Columns ELSE p.columns

VisibleTables(p) == IF p.database THEN Tables ELSE {TableOf[c] : c \in p.columns}

(* A metric of no column needs the whole database.                           *)
AllowedMetrics(p) ==
    {m \in Metrics : IF Needs[m] = {} THEN p.database ELSE Needs[m] \subseteq AllowedColumns(p)}

(* filter_recall_response: references and keys go with their columns.        *)
Filtered(p, r) ==
    LET allowed == AllowedColumns(p)
    IN  [r EXCEPT !.columns = Kept(@, allowed),
                  !.shown = {c \in @ \cap allowed : Reference[c] \in allowed},
                  !.tables = Kept(@, VisibleTables(p)),
                  !.keys = {c \in @ \cap allowed : TableOf[c] \in VisibleTables(p)},
                  !.metrics = Kept(@, AllowedMetrics(p)),
                  !.values = {v \in @ : ColumnOf[v] \in allowed}]

-----------------------------------------------------------------------------
(* The context of a set of columns: what their tables refer to, one step,    *)
(* then the keys of the tables taken part by then.                           *)
TablesOf(cols) == {TableOf[c] : c \in cols}

WithReferences(allowed, cols) ==
    LET referring == {c \in allowed : TableOf[c] \in TablesOf(cols) /\ Reference[c] \in allowed}
    IN  cols \cup referring \cup {Reference[c] : c \in referring}

WithKeys(allowed, cols) ==
    cols \cup {c \in Keys \cap allowed : TableOf[c] \in TablesOf(cols)}

InContext(allowed, cols) == WithKeys(allowed, WithReferences(allowed, cols))

(* The response that shows the columns, metrics and values at a version.     *)
Response(p, version, cols, metrics, values, failures) ==
    LET allowed == AllowedColumns(p)
    IN  [columns |-> [c \in Columns |-> IF c \in cols THEN version ELSE 0],
         shown |-> {c \in cols : Reference[c] \in allowed},
         tables |-> [t \in Tables |-> IF t \in TablesOf(cols) \cap VisibleTables(p)
                                      THEN version ELSE 0],
         keys |-> {c \in Keys \cap allowed : TableOf[c] \in TablesOf(cols)},
         metrics |-> [m \in Metrics |-> IF m \in metrics THEN version ELSE 0],
         values |-> values, failures |-> failures]

(* Everything a response names is allowed by the policy.                     *)
Authorized(p, r) ==
    LET allowed == AllowedColumns(p)
    IN  /\ In(r.columns) \cup r.keys \subseteq allowed
        /\ \A c \in r.shown : c \in allowed /\ Reference[c] \in allowed
        /\ In(r.tables) \subseteq VisibleTables(p)
        /\ \A m \in In(r.metrics) : Needs[m] \subseteq allowed /\ (Needs[m] = {} => p.database)
        /\ \A v \in r.values : ColumnOf[v] \in allowed

(* Values, keys and references come with their columns, columns with their   *)
(* tables.                                                                   *)
Closed(r) ==
    /\ {ColumnOf[v] : v \in r.values} \cup r.keys \cup r.shown \subseteq In(r.columns)
    /\ TablesOf(In(r.columns)) \subseteq In(r.tables)

=============================================================================
