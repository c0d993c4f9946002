--------------------------- MODULE MetadataCatalog ----------------------------
(***************************************************************************)
(* The catalogue: tables, their columns, the columns these refer to, and   *)
(* metrics with the columns they need.  Administrators edit single         *)
(* entries, delete some, or import a document that is merged into the      *)
(* catalogue or replaces it.  An import and a deletion read and check the  *)
(* catalogue in one transaction, work on the source and on the indexes     *)
(* without one, and write what they decided in another: the foreign keys   *)
(* of PostgreSQL then see to what has been added since.                    *)
(***************************************************************************)
EXTENDS FiniteSets

CONSTANTS
    Tables, Columns, Metrics,
    TableOf,   \* table of each column
    Contents,  \* what the row of a table may say
    None,      \* no reference
    Start,     \* the catalogues to begin with
    Jobs,      \* what an administrator may ask for
    Writers    \* requests, one each

(* A catalogue: content of its tables, reference of its columns, columns   *)
(* of its metrics.  The document of an import has the same shape.          *)
Partial(S, T) == UNION {[D -> T] : D \in SUBSET S}
Catalogs == [tables : Partial(Tables, Contents), columns : Partial(Columns, Columns \cup {None}),
             metrics : Partial(Metrics, SUBSET Columns)]
Fields == {"tables", "columns", "metrics"}

(* Entry e refers to column r; both, for the entries of S.                 *)
RefersTo(k, e, r) ==
    \/ e \in DOMAIN k.columns /\ r = k.columns[e]
    \/ e \in DOMAIN k.metrics /\ r \in k.metrics[e]
References(k, S) == {pair \in S \X Columns : RefersTo(k, pair[1], pair[2])}
Entries == Columns \cup Metrics

(* The columns of a document are written under its tables.                 *)
Nested(k) == \A c \in DOMAIN k.columns : TableOf[c] \in DOMAIN k.tables

(* The foreign keys.                                                       *)
Sound(k) ==
    /\ Nested(k)
    /\ \A pair \in References(k, Entries) : pair[2] \in DOMAIN k.columns

(* No request lets a column refer to itself.                               *)
Straight(k) == \A pair \in References(k, Entries) : pair[1] # pair[2]

(* What can be asked for: what the entries of a field are called, and what *)
(* they say.                                                               *)
Keys == [tables |-> Tables, columns |-> Columns, metrics |-> Metrics]
Says == [tables |-> Contents, columns |-> Columns \cup {None}, metrics |-> SUBSET Columns]
Possible(job) ==
    \/ /\ job.kind = "import" /\ job.document \in Catalogs /\ Nested(job.document)
       /\ job \in [kind : {"import"}, document : {job.document}, replace : BOOLEAN]
    \/ /\ job.kind = "put" /\ job.field \in Fields
       /\ job \in [kind : {"put"}, field : Fields, key : Keys[job.field], value : Says[job.field]]
    \/ /\ job.kind = "delete" /\ job.field \in Fields
       /\ job \in [kind : {"delete"}, field : Fields, keys : SUBSET Keys[job.field]]

CatalogAssumption ==
    /\ TableOf \in [Columns -> Tables] /\ None \notin Columns
    /\ Tables \cap Entries = {} /\ Columns \cap Metrics = {}
    /\ Start \subseteq Catalogs /\ \A k \in Start : Sound(k) /\ Straight(k)
    /\ \A job \in Jobs : Possible(job)

VARIABLES
    catalog,
    writer     \* phase, job and the catalogue that was read

catalogVars == <<catalog, writer>>

Init ==
    /\ catalog \in Start
    /\ writer = [w \in Writers |-> [phase |-> "new"]]

-----------------------------------------------------------------------------
(* What changes.                                                           *)

Restricted(f, S) == [x \in DOMAIN f \cap S |-> f[x]]
Overlaid(f, g, S) == [x \in DOMAIN f \cup S |-> IF x \in S THEN g[x] ELSE f[x]]

(* Created, updated and deleted keys between what exists and what is       *)
(* imported.                                                               *)
Changes(existing, imported, replace) ==
    [created |-> DOMAIN imported \ DOMAIN existing,
     updated |-> {x \in DOMAIN existing \cap DOMAIN imported : existing[x] # imported[x]},
     deleted |-> IF replace THEN DOMAIN existing \ DOMAIN imported ELSE {}]

Nothing == [created |-> {}, updated |-> {}, deleted |-> {}]
Deletes(S) == [Nothing EXCEPT !.deleted = S]
Puts(f, x, value) ==
    [Nothing EXCEPT !.created = {x} \ DOMAIN f,
                    !.updated = {y \in {x} : y \in DOMAIN f /\ f[y] # value}]

ColumnsOf(k, S) == {c \in DOMAIN k.columns : TableOf[c] \in S}

(* The changes a job makes to a catalogue that was read.                   *)
Decided(job, k) ==
    CASE job.kind = "import" ->
            [x \in Fields |-> Changes(k[x], job.document[x], job.replace)]
      [] job.kind = "put" ->
            [x \in Fields |-> IF x = job.field THEN Puts(k[x], job.key, job.value) ELSE Nothing]
      [] OTHER ->
            [x \in Fields |->
                IF x = job.field THEN Deletes(job.keys)
                ELSE IF x = "columns" /\ job.field = "tables" THEN Deletes(ColumnsOf(k, job.keys))
                ELSE Nothing]

(* A document has a table or a metric; its references are to another       *)
(* column, one that is there or that the document brings; a document that  *)
(* replaces must bring it.                                                 *)
Empty(k) == DOMAIN k.tables = {} /\ DOMAIN k.metrics = {}
ImportIsValid(job, k) ==
    LET document == job.document
        available == DOMAIN document.columns
                     \cup (IF job.replace THEN {} ELSE DOMAIN k.columns) IN
    /\ ~Empty(document)
    /\ \A pair \in References(document, Entries) : pair[1] # pair[2] /\ pair[2] \in available

(* An edit of a column or a metric.                                        *)
PutIsValid(job, k) ==
    CASE job.field = "columns" -> /\ TableOf[job.key] \in DOMAIN k.tables
                                  /\ job.value # job.key
                                  /\ job.value \in DOMAIN k.columns \cup {None}
      [] job.field = "metrics" -> job.value \subseteq DOMAIN k.columns
      [] OTHER -> TRUE

(* What is deleted exists, and nothing that stays refers to it.            *)
DeletionIsValid(job, k) ==
    LET gone == Decided(job, k).columns.deleted IN
    /\ job.keys \subseteq DOMAIN k[job.field]
    /\ \A pair \in References(k, Entries) : pair[2] \in gone => pair[1] \in gone

Valid(job, k) ==
    CASE job.kind = "import" -> ImportIsValid(job, k)
      [] job.kind = "put" -> PutIsValid(job, k)
      [] OTHER -> DeletionIsValid(job, k)

(* Rows that go take along the columns of a table, what a column is        *)
(* referred to by, and its links to metrics.                               *)
WithoutColumns(k, S) ==
    [tables |-> k.tables,
     columns |-> [c \in DOMAIN k.columns \ S |->
                     IF k.columns[c] \in S THEN None ELSE k.columns[c]],
     metrics |-> [m \in DOMAIN k.metrics |-> k.metrics[m] \ S]]
WithoutTables(k, S) ==
    [WithoutColumns(k, ColumnsOf(k, S)) EXCEPT !.tables = Restricted(k.tables, Tables \ S)]
WithoutMetrics(k, S) == [k EXCEPT !.metrics = Restricted(k.metrics, Metrics \ S)]

Deleted(k, changes) ==
    WithoutTables(WithoutColumns(WithoutMetrics(k, changes.metrics.deleted),
                                 changes.columns.deleted), changes.tables.deleted)

Written(k, changes, values) ==
    [x \in Fields |-> Overlaid(k[x], values[x], changes[x].created \cup changes[x].updated)]

Values(job) ==
    IF job.kind = "import" THEN job.document
    ELSE [x \in Fields |-> [y \in {job.key} |-> job.value]]

(* The catalogue after the changes, and whether they can be committed: the *)
(* rows to be updated are there still and the foreign keys hold.           *)
Result(k, job, changes) ==
    IF job.kind = "delete" THEN Deleted(k, changes)
    ELSE Written(Deleted(k, changes), changes, Values(job))
Commits(k, job, changes) ==
    /\ \A x \in Fields : changes[x].updated \subseteq DOMAIN k[x]
    /\ Sound(Result(k, job, changes))

-----------------------------------------------------------------------------
(* Requests.                                                               *)

(* An edit checks and writes in one transaction.                           *)
Put(w) ==
    /\ writer[w].phase = "new"
    /\ \E job \in {j \in Jobs : j.kind = "put" /\ Valid(j, catalog)} :
        catalog' = Result(catalog, job, Decided(job, catalog))
    /\ writer' = [writer EXCEPT ![w] = [phase |-> "over"]]

(* The others keep what they read.  A rehearsal of an import ends here.    *)
Read(w) ==
    /\ writer[w].phase = "new"
    /\ \E job \in {j \in Jobs : j.kind # "put" /\ Valid(j, catalog)} :
        writer' = [writer EXCEPT ![w] = [phase |-> "read", job |-> job, found |-> catalog]]
    /\ UNCHANGED catalog

(* The source or an index fails, or the document does not fit the source.  *)
Fail(w) ==
    /\ writer[w].phase = "read"
    /\ writer' = [writer EXCEPT ![w] = [phase |-> "over"]]
    /\ UNCHANGED catalog

Plan(w) == Decided(writer[w].job, writer[w].found)
Outcome(w) == Result(catalog, writer[w].job, Plan(w))

Write(w) ==
    /\ writer[w].phase = "read"
    /\ catalog' = IF Commits(catalog, writer[w].job, Plan(w)) THEN Outcome(w) ELSE catalog
    /\ writer' = [writer EXCEPT ![w] = [phase |-> "over"]]

Next == \E w \in Writers : Put(w) \/ Read(w) \/ Fail(w) \/ Write(w)

Spec == Init /\ [][Next]_catalogVars

-----------------------------------------------------------------------------
(* Properties.                                                             *)

TypeOK ==
    /\ catalog \in Catalogs
    /\ \A w \in Writers :
        \/ writer[w] \in [phase : {"new", "over"}]
        \/ writer[w] \in [phase : {"read"}, job : Jobs, found : Catalogs]

(* Those about to commit: what their transaction would leave, and what the *)
(* change workflow will be told of.                                        *)
Ready == {w \in Writers : writer[w].phase = "read"
                          /\ Commits(catalog, writer[w].job, Plan(w))}
Told(w) == UNION {UNION {Plan(w)[x].created, Plan(w)[x].updated, Plan(w)[x].deleted} : x \in Fields}

(* The foreign keys hold, also in what a valid job would leave.            *)
CatalogIsSound ==
    /\ Sound(catalog)
    /\ \A w \in Writers :
        writer[w].phase = "read" /\ catalog = writer[w].found => w \in Ready

(* A cascade goes no further than the check: what is taken from an entry   *)
(* the workflow is not told of was added after the check.                  *)
CascadesAreLate ==
    \A w \in Ready :
        LET kept == References(Outcome(w), Entries) IN
        /\ \A pair \in References(catalog, Entries) :
              pair \notin kept /\ pair[1] \notin Told(w) =>
                  pair \notin References(writer[w].found, Entries)
        /\ \A c \in DOMAIN catalog.columns :
              c \notin DOMAIN Outcome(w).columns /\ c \notin Told(w) =>
                  c \notin DOMAIN writer[w].found.columns

(* An import that nobody overtook does what it says: the document replaces *)
(* the catalogue, or is in it with the rest as it was.                     *)
ImportsTakeEffect ==
    \A w \in Ready :
        LET job == writer[w].job IN
        job.kind = "import" /\ catalog = writer[w].found =>
            IF job.replace THEN Outcome(w) = job.document
            ELSE \A x \in Fields :
                    Outcome(w)[x] = Overlaid(catalog[x], job.document[x], DOMAIN job.document[x])

(* What is exported can be imported again, by merging or replacing, unless *)
(* there is nothing: no reference of the catalogue fails the checks of an  *)
(* import.  As long as the source says the same, it changes nothing.       *)
ExportsComeBack ==
    \A replace \in BOOLEAN :
        LET job == [kind |-> "import", replace |-> replace, document |-> catalog] IN
        /\ Valid(job, catalog) <=> ~Empty(catalog)
        /\ \A x \in Fields : Decided(job, catalog)[x] = Nothing

CatalogIsKept == CatalogIsSound /\ CascadesAreLate /\ ImportsTakeEffect /\ ExportsComeBack

=============================================================================
