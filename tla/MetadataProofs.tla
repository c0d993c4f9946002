---------------------------- MODULE MetadataProofs ----------------------------
(***************************************************************************)
(* Proofs about the catalogue, the documents of its entries and the index  *)
(* of the values of a column, for any tables, columns and metrics, any     *)
(* requests, any number of tasks and runs and any lookback.                *)
(***************************************************************************)
EXTENDS Metadata, Recall, Sequences, FiniteSetTheorems, NaturalsInduction, WellFoundedInduction, TLAPS

(* The least of a set of numbers, which the library gives by well-founded  *)
(* induction.                                                              *)
LEMMA LeastExists ==
    ASSUME NEW S \in SUBSET Nat, S # {}
    PROVE  \E x \in S : \A y \in S : x <= y
<1> DEFINE R == {ss \in Nat \X Nat : ss[1] < ss[2]}
<1>1. OpToRel(<, Nat) = R
  BY DEF OpToRel
<1>2. IsWellFoundedOn(R, Nat)
  BY <1>1, NatLessThanWellFounded, Zenon
<1>3. PICK x \in S : \A y \in S : ~(<<y, x>> \in R)
  <2> HIDE DEF R
  <2> QED BY <1>2, WFMin
<1>4. ASSUME NEW y \in S PROVE x <= y
  <2>1. <<y, x>> \in Nat \X Nat /\ <<y, x>>[1] = y /\ <<y, x>>[2] = x
    OBVIOUS
  <2>2. ~(y < x)
    BY <1>3, <2>1
  <2> QED BY <2>2
<1> QED BY <1>4

-----------------------------------------------------------------------------
(* Catalogues, entry by entry.                                             *)

LEMMA PartialIs ==
    ASSUME NEW S, NEW T, NEW f
    PROVE  /\ f \in Catalog!Partial(S, T) => DOMAIN f \subseteq S /\ f \in [DOMAIN f -> T]
           /\ DOMAIN f \subseteq S /\ f \in [DOMAIN f -> T] => f \in Catalog!Partial(S, T)
<1>1. ASSUME f \in Catalog!Partial(S, T) PROVE DOMAIN f \subseteq S /\ f \in [DOMAIN f -> T]
  <2>1. PICK D \in SUBSET S : f \in [D -> T]
    BY <1>1 DEF Catalog!Partial
  <2> QED BY <2>1
<1>2. ASSUME DOMAIN f \subseteq S, f \in [DOMAIN f -> T] PROVE f \in Catalog!Partial(S, T)
  BY <1>2 DEF Catalog!Partial
<1> QED BY <1>1, <1>2

LEMMA CatalogsAre ==
    ASSUME NEW k \in Catalog!Catalogs
    PROVE  /\ DOMAIN k.tables \subseteq CatalogTables /\ k.tables \in [DOMAIN k.tables -> TableContents]
           /\ DOMAIN k.columns \subseteq CatalogColumns
           /\ k.columns \in [DOMAIN k.columns -> CatalogColumns \cup {None}]
           /\ DOMAIN k.metrics \subseteq CatalogMetrics
           /\ k.metrics \in [DOMAIN k.metrics -> SUBSET CatalogColumns]
           /\ k["tables"] = k.tables /\ k["columns"] = k.columns /\ k["metrics"] = k.metrics
<1>1. /\ k.tables \in Catalog!Partial(CatalogTables, TableContents)
      /\ k.columns \in Catalog!Partial(CatalogColumns, CatalogColumns \cup {None})
      /\ k.metrics \in Catalog!Partial(CatalogMetrics, SUBSET CatalogColumns)
      /\ k["tables"] = k.tables /\ k["columns"] = k.columns /\ k["metrics"] = k.metrics
  BY DEF Catalog!Catalogs
<1> QED BY <1>1, PartialIs

(* What has the three fields of a catalogue is one.                        *)
LEMMA CatalogIsMade ==
    ASSUME NEW f, NEW g, NEW h,
           DOMAIN f \subseteq CatalogTables, f \in [DOMAIN f -> TableContents],
           DOMAIN g \subseteq CatalogColumns, g \in [DOMAIN g -> CatalogColumns \cup {None}],
           DOMAIN h \subseteq CatalogMetrics, h \in [DOMAIN h -> SUBSET CatalogColumns]
    PROVE  [tables |-> f, columns |-> g, metrics |-> h] \in Catalog!Catalogs
<1>1. /\ f \in Catalog!Partial(CatalogTables, TableContents) /\ g \in Catalog!Partial(CatalogColumns, CatalogColumns \cup {None})
      /\ h \in Catalog!Partial(CatalogMetrics, SUBSET CatalogColumns)
  BY PartialIs
<1> QED BY <1>1 DEF Catalog!Catalogs

(* The foreign keys, entry by entry.                                       *)
Firm(k) ==
    /\ \A c \in DOMAIN k.columns :
          /\ CatalogTableOf[c] \in DOMAIN k.tables
          /\ k.columns[c] = None \/ (k.columns[c] \in DOMAIN k.columns /\ k.columns[c] # c)
    /\ \A m \in DOMAIN k.metrics : k.metrics[m] \subseteq DOMAIN k.columns

LEMMA ReferencesAre ==
    ASSUME NEW k, NEW e \in Catalog!Entries, NEW r \in CatalogColumns
    PROVE  (<<e, r>> \in Catalog!References(k, Catalog!Entries)) <=> Catalog!RefersTo(k, e, r)
BY DEF Catalog!References

LEMMA ReferencePairs ==
    ASSUME NEW k, NEW pair \in Catalog!References(k, Catalog!Entries)
    PROVE  /\ pair = <<pair[1], pair[2]>> /\ pair[1] \in Catalog!Entries /\ pair[2] \in CatalogColumns
           /\ Catalog!RefersTo(k, pair[1], pair[2])
BY DEF Catalog!References

LEMMA FirmIsSound ==
    ASSUME NEW k \in Catalog!Catalogs
    PROVE  /\ Catalog!Sound(k) /\ Catalog!Straight(k) => Firm(k)
           /\ Firm(k) => Catalog!Sound(k) /\ Catalog!Straight(k)
<1> USE CatalogsAre
<1>1. ASSUME Catalog!Sound(k), Catalog!Straight(k) PROVE Firm(k)
  <2>1. ASSUME NEW e \in Catalog!Entries, NEW r \in CatalogColumns, Catalog!RefersTo(k, e, r)
        PROVE  r \in DOMAIN k.columns /\ e # r
    <3>1. <<e, r>> \in Catalog!References(k, Catalog!Entries)
      BY <2>1, ReferencesAre
    <3>2. <<e, r>>[1] = e /\ <<e, r>>[2] = r
      OBVIOUS
    <3> QED BY <1>1, <3>1, <3>2 DEF Catalog!Sound, Catalog!Straight
  <2>2. ASSUME NEW c \in DOMAIN k.columns, k.columns[c] # None
        PROVE  k.columns[c] \in DOMAIN k.columns /\ k.columns[c] # c
    <3>1. c \in Catalog!Entries /\ k.columns[c] \in CatalogColumns /\ Catalog!RefersTo(k, c, k.columns[c])
      BY <2>2 DEF Catalog!Entries, Catalog!RefersTo
    <3> QED BY <2>1, <3>1
  <2>3. ASSUME NEW m \in DOMAIN k.metrics, NEW r \in k.metrics[m] PROVE r \in DOMAIN k.columns
    <3>1. m \in Catalog!Entries /\ r \in CatalogColumns /\ Catalog!RefersTo(k, m, r)
      BY <2>3 DEF Catalog!Entries, Catalog!RefersTo
    <3> QED BY <2>1, <3>1
  <2> QED BY <1>1, <2>2, <2>3 DEF Firm, Catalog!Sound, Catalog!Nested
<1>2. ASSUME Firm(k) PROVE Catalog!Sound(k) /\ Catalog!Straight(k)
  <2>1. ASSUME NEW pair \in Catalog!References(k, Catalog!Entries)
        PROVE  pair[2] \in DOMAIN k.columns /\ pair[1] # pair[2]
    <3>1. pair[2] \in CatalogColumns /\ Catalog!RefersTo(k, pair[1], pair[2])
      BY ReferencePairs
    <3>2. CASE pair[1] \in DOMAIN k.columns /\ pair[2] = k.columns[pair[1]]
      BY <1>2, <3>1, <3>2, MetadataAssumption DEF Firm, Catalog!CatalogAssumption
    <3>3. CASE pair[1] \in DOMAIN k.metrics /\ pair[2] \in k.metrics[pair[1]]
      BY <1>2, <3>1, <3>3, MetadataAssumption DEF Firm, Catalog!CatalogAssumption
    <3> QED BY <3>1, <3>2, <3>3 DEF Catalog!RefersTo
  <2> QED BY <1>2, <2>1 DEF Firm, Catalog!Sound, Catalog!Straight, Catalog!Nested
<1> QED BY <1>1, <1>2

-----------------------------------------------------------------------------
(* What a deletion takes along.                                            *)

Gone(k, edits) ==
    {c \in DOMAIN k.columns :
        c \in edits.columns.deleted \/ CatalogTableOf[c] \in edits.tables.deleted}

LEMMA DeletedIs ==
    ASSUME NEW k \in Catalog!Catalogs, Firm(k), NEW edits,
           edits.columns.deleted \subseteq CatalogColumns
    PROVE  Catalog!Deleted(k, edits) =
             [tables |-> [t \in DOMAIN k.tables \ edits.tables.deleted |-> k.tables[t]],
              columns |-> [c \in DOMAIN k.columns \ Gone(k, edits) |->
                              IF k.columns[c] \in Gone(k, edits) THEN None ELSE k.columns[c]],
              metrics |-> [m \in DOMAIN k.metrics \ edits.metrics.deleted |->
                              k.metrics[m] \ Gone(k, edits)]]
<1> USE CatalogsAre, MetadataAssumption DEF Catalog!CatalogAssumption
<1> DEFINE G == Gone(k, edits)
           dt == edits.tables.deleted
           dc == edits.columns.deleted
           dm == edits.metrics.deleted
           k1 == Catalog!WithoutMetrics(k, dm)
           k2 == Catalog!WithoutColumns(k1, dc)
           rest == Catalog!ColumnsOf(k2, dt)
           k3 == Catalog!WithoutColumns(k2, rest)
<1>1. /\ k1.tables = k.tables /\ k1.columns = k.columns
      /\ k1.metrics = [m \in DOMAIN k.metrics \ dm |-> k.metrics[m]]
  BY DEF Catalog!WithoutMetrics, Catalog!Restricted, Catalog!Catalogs
<1>2. /\ k2.tables = k.tables
      /\ k2.columns = [c \in DOMAIN k.columns \ dc |->
                          IF k.columns[c] \in dc THEN None ELSE k.columns[c]]
      /\ k2.metrics = [m \in DOMAIN k.metrics \ dm |-> k.metrics[m] \ dc]
  BY <1>1 DEF Catalog!WithoutColumns
<1>3. rest = {c \in DOMAIN k.columns \ dc : CatalogTableOf[c] \in dt}
  BY <1>2 DEF Catalog!ColumnsOf
<1>4. /\ k3.tables = k.tables
      /\ k3.columns = [c \in DOMAIN k2.columns \ rest |->
                          IF k2.columns[c] \in rest THEN None ELSE k2.columns[c]]
      /\ k3.metrics = [m \in DOMAIN k2.metrics |-> k2.metrics[m] \ rest]
      /\ k3 = [tables |-> k3.tables, columns |-> k3.columns, metrics |-> k3.metrics]
  BY <1>2 DEF Catalog!WithoutColumns
<1> HIDE DEF k1, k2, k3, rest
<1>5. k3.columns = [c \in DOMAIN k.columns \ G |->
                       IF k.columns[c] \in G THEN None ELSE k.columns[c]]
  <2>1. DOMAIN k2.columns \ rest = DOMAIN k.columns \ G
    BY <1>2, <1>3 DEF Gone
  <2>2. ASSUME NEW c \in DOMAIN k.columns \ G
        PROVE  (IF k2.columns[c] \in rest THEN None ELSE k2.columns[c])
               = (IF k.columns[c] \in G THEN None ELSE k.columns[c])
    <3>1. c \in DOMAIN k.columns \ dc
      BY DEF Gone
    <3>2. CASE k.columns[c] \in dc
      <4>1. k.columns[c] \in G
        BY <3>1, <3>2 DEF Gone, Firm
      <4>2. k2.columns[c] = None
        BY <1>2, <3>1, <3>2
      <4> QED BY <3>2, <4>1, <4>2
    <3>3. CASE k.columns[c] \notin dc
      <4>1. k2.columns[c] = k.columns[c]
        BY <1>2, <3>1, <3>3
      <4>2. k.columns[c] \in rest <=> k.columns[c] \in G
        BY <1>3, <3>3 DEF Gone
      <4> QED BY <4>1, <4>2
    <3> QED BY <3>2, <3>3
  <2> QED BY <1>4, <2>1, <2>2
<1>6. k3.metrics = [m \in DOMAIN k.metrics \ dm |-> k.metrics[m] \ G]
  <2>1. DOMAIN k2.metrics = DOMAIN k.metrics \ dm
    BY <1>2
  <2>2. ASSUME NEW m \in DOMAIN k.metrics \ dm PROVE k2.metrics[m] \ rest = k.metrics[m] \ G
    <3>1. k2.metrics[m] = k.metrics[m] \ dc
      BY <1>2
    <3>2. k.metrics[m] \subseteq DOMAIN k.columns
      BY DEF Firm
    <3> QED BY <1>3, <3>1, <3>2 DEF Gone
  <2> QED BY <1>4, <2>1, <2>2
<1>7. Catalog!Deleted(k, edits) = [k3 EXCEPT !.tables = Catalog!Restricted(k2.tables, CatalogTables \ dt)]
  BY DEF Catalog!Deleted, Catalog!WithoutTables, k1, k2, k3, rest
<1>8. Catalog!Restricted(k2.tables, CatalogTables \ dt) = [t \in DOMAIN k.tables \ dt |-> k.tables[t]]
  BY <1>2 DEF Catalog!Restricted
<1> QED BY <1>4, <1>5, <1>6, <1>7, <1>8

LEMMA DeletedIsFirm ==
    ASSUME NEW k \in Catalog!Catalogs, Firm(k), NEW edits,
           edits.columns.deleted \subseteq CatalogColumns
    PROVE  Catalog!Deleted(k, edits) \in Catalog!Catalogs /\ Firm(Catalog!Deleted(k, edits))
<1> DEFINE G == Gone(k, edits)
           d == Catalog!Deleted(k, edits)
           f == [t \in DOMAIN k.tables \ edits.tables.deleted |-> k.tables[t]]
           g == [c \in DOMAIN k.columns \ G |-> IF k.columns[c] \in G THEN None ELSE k.columns[c]]
           h == [m \in DOMAIN k.metrics \ edits.metrics.deleted |-> k.metrics[m] \ G]
<1>1. d = [tables |-> f, columns |-> g, metrics |-> h]
  BY DeletedIs
<1>2. d \in Catalog!Catalogs
  <2>1. DOMAIN f \subseteq CatalogTables /\ f \in [DOMAIN f -> TableContents]
    BY CatalogsAre
  <2>2. DOMAIN g \subseteq CatalogColumns /\ g \in [DOMAIN g -> CatalogColumns \cup {None}]
    BY CatalogsAre
  <2>3. DOMAIN h \subseteq CatalogMetrics /\ h \in [DOMAIN h -> SUBSET CatalogColumns]
    BY CatalogsAre
  <2> HIDE DEF f, g, h, d
  <2> QED BY <1>1, <2>1, <2>2, <2>3, CatalogIsMade
<1>3. d.tables = f /\ d.columns = g /\ d.metrics = h
  BY <1>1
<1>4. ASSUME NEW c \in DOMAIN g
      PROVE  /\ CatalogTableOf[c] \in DOMAIN f
             /\ g[c] = None \/ (g[c] \in DOMAIN g /\ g[c] # c)
  BY DEF Firm, Gone
<1>5. ASSUME NEW m \in DOMAIN h PROVE h[m] \subseteq DOMAIN g
  BY DEF Firm
<1>6. Firm(d)
  <2> HIDE DEF f, g, h, d
  <2> QED BY <1>3, <1>4, <1>5 DEF Firm
<1> QED BY <1>2, <1>6

-----------------------------------------------------------------------------
(* What a job changes.                                                     *)

Changed(edits, x) == edits[x].created \cup edits[x].updated
Kept(edits, e) ==
    \A x \in Catalog!Fields : e \notin Changed(edits, x) /\ e \notin edits[x].deleted

LEMMA WrittenIs ==
    ASSUME NEW d \in Catalog!Catalogs, NEW edits, NEW v,
           Changed(edits, "tables") \subseteq CatalogTables,
           \A t \in Changed(edits, "tables") : v["tables"][t] \in TableContents,
           Changed(edits, "columns") \subseteq CatalogColumns,
           \A c \in Changed(edits, "columns") : v["columns"][c] \in CatalogColumns \cup {None},
           Changed(edits, "metrics") \subseteq CatalogMetrics,
           \A m \in Changed(edits, "metrics") : v["metrics"][m] \in SUBSET CatalogColumns
    PROVE  /\ Catalog!Written(d, edits, v) \in Catalog!Catalogs
           /\ Catalog!Written(d, edits, v) =
                [tables |-> Catalog!Overlaid(d.tables, v["tables"], Changed(edits, "tables")),
                 columns |-> Catalog!Overlaid(d.columns, v["columns"], Changed(edits, "columns")),
                 metrics |-> Catalog!Overlaid(d.metrics, v["metrics"], Changed(edits, "metrics"))]
<1> DEFINE f == Catalog!Overlaid(d.tables, v["tables"], Changed(edits, "tables"))
           g == Catalog!Overlaid(d.columns, v["columns"], Changed(edits, "columns"))
           h == Catalog!Overlaid(d.metrics, v["metrics"], Changed(edits, "metrics"))
<1>1. DOMAIN f \subseteq CatalogTables /\ f \in [DOMAIN f -> TableContents]
  BY CatalogsAre DEF Catalog!Overlaid
<1>2. DOMAIN g \subseteq CatalogColumns /\ g \in [DOMAIN g -> CatalogColumns \cup {None}]
  BY CatalogsAre DEF Catalog!Overlaid
<1>3. DOMAIN h \subseteq CatalogMetrics /\ h \in [DOMAIN h -> SUBSET CatalogColumns]
  BY CatalogsAre DEF Catalog!Overlaid
<1>4. \A x \in Catalog!Fields : Catalog!Written(d, edits, v)[x] = Catalog!Overlaid(d[x], v[x], Changed(edits, x))
  BY DEF Catalog!Written, Changed
<1>5. /\ Catalog!Written(d, edits, v)["tables"] = f /\ Catalog!Written(d, edits, v)["columns"] = g
      /\ Catalog!Written(d, edits, v)["metrics"] = h
  BY <1>4, CatalogsAre DEF Catalog!Fields
<1>6. Catalog!Written(d, edits, v) = [x \in Catalog!Fields |-> Catalog!Written(d, edits, v)[x]]
  BY DEF Catalog!Written
<1> HIDE DEF f, g, h
<1>7. Catalog!Written(d, edits, v) = [tables |-> f, columns |-> g, metrics |-> h]
  BY <1>5, <1>6 DEF Catalog!Fields
<1>8. [tables |-> f, columns |-> g, metrics |-> h] \in Catalog!Catalogs
  BY <1>1, <1>2, <1>3, CatalogIsMade
<1> QED BY <1>7, <1>8 DEF f, g, h

LEMMA ImportIs ==
    ASSUME NEW job, Catalog!Possible(job), job.kind = "import", NEW f \in Catalog!Catalogs
    PROVE  /\ job.document \in Catalog!Catalogs /\ Catalog!Nested(job.document) /\ job.replace \in BOOLEAN
           /\ \A x \in Catalog!Fields :
                 Catalog!Decided(job, f)[x] = Catalog!Changes(f[x], job.document[x], job.replace)
<1>1. job.document \in Catalog!Catalogs /\ Catalog!Nested(job.document) /\ job.replace \in BOOLEAN
  BY DEF Catalog!Possible
<1> QED BY <1>1 DEF Catalog!Decided

(* The columns an import may refer to.                                     *)
Available(job, f) ==
    DOMAIN job.document.columns \cup (IF job.replace THEN {} ELSE DOMAIN f.columns)

LEMMA ImportRefersTo ==
    ASSUME NEW job, Catalog!Possible(job), job.kind = "import", NEW f \in Catalog!Catalogs, Catalog!Valid(job, f)
    PROVE  /\ \A c \in DOMAIN job.document.columns :
                 LET r == job.document.columns[c] IN r = None \/ (r \in Available(job, f) /\ r # c)
           /\ \A m \in DOMAIN job.document.metrics :
                 job.document.metrics[m] \subseteq Available(job, f)
<1> DEFINE k == job.document
<1>1. k \in Catalog!Catalogs
  BY ImportIs
<1>2. ASSUME NEW e \in Catalog!Entries, NEW r \in CatalogColumns, Catalog!RefersTo(k, e, r)
      PROVE  r \in Available(job, f) /\ e # r
  <2>1. <<e, r>> \in Catalog!References(k, Catalog!Entries)
    BY <1>2, ReferencesAre
  <2>2. <<e, r>>[1] = e /\ <<e, r>>[2] = r
    OBVIOUS
  <2>3. Catalog!ImportIsValid(job, f)
    BY DEF Catalog!Valid
  <2> QED BY <2>1, <2>2, <2>3 DEF Catalog!ImportIsValid, Available
<1>3. ASSUME NEW c \in DOMAIN k.columns, k.columns[c] # None
      PROVE  k.columns[c] \in Available(job, f) /\ k.columns[c] # c
  <2>1. c \in Catalog!Entries /\ k.columns[c] \in CatalogColumns /\ Catalog!RefersTo(k, c, k.columns[c])
    BY <1>1, <1>3, CatalogsAre DEF Catalog!Entries, Catalog!RefersTo
  <2> QED BY <1>2, <2>1
<1>4. ASSUME NEW m \in DOMAIN k.metrics, NEW r \in k.metrics[m] PROVE r \in Available(job, f)
  <2>1. m \in Catalog!Entries /\ r \in CatalogColumns /\ Catalog!RefersTo(k, m, r)
    BY <1>1, <1>4, CatalogsAre DEF Catalog!Entries, Catalog!RefersTo
  <2> QED BY <1>2, <2>1
<1> QED BY <1>3, <1>4

(* A job that deletes a column deletes what refers to it, or says          *)
(* something else of it; a table goes with its columns.                    *)
Closed(edits, f) ==
    /\ edits.columns.deleted \subseteq CatalogColumns
    /\ \A c \in DOMAIN f.columns :
          CatalogTableOf[c] \in edits.tables.deleted => c \in edits.columns.deleted
    /\ \A e \in Catalog!Entries, r \in CatalogColumns :
          Catalog!RefersTo(f, e, r) /\ Kept(edits, e) => r \notin edits.columns.deleted

LEMMA ImportIsClosed ==
    ASSUME NEW job, Catalog!Possible(job), job.kind = "import", NEW f \in Catalog!Catalogs, Firm(f), Catalog!Valid(job, f)
    PROVE  Closed(Catalog!Decided(job, f), f)
<1> DEFINE ch == Catalog!Decided(job, f)
           k == job.document
<1>0. k \in Catalog!Catalogs /\ Catalog!Nested(k) /\ job.replace \in BOOLEAN
  BY ImportIs
<1>1. /\ ch["tables"] = Catalog!Changes(f.tables, k.tables, job.replace)
      /\ ch["columns"] = Catalog!Changes(f.columns, k.columns, job.replace)
      /\ ch["metrics"] = Catalog!Changes(f.metrics, k.metrics, job.replace)
  BY <1>0, ImportIs, CatalogsAre DEF Catalog!Fields
<1> HIDE DEF ch
<1>2. ch.columns.deleted \subseteq CatalogColumns
  BY <1>1, CatalogsAre DEF Catalog!Changes
<1>3. ASSUME NEW c \in DOMAIN f.columns, CatalogTableOf[c] \in ch.tables.deleted
      PROVE  c \in ch.columns.deleted
  BY <1>0, <1>1, <1>3 DEF Catalog!Changes, Catalog!Nested
<1>4. ASSUME NEW e \in Catalog!Entries, NEW r \in CatalogColumns, Catalog!RefersTo(f, e, r),
             Kept(ch, e)
      PROVE  r \notin ch.columns.deleted
  <2>1. SUFFICES ASSUME job.replace PROVE r \in DOMAIN k.columns
    BY <1>0, <1>1 DEF Catalog!Changes
  <2>2. Available(job, f) = DOMAIN k.columns
    BY <2>1 DEF Available
  <2>3. CASE e \in DOMAIN f.columns /\ r = f.columns[e]
    <3>1. e \notin ch["columns"].deleted /\ e \notin ch["columns"].updated
      BY <1>4 DEF Kept, Catalog!Fields, Changed
    <3>2. e \in DOMAIN k.columns /\ k.columns[e] = r
      BY <1>1, <2>1, <2>3, <3>1 DEF Catalog!Changes
    <3> QED BY <2>2, <3>2, ImportRefersTo, MetadataAssumption DEF Catalog!CatalogAssumption
  <2>4. CASE e \in DOMAIN f.metrics /\ r \in f.metrics[e]
    <3>1. e \notin ch["metrics"].deleted /\ e \notin ch["metrics"].updated
      BY <1>4 DEF Kept, Catalog!Fields, Changed
    <3>2. e \in DOMAIN k.metrics /\ r \in k.metrics[e]
      BY <1>1, <2>1, <2>4, <3>1 DEF Catalog!Changes
    <3> QED BY <2>2, <3>2, ImportRefersTo
  <2> QED BY <1>4, <2>3, <2>4 DEF Catalog!RefersTo
<1> QED BY <1>2, <1>3, <1>4 DEF ch, Closed

LEMMA DeletionIs ==
    ASSUME NEW job, Catalog!Possible(job), job.kind = "delete", NEW f \in Catalog!Catalogs, Catalog!Valid(job, f)
    PROVE  /\ job.field \in Catalog!Fields /\ job.keys \subseteq DOMAIN f[job.field]
           /\ \A x \in Catalog!Fields : Changed(Catalog!Decided(job, f), x) = {} /\ Catalog!Decided(job, f)[x].updated = {}
           /\ Catalog!Decided(job, f).tables.deleted = IF job.field = "tables" THEN job.keys ELSE {}
           /\ Catalog!Decided(job, f).columns.deleted =
                IF job.field = "columns" THEN job.keys
                ELSE IF job.field = "tables" THEN Catalog!ColumnsOf(f, job.keys) ELSE {}
           /\ Catalog!Decided(job, f).metrics.deleted = IF job.field = "metrics" THEN job.keys ELSE {}
<1>1. job.field \in Catalog!Fields /\ job.keys \subseteq DOMAIN f[job.field]
  BY DEF Catalog!Possible, Catalog!Valid, Catalog!DeletionIsValid
<1>2. Catalog!Decided(job, f) =
        [x \in Catalog!Fields |-> IF x = job.field THEN Catalog!Deletes(job.keys)
                          ELSE IF x = "columns" /\ job.field = "tables"
                               THEN Catalog!Deletes(Catalog!ColumnsOf(f, job.keys))
                          ELSE Catalog!Nothing]
  BY DEF Catalog!Decided
<1>3. /\ Catalog!Nothing.created = {} /\ Catalog!Nothing.updated = {} /\ Catalog!Nothing.deleted = {}
      /\ \A S : Catalog!Deletes(S).created = {} /\ Catalog!Deletes(S).updated = {} /\ Catalog!Deletes(S).deleted = S
  BY DEF Catalog!Nothing, Catalog!Deletes
<1> DEFINE ch == Catalog!Decided(job, f)
<1>4. /\ ch["tables"] = IF job.field = "tables" THEN Catalog!Deletes(job.keys) ELSE Catalog!Nothing
      /\ ch["columns"] = IF job.field = "columns" THEN Catalog!Deletes(job.keys)
                         ELSE IF job.field = "tables" THEN Catalog!Deletes(Catalog!ColumnsOf(f, job.keys))
                         ELSE Catalog!Nothing
      /\ ch["metrics"] = IF job.field = "metrics" THEN Catalog!Deletes(job.keys) ELSE Catalog!Nothing
  BY <1>2 DEF Catalog!Fields
<1> HIDE DEF ch
<1>5. ASSUME NEW x \in Catalog!Fields PROVE ch[x].created = {} /\ ch[x].updated = {}
  <2>1. CASE x = "tables"
    BY <1>3, <1>4, <2>1
  <2>2. CASE x = "columns"
    BY <1>3, <1>4, <2>2
  <2>3. CASE x = "metrics"
    BY <1>3, <1>4, <2>3
  <2> QED BY <2>1, <2>2, <2>3 DEF Catalog!Fields
<1>6. /\ ch.tables.deleted = IF job.field = "tables" THEN job.keys ELSE {}
      /\ ch.columns.deleted = IF job.field = "columns" THEN job.keys
                              ELSE IF job.field = "tables" THEN Catalog!ColumnsOf(f, job.keys) ELSE {}
      /\ ch.metrics.deleted = IF job.field = "metrics" THEN job.keys ELSE {}
  BY <1>3, <1>4
<1> QED BY <1>1, <1>5, <1>6 DEF ch, Changed

LEMMA DeletionIsClosed ==
    ASSUME NEW job, Catalog!Possible(job), job.kind = "delete", NEW f \in Catalog!Catalogs, Firm(f), Catalog!Valid(job, f)
    PROVE  Closed(Catalog!Decided(job, f), f)
<1> DEFINE ch == Catalog!Decided(job, f)
<1>1. ch.columns.deleted \subseteq CatalogColumns
  BY DeletionIs, CatalogsAre DEF Catalog!ColumnsOf
<1>2. ASSUME NEW c \in DOMAIN f.columns, CatalogTableOf[c] \in ch.tables.deleted
      PROVE  c \in ch.columns.deleted
  BY <1>2, DeletionIs DEF Catalog!ColumnsOf
<1>3. ASSUME NEW e \in Catalog!Entries, NEW r \in CatalogColumns, Catalog!RefersTo(f, e, r),
             Kept(ch, e)
      PROVE  r \notin ch.columns.deleted
  <2>1. <<e, r>> \in Catalog!References(f, Catalog!Entries) /\ <<e, r>>[1] = e /\ <<e, r>>[2] = r
    BY <1>3, ReferencesAre
  <2>2. Catalog!DeletionIsValid(job, f)
    BY DEF Catalog!Valid
  <2>3. r \in ch.columns.deleted => e \in ch.columns.deleted
    BY <2>1, <2>2 DEF Catalog!DeletionIsValid
  <2>4. e \notin ch["columns"].deleted
    BY <1>3 DEF Kept, Catalog!Fields
  <2> QED BY <2>3, <2>4
<1> QED BY <1>1, <1>2, <1>3 DEF Closed

-----------------------------------------------------------------------------
(* What a job leaves.                                                      *)

LEMMA NothingIsGone ==
    ASSUME NEW k \in Catalog!Catalogs, Firm(k), NEW edits,
           edits.tables.deleted = {}, edits.columns.deleted = {}, edits.metrics.deleted = {}
    PROVE  Catalog!Deleted(k, edits) = k
<1> DEFINE G == Gone(k, edits)
           f == [t \in DOMAIN k.tables \ edits.tables.deleted |-> k.tables[t]]
           g == [c \in DOMAIN k.columns \ G |-> IF k.columns[c] \in G THEN None ELSE k.columns[c]]
           h == [m \in DOMAIN k.metrics \ edits.metrics.deleted |-> k.metrics[m] \ G]
<1>1. G = {}
  BY DEF Gone
<1>2. f = k.tables
  BY CatalogsAre
<1>3. g = k.columns
  BY <1>1, CatalogsAre
<1>4. h = k.metrics
  <2>1. \A m \in DOMAIN k.metrics : k.metrics[m] \ G = k.metrics[m]
    BY <1>1, CatalogsAre
  <2> QED BY <2>1, CatalogsAre
<1>5. k = [tables |-> k.tables, columns |-> k.columns, metrics |-> k.metrics]
  BY DEF Catalog!Catalogs
<1>6. Catalog!Deleted(k, edits) = [tables |-> f, columns |-> g, metrics |-> h]
  BY DeletedIs
<1> HIDE DEF f, g, h
<1> QED BY <1>2, <1>3, <1>4, <1>5, <1>6

LEMMA DeletionLeaves ==
    ASSUME NEW job, Catalog!Possible(job), job.kind = "delete", NEW f \in Catalog!Catalogs, Firm(f), Catalog!Valid(job, f),
           NEW k \in Catalog!Catalogs, Firm(k)
    PROVE  /\ Catalog!Result(k, job, Catalog!Decided(job, f)) = Catalog!Deleted(k, Catalog!Decided(job, f))
           /\ Catalog!Result(k, job, Catalog!Decided(job, f)) \in Catalog!Catalogs
           /\ Firm(Catalog!Result(k, job, Catalog!Decided(job, f)))
<1>1. Catalog!Decided(job, f).columns.deleted \subseteq CatalogColumns
  BY DeletionIsClosed DEF Closed
<1> QED BY <1>1, DeletedIsFirm DEF Catalog!Result

LEMMA PutLeaves ==
    ASSUME NEW job, Catalog!Possible(job), job.kind = "put", NEW k \in Catalog!Catalogs, Firm(k), Catalog!Valid(job, k)
    PROVE  /\ Catalog!Result(k, job, Catalog!Decided(job, k)) \in Catalog!Catalogs
           /\ Firm(Catalog!Result(k, job, Catalog!Decided(job, k)))
<1> DEFINE ch == Catalog!Decided(job, k)
           v == Catalog!Values(job)
           r == Catalog!Result(k, job, ch)
<1>1. /\ job.field \in Catalog!Fields /\ job.key \in Catalog!Keys[job.field] /\ job.value \in Catalog!Says[job.field]
      /\ Catalog!PutIsValid(job, k)
  BY DEF Catalog!Possible, Catalog!Valid
<1>2. /\ \A x \in Catalog!Fields : ch[x] = IF x = job.field THEN Catalog!Puts(k[x], job.key, job.value) ELSE Catalog!Nothing
      /\ \A x \in Catalog!Fields : v[x] = [y \in {job.key} |-> job.value]
  BY DEF Catalog!Decided, Catalog!Values
<1>3. /\ Catalog!Nothing.created = {} /\ Catalog!Nothing.updated = {} /\ Catalog!Nothing.deleted = {}
      /\ \A g, y, w : /\ Catalog!Puts(g, y, w).created \cup Catalog!Puts(g, y, w).updated \subseteq {y}
                      /\ Catalog!Puts(g, y, w).deleted = {}
  BY DEF Catalog!Nothing, Catalog!Puts
<1> HIDE DEF ch, v
<1>4. ASSUME NEW x \in Catalog!Fields
      PROVE  /\ ch[x].deleted = {}
             /\ x = job.field => Changed(ch, x) \subseteq {job.key}
             /\ x # job.field => Changed(ch, x) = {}
  BY <1>2, <1>3 DEF Changed
<1>5. Catalog!Deleted(k, ch) = k
  <2>1. ch["tables"].deleted = {} /\ ch["columns"].deleted = {} /\ ch["metrics"].deleted = {}
    BY <1>4 DEF Catalog!Fields
  <2> QED BY <2>1, NothingIsGone
<1>6. r = Catalog!Written(k, ch, v)
  BY <1>5 DEF Catalog!Result, v, ch
<1> DEFINE T == Changed(ch, "tables")
           C == Changed(ch, "columns")
           M == Changed(ch, "metrics")
<1>7. /\ T \subseteq CatalogTables /\ \A t \in T : v["tables"][t] \in TableContents
      /\ job.field = "columns" => T = {} /\ M = {}
      /\ job.field = "metrics" => T = {} /\ C = {}
      /\ job.field = "tables" => C = {} /\ M = {}
  BY <1>1, <1>2, <1>4 DEF Catalog!Fields, Catalog!Keys, Catalog!Says
<1>8. C \subseteq CatalogColumns /\ \A c \in C : v["columns"][c] \in CatalogColumns \cup {None}
  BY <1>1, <1>2, <1>4 DEF Catalog!Fields, Catalog!Keys, Catalog!Says
<1>9. M \subseteq CatalogMetrics /\ \A m \in M : v["metrics"][m] \in SUBSET CatalogColumns
  BY <1>1, <1>2, <1>4 DEF Catalog!Fields, Catalog!Keys, Catalog!Says
<1>10. /\ r \in Catalog!Catalogs
       /\ r.tables = Catalog!Overlaid(k.tables, v["tables"], T)
       /\ r.columns = Catalog!Overlaid(k.columns, v["columns"], C)
       /\ r.metrics = Catalog!Overlaid(k.metrics, v["metrics"], M)
  BY <1>6, <1>7, <1>8, <1>9, WrittenIs
<1> HIDE DEF r
<1>11. /\ DOMAIN k.tables \subseteq DOMAIN r.tables /\ DOMAIN r.columns = DOMAIN k.columns \cup C
       /\ \A c \in DOMAIN r.columns : r.columns[c] = IF c \in C THEN v["columns"][c] ELSE k.columns[c]
       /\ DOMAIN r.metrics = DOMAIN k.metrics \cup M
       /\ \A m \in DOMAIN r.metrics : r.metrics[m] = IF m \in M THEN v["metrics"][m] ELSE k.metrics[m]
  BY <1>10 DEF Catalog!Overlaid
<1>12. ASSUME NEW c \in C
       PROVE  /\ CatalogTableOf[c] \in DOMAIN k.tables
              /\ v["columns"][c] = None \/ (v["columns"][c] \in DOMAIN k.columns /\ v["columns"][c] # c)
  <2>1. job.field = "columns"
    BY <1>1, <1>4 DEF Catalog!Fields
  <2>2. c = job.key /\ v["columns"][c] = job.value
    BY <1>2, <1>4, <2>1 DEF Catalog!Fields
  <2> QED BY <1>1, <2>1, <2>2 DEF Catalog!PutIsValid
<1>13. ASSUME NEW m \in M PROVE v["metrics"][m] \subseteq DOMAIN k.columns
  <2>1. job.field = "metrics"
    BY <1>1, <1>4 DEF Catalog!Fields
  <2>2. m = job.key /\ v["metrics"][m] = job.value
    BY <1>2, <1>4, <2>1 DEF Catalog!Fields
  <2> QED BY <1>1, <2>1, <2>2 DEF Catalog!PutIsValid
<1>14. Firm(r)
  <2>1. ASSUME NEW c \in DOMAIN r.columns
        PROVE  /\ CatalogTableOf[c] \in DOMAIN r.tables
               /\ r.columns[c] = None \/ (r.columns[c] \in DOMAIN r.columns /\ r.columns[c] # c)
    BY <1>11, <1>12 DEF Firm
  <2>2. ASSUME NEW m \in DOMAIN r.metrics PROVE r.metrics[m] \subseteq DOMAIN r.columns
    BY <1>11, <1>13 DEF Firm
  <2> QED BY <2>1, <2>2 DEF Firm
<1> QED BY <1>10, <1>14 DEF r, ch

LEMMA ImportLeaves ==
    ASSUME NEW job, Catalog!Possible(job), job.kind = "import", NEW f \in Catalog!Catalogs, Firm(f), Catalog!Valid(job, f),
           NEW k \in Catalog!Catalogs, Firm(k)
    PROVE  LET ch == Catalog!Decided(job, f)
               d == Catalog!Deleted(k, ch)
               r == Catalog!Result(k, job, ch)
           IN  /\ d \in Catalog!Catalogs /\ Firm(d) /\ r \in Catalog!Catalogs
               /\ r.tables = Catalog!Overlaid(d.tables, job.document.tables, Changed(ch, "tables"))
               /\ r.columns = Catalog!Overlaid(d.columns, job.document.columns, Changed(ch, "columns"))
               /\ r.metrics = Catalog!Overlaid(d.metrics, job.document.metrics, Changed(ch, "metrics"))
               /\ Changed(ch, "tables") \subseteq DOMAIN job.document.tables
               /\ Changed(ch, "columns") \subseteq DOMAIN job.document.columns
               /\ Changed(ch, "metrics") \subseteq DOMAIN job.document.metrics
<1> DEFINE ch == Catalog!Decided(job, f)
           d == Catalog!Deleted(k, ch)
           r == Catalog!Result(k, job, ch)
           v == job.document
<1>1. v \in Catalog!Catalogs /\ \A x \in Catalog!Fields : ch[x] = Catalog!Changes(f[x], v[x], job.replace)
  BY ImportIs
<1>2. d \in Catalog!Catalogs /\ Firm(d)
  <2>1. ch.columns.deleted \subseteq CatalogColumns
    BY ImportIsClosed DEF Closed
  <2> QED BY <2>1, DeletedIsFirm
<1>3. \A x \in Catalog!Fields : Changed(ch, x) \subseteq DOMAIN v[x]
  <2> TAKE x \in Catalog!Fields
  <2>1. ch[x] = Catalog!Changes(f[x], v[x], job.replace)
    BY <1>1
  <2>2. /\ Catalog!Changes(f[x], v[x], job.replace).created \subseteq DOMAIN v[x]
        /\ Catalog!Changes(f[x], v[x], job.replace).updated \subseteq DOMAIN v[x]
    BY DEF Catalog!Changes
  <2> QED BY <2>1, <2>2 DEF Changed
<1>4. /\ Changed(ch, "tables") \subseteq DOMAIN v.tables
      /\ Changed(ch, "columns") \subseteq DOMAIN v.columns
      /\ Changed(ch, "metrics") \subseteq DOMAIN v.metrics
  BY <1>1, <1>3, CatalogsAre DEF Catalog!Fields
<1>5. r = Catalog!Written(d, ch, v)
  BY DEF Catalog!Result, Catalog!Values
<1> HIDE DEF ch, d, r, v
<1>6. /\ Changed(ch, "tables") \subseteq CatalogTables
      /\ \A t \in Changed(ch, "tables") : v["tables"][t] \in TableContents
      /\ Changed(ch, "columns") \subseteq CatalogColumns
      /\ \A c \in Changed(ch, "columns") : v["columns"][c] \in CatalogColumns \cup {None}
      /\ Changed(ch, "metrics") \subseteq CatalogMetrics
      /\ \A m \in Changed(ch, "metrics") : v["metrics"][m] \in SUBSET CatalogColumns
      /\ v["tables"] = v.tables /\ v["columns"] = v.columns /\ v["metrics"] = v.metrics
  BY <1>1, <1>4, CatalogsAre
<1>7. /\ r \in Catalog!Catalogs
      /\ r.tables = Catalog!Overlaid(d.tables, v.tables, Changed(ch, "tables"))
      /\ r.columns = Catalog!Overlaid(d.columns, v.columns, Changed(ch, "columns"))
      /\ r.metrics = Catalog!Overlaid(d.metrics, v.metrics, Changed(ch, "metrics"))
  BY <1>2, <1>5, <1>6, WrittenIs
<1> QED BY <1>2, <1>4, <1>7 DEF ch, d, r, v

(* No import makes a column refer to itself.                               *)
LEMMA ImportIsStraight ==
    ASSUME NEW job, Catalog!Possible(job), job.kind = "import", NEW f \in Catalog!Catalogs, Firm(f), Catalog!Valid(job, f),
           NEW k \in Catalog!Catalogs, Firm(k), Catalog!Sound(Catalog!Result(k, job, Catalog!Decided(job, f)))
    PROVE  Firm(Catalog!Result(k, job, Catalog!Decided(job, f)))
<1> DEFINE ch == Catalog!Decided(job, f)
           d == Catalog!Deleted(k, ch)
           r == Catalog!Result(k, job, ch)
<1>1. /\ d \in Catalog!Catalogs /\ Firm(d) /\ r \in Catalog!Catalogs
      /\ r.columns = Catalog!Overlaid(d.columns, job.document.columns, Changed(ch, "columns"))
      /\ Changed(ch, "columns") \subseteq DOMAIN job.document.columns
  BY ImportLeaves
<1> HIDE DEF ch, d, r
<1>2. ASSUME NEW c \in DOMAIN r.columns PROVE r.columns[c] # c
  <2>1. c \in CatalogColumns /\ c # None
    BY <1>1, CatalogsAre, MetadataAssumption DEF Catalog!CatalogAssumption
  <2>2. CASE c \in Changed(ch, "columns")
    <3>1. r.columns[c] = job.document.columns[c]
      BY <1>1, <2>2 DEF Catalog!Overlaid
    <3> QED BY <1>1, <2>1, <2>2, <3>1, ImportRefersTo
  <2>3. CASE c \notin Changed(ch, "columns")
    BY <1>1, <2>1, <2>3 DEF Catalog!Overlaid, Firm
  <2> QED BY <2>2, <2>3
<1>3. Catalog!Straight(r)
  <2> SUFFICES ASSUME NEW pair \in Catalog!References(r, Catalog!Entries) PROVE pair[1] # pair[2]
    BY DEF Catalog!Straight
  <2>1. pair[2] \in CatalogColumns /\ Catalog!RefersTo(r, pair[1], pair[2])
    BY ReferencePairs
  <2>2. DOMAIN r.metrics \subseteq CatalogMetrics
    BY <1>1, CatalogsAre
  <2> QED BY <1>2, <2>1, <2>2, MetadataAssumption DEF Catalog!RefersTo, Catalog!CatalogAssumption
<1> QED BY <1>1, <1>3, FirmIsSound DEF r, ch

(* Nobody has overtaken the import: what it may refer to is there.         *)
LEMMA ImportFits ==
    ASSUME NEW job, Catalog!Possible(job), job.kind = "import", NEW f \in Catalog!Catalogs, Firm(f), Catalog!Valid(job, f)
    PROVE  Catalog!Commits(f, job, Catalog!Decided(job, f))
<1> DEFINE ch == Catalog!Decided(job, f)
           d == Catalog!Deleted(f, ch)
           r == Catalog!Result(f, job, ch)
           v == job.document
<1>1. /\ d \in Catalog!Catalogs /\ Firm(d) /\ r \in Catalog!Catalogs
      /\ r.tables = Catalog!Overlaid(d.tables, v.tables, Changed(ch, "tables"))
      /\ r.columns = Catalog!Overlaid(d.columns, v.columns, Changed(ch, "columns"))
      /\ r.metrics = Catalog!Overlaid(d.metrics, v.metrics, Changed(ch, "metrics"))
      /\ Changed(ch, "tables") \subseteq DOMAIN v.tables
      /\ Changed(ch, "columns") \subseteq DOMAIN v.columns
      /\ Changed(ch, "metrics") \subseteq DOMAIN v.metrics
  BY ImportLeaves
<1>2. /\ v \in Catalog!Catalogs /\ Catalog!Nested(v) /\ job.replace \in BOOLEAN
      /\ \A x \in Catalog!Fields : ch[x] = Catalog!Changes(f[x], v[x], job.replace)
  BY ImportIs
<1>3. /\ ch["tables"] = Catalog!Changes(f.tables, v.tables, job.replace)
      /\ ch["columns"] = Catalog!Changes(f.columns, v.columns, job.replace)
  BY <1>2, CatalogsAre DEF Catalog!Fields
<1>4. /\ DOMAIN d.tables = DOMAIN f.tables \ ch.tables.deleted
      /\ DOMAIN d.columns = DOMAIN f.columns \ Gone(f, ch)
  <2> DEFINE a == [t \in DOMAIN f.tables \ ch.tables.deleted |-> f.tables[t]]
             b == [c \in DOMAIN f.columns \ Gone(f, ch) |->
                      IF f.columns[c] \in Gone(f, ch) THEN None ELSE f.columns[c]]
             e == [m \in DOMAIN f.metrics \ ch.metrics.deleted |-> f.metrics[m] \ Gone(f, ch)]
  <2>1. ch.columns.deleted \subseteq CatalogColumns
    BY ImportIsClosed DEF Closed
  <2>2. d = [tables |-> a, columns |-> b, metrics |-> e]
    BY <2>1, DeletedIs
  <2>3. d.tables = a /\ d.columns = b
    BY <2>2
  <2> QED BY <2>3
<1>5. \A x \in Catalog!Fields : ch[x].updated \subseteq DOMAIN f[x]
  <2> TAKE x \in Catalog!Fields
  <2>1. Catalog!Changes(f[x], v[x], job.replace).updated \subseteq DOMAIN f[x]
    BY DEF Catalog!Changes
  <2> QED BY <1>2, <2>1
<1> HIDE DEF ch, d, r, v
<1>6. /\ DOMAIN r.tables = DOMAIN d.tables \cup Changed(ch, "tables")
      /\ DOMAIN r.columns = DOMAIN d.columns \cup Changed(ch, "columns")
      /\ \A c \in DOMAIN r.columns :
            r.columns[c] = IF c \in Changed(ch, "columns") THEN v.columns[c] ELSE d.columns[c]
      /\ DOMAIN r.metrics = DOMAIN d.metrics \cup Changed(ch, "metrics")
      /\ \A m \in DOMAIN r.metrics :
            r.metrics[m] = IF m \in Changed(ch, "metrics") THEN v.metrics[m] ELSE d.metrics[m]
  BY <1>1 DEF Catalog!Overlaid
<1>7. DOMAIN v.tables \subseteq DOMAIN r.tables
  BY <1>3, <1>4, <1>6 DEF Changed, Catalog!Changes
<1>8. DOMAIN v.columns \subseteq DOMAIN r.columns
  <2> SUFFICES ASSUME NEW c \in DOMAIN v.columns, c \in DOMAIN f.columns PROVE c \notin Gone(f, ch)
    BY <1>3, <1>4, <1>6 DEF Changed, Catalog!Changes
  <2>1. c \notin ch.columns.deleted /\ CatalogTableOf[c] \notin ch.tables.deleted
    BY <1>2, <1>3 DEF Catalog!Changes, Catalog!Nested
  <2> QED BY <2>1 DEF Gone
<1>9. Available(job, f) \subseteq DOMAIN r.columns
  <2>1. CASE job.replace
    BY <1>8, <2>1 DEF Available, v
  <2>2. CASE ~job.replace
    <3>1. ch.columns.deleted = {} /\ ch.tables.deleted = {}
      BY <1>3, <2>2 DEF Catalog!Changes
    <3>2. DOMAIN f.columns \subseteq DOMAIN d.columns
      BY <1>4, <3>1 DEF Gone
    <3> QED BY <1>6, <1>8, <3>2 DEF Available, v
  <2> QED BY <1>2, <2>1, <2>2
<1>10. ASSUME NEW c \in DOMAIN r.columns
       PROVE  /\ CatalogTableOf[c] \in DOMAIN r.tables
              /\ r.columns[c] = None \/ (r.columns[c] \in DOMAIN r.columns /\ r.columns[c] # c)
  <2>1. CASE c \in Changed(ch, "columns")
    <3>1. c \in DOMAIN v.columns /\ r.columns[c] = v.columns[c]
      BY <1>1, <1>6, <2>1
    <3>2. CatalogTableOf[c] \in DOMAIN r.tables
      BY <1>2, <1>7, <3>1 DEF Catalog!Nested
    <3>3. v.columns[c] = None \/ (v.columns[c] \in Available(job, f) /\ v.columns[c] # c)
      BY <3>1, ImportRefersTo DEF v
    <3> QED BY <1>9, <3>1, <3>2, <3>3
  <2>2. CASE c \notin Changed(ch, "columns")
    BY <1>1, <1>6, <2>2 DEF Firm
  <2> QED BY <2>1, <2>2
<1>11. ASSUME NEW m \in DOMAIN r.metrics PROVE r.metrics[m] \subseteq DOMAIN r.columns
  <2>1. CASE m \in Changed(ch, "metrics")
    <3>1. m \in DOMAIN v.metrics /\ r.metrics[m] = v.metrics[m]
      BY <1>1, <1>6, <2>1
    <3>2. v.metrics[m] \subseteq Available(job, f)
      BY <3>1, ImportRefersTo DEF v
    <3> QED BY <1>9, <3>1, <3>2
  <2>2. CASE m \notin Changed(ch, "metrics")
    BY <1>1, <1>6, <2>2 DEF Firm
  <2> QED BY <2>1, <2>2
<1>12. Firm(r)
  BY <1>10, <1>11 DEF Firm
<1> QED BY <1>1, <1>5, <1>12, FirmIsSound DEF Catalog!Commits, ch, r

LEMMA DeletionFits ==
    ASSUME NEW job, Catalog!Possible(job), job.kind = "delete", NEW f \in Catalog!Catalogs, Firm(f), Catalog!Valid(job, f)
    PROVE  Catalog!Commits(f, job, Catalog!Decided(job, f))
<1>1. \A x \in Catalog!Fields : Catalog!Decided(job, f)[x].updated = {}
  BY DeletionIs
<1>2. Catalog!Sound(Catalog!Result(f, job, Catalog!Decided(job, f)))
  BY DeletionLeaves, FirmIsSound
<1> QED BY <1>1, <1>2 DEF Catalog!Commits

-----------------------------------------------------------------------------
(* The invariant.                                                          *)

Asked(w) ==
    /\ editor[w].job.kind # "put" /\ Catalog!Valid(editor[w].job, editor[w].found)
    /\ Firm(editor[w].found)
CatalogInv ==
    /\ Catalog!TypeOK /\ editor = [w \in CatalogWriters |-> editor[w]] /\ Firm(tables)
    /\ \A w \in CatalogWriters : editor[w].phase = "read" => Asked(w)

LEMMA WritersAre ==
    ASSUME CatalogInv, NEW w \in CatalogWriters, editor[w].phase = "read"
    PROVE  /\ Catalog!Possible(editor[w].job) /\ editor[w].found \in Catalog!Catalogs /\ Firm(editor[w].found)
           /\ Catalog!Valid(editor[w].job, editor[w].found)
           /\ editor[w].job.kind \in {"import", "delete"}
<1>1. editor[w] \in [phase : {"read"}, job : CatalogJobs, found : Catalog!Catalogs]
  BY DEF CatalogInv, Catalog!TypeOK
<1>2. Catalog!Possible(editor[w].job)
  BY <1>1, MetadataAssumption DEF Catalog!CatalogAssumption
<1> QED BY <1>1, <1>2 DEF CatalogInv, Asked, Catalog!Possible

LEMMA CatalogInvInit == Catalog!Init => CatalogInv
<1> SUFFICES ASSUME Catalog!Init PROVE CatalogInv
  OBVIOUS
<1>1. tables \in Catalog!Catalogs /\ Catalog!Sound(tables) /\ Catalog!Straight(tables)
  BY MetadataAssumption DEF Catalog!Init, Catalog!CatalogAssumption
<1>2. editor = [w \in CatalogWriters |-> editor[w]]
      /\ \A w \in CatalogWriters : editor[w] = [phase |-> "new"]
  BY DEF Catalog!Init
<1> QED BY <1>1, <1>2, FirmIsSound DEF CatalogInv, Catalog!TypeOK

LEMMA CatalogInvStep == CatalogInv /\ [Catalog!Next]_(Catalog!catalogVars) => CatalogInv'
<1> SUFFICES ASSUME CatalogInv, [Catalog!Next]_(Catalog!catalogVars) PROVE CatalogInv'
  OBVIOUS
<1>1. CASE UNCHANGED Catalog!catalogVars
  BY <1>1 DEF Catalog!catalogVars, CatalogInv, Catalog!TypeOK, Asked
<1>2. CASE Catalog!Next
  <2> PICK w \in CatalogWriters : Catalog!Put(w) \/ Catalog!Read(w) \/ Catalog!Fail(w) \/ Catalog!Write(w)
    BY <1>2 DEF Catalog!Next
  <2>1. /\ tables \in Catalog!Catalogs /\ Firm(tables) /\ editor = [u \in CatalogWriters |-> editor[u]]
        /\ \A u \in CatalogWriters :
              \/ editor[u] \in [phase : {"new", "over"}]
              \/ editor[u] \in [phase : {"read"}, job : CatalogJobs, found : Catalog!Catalogs]
        /\ \A u \in CatalogWriters : editor[u].phase = "read" => Asked(u)
    BY DEF CatalogInv, Catalog!TypeOK
  <2>2. ASSUME tables' \in Catalog!Catalogs, Firm(tables)',
               editor' = [editor EXCEPT ![w] = [phase |-> "over"]]
        PROVE  CatalogInv'
    <3>1. /\ editor'[w] = [phase |-> "over"]
          /\ \A u \in CatalogWriters : u # w => editor'[u] = editor[u]
          /\ editor' = [u \in CatalogWriters |-> editor'[u]]
      BY <2>1, <2>2
    <3>2. editor'[w] \in [phase : {"new", "over"}] /\ editor'[w].phase # "read"
      BY <3>1
    <3>3. Catalog!TypeOK'
      BY <2>1, <2>2, <3>1, <3>2 DEF Catalog!TypeOK
    <3>4. \A u \in CatalogWriters : editor'[u].phase = "read" => Asked(u)'
      BY <2>1, <3>1, <3>2 DEF Asked
    <3> QED BY <2>2, <3>1, <3>3, <3>4 DEF CatalogInv
  <2>3. CASE Catalog!Put(w)
    <3>1. PICK job \in CatalogJobs : /\ job.kind = "put" /\ Catalog!Valid(job, tables)
                                     /\ tables' = Catalog!Result(tables, job, Catalog!Decided(job, tables))
      BY <2>3 DEF Catalog!Put
    <3>2. Catalog!Possible(job)
      BY MetadataAssumption DEF Catalog!CatalogAssumption
    <3>3. tables' \in Catalog!Catalogs /\ Firm(tables')
      BY <2>1, <3>1, <3>2, PutLeaves
    <3>4. Firm(tables)'
      BY <3>3 DEF Firm
    <3> QED BY <2>2, <2>3, <3>3, <3>4 DEF Catalog!Put
  <2>4. CASE Catalog!Read(w)
    <3>1. PICK job \in CatalogJobs :
            /\ job.kind # "put" /\ Catalog!Valid(job, tables)
            /\ editor' = [editor EXCEPT ![w] =
                            [phase |-> "read", job |-> job, found |-> tables]]
      BY <2>4 DEF Catalog!Read
    <3>2. /\ editor'[w] = [phase |-> "read", job |-> job, found |-> tables]
          /\ \A u \in CatalogWriters : u # w => editor'[u] = editor[u]
          /\ editor' = [u \in CatalogWriters |-> editor'[u]] /\ tables' = tables
      BY <2>1, <2>4, <3>1 DEF Catalog!Read
    <3>3. editor'[w] \in [phase : {"read"}, job : CatalogJobs, found : Catalog!Catalogs]
      BY <2>1, <3>2
    <3>4. Catalog!TypeOK'
      BY <2>1, <3>2, <3>3 DEF Catalog!TypeOK
    <3>5. Asked(w)'
      BY <2>1, <3>1, <3>2 DEF Asked
    <3>6. \A u \in CatalogWriters : editor'[u].phase = "read" => Asked(u)'
      BY <2>1, <3>2, <3>5 DEF Asked
    <3>7. Firm(tables)'
      BY <2>1, <3>2
    <3> QED BY <3>2, <3>4, <3>6, <3>7 DEF CatalogInv
  <2>5. CASE Catalog!Fail(w)
    <3>1. tables' \in Catalog!Catalogs /\ Firm(tables)'
      BY <2>1, <2>5 DEF Catalog!Fail
    <3> QED BY <2>2, <2>5, <3>1 DEF Catalog!Fail
  <2>6. CASE Catalog!Write(w)
    <3> DEFINE job == editor[w].job
               f == editor[w].found
    <3>1. /\ Catalog!Possible(job) /\ f \in Catalog!Catalogs /\ Firm(f) /\ Catalog!Valid(job, f)
          /\ job.kind \in {"import", "delete"}
      BY <2>6, WritersAre DEF Catalog!Write
    <3>2. CASE ~Catalog!Commits(tables, job, Catalog!Plan(w))
      <4>1. tables' = tables
        BY <2>6, <3>2 DEF Catalog!Write
      <4>2. tables' \in Catalog!Catalogs /\ Firm(tables)'
        BY <2>1, <4>1 DEF Firm
      <4> QED BY <2>2, <2>6, <4>2 DEF Catalog!Write
    <3>3. CASE Catalog!Commits(tables, job, Catalog!Plan(w))
      <4>1. tables' = Catalog!Result(tables, job, Catalog!Decided(job, f))
        BY <2>6, <3>3 DEF Catalog!Write, Catalog!Outcome, Catalog!Plan
      <4>2. Catalog!Sound(Catalog!Result(tables, job, Catalog!Decided(job, f)))
        BY <3>3 DEF Catalog!Commits, Catalog!Plan
      <4>3. CASE job.kind = "delete"
        <5>1. tables' \in Catalog!Catalogs /\ Firm(tables')
          BY <2>1, <3>1, <4>1, <4>3, DeletionLeaves
        <5>2. Firm(tables)'
          BY <5>1 DEF Firm
        <5> QED BY <2>2, <2>6, <5>1, <5>2 DEF Catalog!Write
      <4>4. CASE job.kind = "import"
        <5>1. tables' \in Catalog!Catalogs
          BY <2>1, <3>1, <4>1, <4>4, ImportLeaves
        <5>2. Firm(tables')
          BY <2>1, <3>1, <4>1, <4>2, <4>4, ImportIsStraight
        <5>3. Firm(tables)'
          BY <5>2 DEF Firm
        <5> QED BY <2>2, <2>6, <5>1, <5>3 DEF Catalog!Write
      <4> QED BY <3>1, <4>3, <4>4
    <3> QED BY <3>2, <3>3
  <2> QED BY <2>3, <2>4, <2>5, <2>6
<1> QED BY <1>1, <1>2

-----------------------------------------------------------------------------
(* What the invariant promises.                                            *)

(* What stays of an entry that a job neither deletes nor writes.           *)
LEMMA OthersStay ==
    ASSUME NEW job, Catalog!Possible(job), job.kind \in {"import", "delete"}, NEW f \in Catalog!Catalogs, Firm(f),
           Catalog!Valid(job, f), NEW k \in Catalog!Catalogs, Firm(k)
    PROVE  LET ch == Catalog!Decided(job, f)
               r == Catalog!Result(k, job, ch)
           IN  /\ Closed(ch, f)
               /\ \A c \in DOMAIN k.columns : c \notin Gone(k, ch) =>
                     /\ c \in DOMAIN r.columns
                     /\ c \notin Changed(ch, "columns") /\ k.columns[c] \notin Gone(k, ch) =>
                           r.columns[c] = k.columns[c]
               /\ \A m \in DOMAIN k.metrics :
                     m \notin ch.metrics.deleted /\ m \notin Changed(ch, "metrics") =>
                        m \in DOMAIN r.metrics /\ r.metrics[m] = k.metrics[m] \ Gone(k, ch)
<1> DEFINE ch == Catalog!Decided(job, f)
           d == Catalog!Deleted(k, ch)
           r == Catalog!Result(k, job, ch)
           G == Gone(k, ch)
           a == [t \in DOMAIN k.tables \ ch.tables.deleted |-> k.tables[t]]
           b == [c \in DOMAIN k.columns \ G |-> IF k.columns[c] \in G THEN None ELSE k.columns[c]]
           e == [m \in DOMAIN k.metrics \ ch.metrics.deleted |-> k.metrics[m] \ G]
<1>1. Closed(ch, f)
  BY ImportIsClosed, DeletionIsClosed
<1>2. d.columns = b /\ d.metrics = e
  <2>1. d = [tables |-> a, columns |-> b, metrics |-> e]
    BY <1>1, DeletedIs DEF Closed
  <2> HIDE DEF a, b, e, d
  <2> QED BY <2>1
<1>3. /\ \A c \in DOMAIN d.columns : /\ c \in DOMAIN r.columns
                                     /\ c \notin Changed(ch, "columns") =>
                                           r.columns[c] = d.columns[c]
      /\ \A m \in DOMAIN d.metrics : /\ m \in DOMAIN r.metrics
                                     /\ m \notin Changed(ch, "metrics") =>
                                           r.metrics[m] = d.metrics[m]
  <2>1. CASE job.kind = "delete"
    <3>1. r = d
      BY <2>1, DeletionLeaves
    <3> QED BY <3>1
  <2>2. CASE job.kind = "import"
    <3>1. /\ r.columns = Catalog!Overlaid(d.columns, job.document.columns, Changed(ch, "columns"))
          /\ r.metrics = Catalog!Overlaid(d.metrics, job.document.metrics, Changed(ch, "metrics"))
      BY <2>2, ImportLeaves
    <3> HIDE DEF ch, d, r
    <3> QED BY <3>1 DEF Catalog!Overlaid
  <2> QED BY <2>1, <2>2
<1> HIDE DEF ch, d, r, G
<1>4. ASSUME NEW c \in DOMAIN k.columns, c \notin G
      PROVE  /\ c \in DOMAIN r.columns
             /\ c \notin Changed(ch, "columns") /\ k.columns[c] \notin G => r.columns[c] = k.columns[c]
  BY <1>2, <1>3, <1>4
<1>5. ASSUME NEW m \in DOMAIN k.metrics, m \notin ch.metrics.deleted, m \notin Changed(ch, "metrics")
      PROVE  m \in DOMAIN r.metrics /\ r.metrics[m] = k.metrics[m] \ G
  BY <1>2, <1>3, <1>5
<1> QED BY <1>1, <1>4, <1>5 DEF ch, r, G

(* The entries that the change workflow is not told of.                    *)
LEMMA ToldIs ==
    ASSUME NEW w \in CatalogWriters, NEW e, e \notin Catalog!Told(w)
    PROVE  Kept(Catalog!Plan(w), e)
<1> SUFFICES ASSUME NEW x \in Catalog!Fields
             PROVE  e \notin Changed(Catalog!Plan(w), x) /\ e \notin Catalog!Plan(w)[x].deleted
  BY DEF Kept
<1> DEFINE one == UNION {Catalog!Plan(w)[x].created, Catalog!Plan(w)[x].updated, Catalog!Plan(w)[x].deleted}
<1>1. e \notin one
  BY DEF Catalog!Told
<1> QED BY <1>1 DEF Changed

LEMMA CatalogStaysSound == CatalogInv => Catalog!CatalogIsSound
<1> SUFFICES ASSUME CatalogInv PROVE Catalog!CatalogIsSound
  OBVIOUS
<1>1. tables \in Catalog!Catalogs /\ Firm(tables)
  BY DEF CatalogInv, Catalog!TypeOK
<1>2. ASSUME NEW w \in CatalogWriters, editor[w].phase = "read", tables = editor[w].found
      PROVE  w \in Catalog!Ready
  <2>1. /\ Catalog!Possible(editor[w].job) /\ Catalog!Valid(editor[w].job, tables)
        /\ editor[w].job.kind \in {"import", "delete"}
    BY <1>2, WritersAre
  <2>2. Catalog!Commits(tables, editor[w].job, Catalog!Decided(editor[w].job, tables))
    BY <1>1, <2>1, ImportFits, DeletionFits
  <2> QED BY <1>2, <2>2 DEF Catalog!Ready, Catalog!Plan
<1> QED BY <1>1, <1>2, FirmIsSound DEF Catalog!CatalogIsSound

LEMMA CascadesStayLate == CatalogInv => Catalog!CascadesAreLate
<1> SUFFICES ASSUME CatalogInv, NEW w \in Catalog!Ready
             PROVE  /\ \A pair \in Catalog!References(tables, Catalog!Entries) :
                          pair \notin Catalog!References(Catalog!Outcome(w), Catalog!Entries) /\ pair[1] \notin Catalog!Told(w) =>
                              pair \notin Catalog!References(editor[w].found, Catalog!Entries)
                    /\ \A c \in DOMAIN tables.columns :
                          c \notin DOMAIN Catalog!Outcome(w).columns /\ c \notin Catalog!Told(w) =>
                              c \notin DOMAIN editor[w].found.columns
  BY DEF Catalog!CascadesAreLate
<1> DEFINE job == editor[w].job
           f == editor[w].found
           k == tables
           ch == Catalog!Plan(w)
           r == Catalog!Outcome(w)
<1>1. k \in Catalog!Catalogs /\ Firm(k)
  BY DEF CatalogInv, Catalog!TypeOK
<1>2. /\ Catalog!Possible(job) /\ f \in Catalog!Catalogs /\ Firm(f) /\ Catalog!Valid(job, f)
      /\ job.kind \in {"import", "delete"} /\ w \in CatalogWriters
  BY WritersAre DEF Catalog!Ready
<1>3. /\ Closed(ch, f)
      /\ \A c \in DOMAIN k.columns : c \notin Gone(k, ch) =>
            /\ c \in DOMAIN r.columns
            /\ c \notin Changed(ch, "columns") /\ k.columns[c] \notin Gone(k, ch) =>
                  r.columns[c] = k.columns[c]
      /\ \A m \in DOMAIN k.metrics :
            m \notin ch.metrics.deleted /\ m \notin Changed(ch, "metrics") =>
               m \in DOMAIN r.metrics /\ r.metrics[m] = k.metrics[m] \ Gone(k, ch)
  BY <1>1, <1>2, OthersStay DEF Catalog!Plan, Catalog!Outcome
<1> HIDE DEF job, f, k, ch, r
<1>4. ASSUME NEW c \in DOMAIN f.columns, c \notin ch.columns.deleted PROVE c \notin Gone(k, ch)
  BY <1>3, <1>4 DEF Closed, Gone
<1>5. ASSUME NEW c \in DOMAIN k.columns, c \notin DOMAIN r.columns, c \notin Catalog!Told(w)
      PROVE  c \notin DOMAIN f.columns
  <2>1. c \notin ch["columns"].deleted
    BY <1>2, <1>5, ToldIs DEF Kept, Catalog!Fields, ch
  <2> QED BY <1>3, <1>4, <1>5, <2>1
<1>6. ASSUME NEW pair \in Catalog!References(k, Catalog!Entries),
             pair \notin Catalog!References(r, Catalog!Entries),
             pair[1] \notin Catalog!Told(w), pair \in Catalog!References(f, Catalog!Entries)
      PROVE  FALSE
  <2> DEFINE e == pair[1]
             c == pair[2]
  <2>1. /\ pair = <<e, c>> /\ e \in Catalog!Entries /\ c \in CatalogColumns
        /\ Catalog!RefersTo(k, e, c) /\ Catalog!RefersTo(f, e, c)
    BY <1>6, ReferencePairs
  <2>2. Kept(ch, e)
    BY <1>2, <1>6, ToldIs DEF ch
  <2>3. c \notin ch.columns.deleted
    BY <1>3, <2>1, <2>2 DEF Closed
  <2>4. /\ DOMAIN f.columns \subseteq CatalogColumns /\ DOMAIN f.metrics \subseteq CatalogMetrics
        /\ DOMAIN k.columns \subseteq CatalogColumns /\ DOMAIN k.metrics \subseteq CatalogMetrics
    BY <1>1, <1>2, CatalogsAre
  <2>5. CatalogColumns \cap CatalogMetrics = {} /\ None \notin CatalogColumns
    BY MetadataAssumption DEF Catalog!CatalogAssumption
  <2>6. c \in DOMAIN f.columns
    BY <1>2, <2>1, <2>5 DEF Catalog!RefersTo, Firm
  <2>7. c \notin Gone(k, ch)
    BY <1>4, <2>3, <2>6
  <2>8. Catalog!RefersTo(r, e, c)
    <3>1. CASE e \in DOMAIN k.columns /\ c = k.columns[e]
      <4>1. e \in DOMAIN f.columns
        BY <2>1, <2>4, <2>5, <3>1 DEF Catalog!RefersTo
      <4>2. e \notin ch["columns"].deleted /\ e \notin Changed(ch, "columns")
        BY <2>2 DEF Kept, Catalog!Fields
      <4>3. e \notin Gone(k, ch)
        BY <1>4, <4>1, <4>2
      <4> QED BY <1>3, <2>7, <3>1, <4>2, <4>3 DEF Catalog!RefersTo
    <3>2. CASE e \in DOMAIN k.metrics /\ c \in k.metrics[e]
      <4>1. e \notin ch["metrics"].deleted /\ e \notin Changed(ch, "metrics")
        BY <2>2 DEF Kept, Catalog!Fields
      <4> QED BY <1>3, <2>7, <3>2, <4>1 DEF Catalog!RefersTo
    <3> QED BY <2>1, <3>1, <3>2 DEF Catalog!RefersTo
  <2>9. <<e, c>> \in Catalog!References(r, Catalog!Entries)
    BY <2>1, <2>8, ReferencesAre
  <2> QED BY <1>6, <2>1, <2>9
<1> QED BY <1>5, <1>6 DEF f, k, r

(* A merge that nobody overtook.                                           *)
LEMMA MergeTakesEffect ==
    ASSUME NEW job, Catalog!Possible(job), job.kind = "import", ~job.replace, NEW f \in Catalog!Catalogs, Firm(f),
           Catalog!Valid(job, f)
    PROVE  \A x \in Catalog!Fields : Catalog!Result(f, job, Catalog!Decided(job, f))[x] =
                             Catalog!Overlaid(f[x], job.document[x], DOMAIN job.document[x])
<1> DEFINE ch == Catalog!Decided(job, f)
           v == job.document
           r == Catalog!Result(f, job, ch)
<1>1. v \in Catalog!Catalogs /\ \A x \in Catalog!Fields : ch[x] = Catalog!Changes(f[x], v[x], job.replace)
  BY ImportIs
<1> HIDE DEF ch
<1>2. \A x \in Catalog!Fields : ch[x].deleted = {}
  <2> TAKE x \in Catalog!Fields
  <2>1. Catalog!Changes(f[x], v[x], job.replace).deleted = {}
    BY DEF Catalog!Changes
  <2> QED BY <1>1, <2>1
<1>3. Catalog!Deleted(f, ch) = f
  <2>1. ch["tables"].deleted = {} /\ ch["columns"].deleted = {} /\ ch["metrics"].deleted = {}
    BY <1>2 DEF Catalog!Fields
  <2> QED BY <2>1, NothingIsGone
<1>4. \A x \in Catalog!Fields : r[x] = Catalog!Overlaid(f[x], v[x], Changed(ch, x))
  BY <1>3 DEF Catalog!Result, Catalog!Written, Catalog!Values, Changed, ch
<1> HIDE DEF ch, v, r
<1>5. ASSUME NEW x \in Catalog!Fields
      PROVE  Catalog!Overlaid(f[x], v[x], Changed(ch, x)) = Catalog!Overlaid(f[x], v[x], DOMAIN v[x])
  <2>1. Changed(ch, x) = (DOMAIN v[x] \ DOMAIN f[x])
                         \cup {y \in DOMAIN f[x] \cap DOMAIN v[x] : f[x][y] # v[x][y]}
    <3>1. /\ Catalog!Changes(f[x], v[x], job.replace).created = DOMAIN v[x] \ DOMAIN f[x]
          /\ Catalog!Changes(f[x], v[x], job.replace).updated =
                {y \in DOMAIN f[x] \cap DOMAIN v[x] : f[x][y] # v[x][y]}
      BY DEF Catalog!Changes
    <3> QED BY <1>1, <3>1 DEF Changed
  <2> QED BY <2>1 DEF Catalog!Overlaid
<1> QED BY <1>4, <1>5 DEF ch, v, r

(* A replacement that nobody overtook.                                     *)
LEMMA ReplacementTakesEffect ==
    ASSUME NEW job, Catalog!Possible(job), job.kind = "import", job.replace, NEW f \in Catalog!Catalogs, Firm(f),
           Catalog!Valid(job, f)
    PROVE  Catalog!Result(f, job, Catalog!Decided(job, f)) = job.document
<1> DEFINE ch == Catalog!Decided(job, f)
           v == job.document
           r == Catalog!Result(f, job, ch)
           d == Catalog!Deleted(f, ch)
           G == Gone(f, ch)
           a == [t \in DOMAIN f.tables \ ch.tables.deleted |-> f.tables[t]]
           b == [c \in DOMAIN f.columns \ G |-> IF f.columns[c] \in G THEN None ELSE f.columns[c]]
           e == [m \in DOMAIN f.metrics \ ch.metrics.deleted |-> f.metrics[m] \ G]
<1>1. /\ v \in Catalog!Catalogs /\ Catalog!Nested(v)
      /\ \A x \in Catalog!Fields : ch[x] = Catalog!Changes(f[x], v[x], TRUE)
  BY ImportIs
<1>2. /\ r \in Catalog!Catalogs
      /\ r.tables = Catalog!Overlaid(d.tables, v.tables, Changed(ch, "tables"))
      /\ r.columns = Catalog!Overlaid(d.columns, v.columns, Changed(ch, "columns"))
      /\ r.metrics = Catalog!Overlaid(d.metrics, v.metrics, Changed(ch, "metrics"))
  BY ImportLeaves
<1>3. Closed(ch, f)
  BY ImportIsClosed
<1>4. d.tables = a /\ d.columns = b /\ d.metrics = e
  <2>1. d = [tables |-> a, columns |-> b, metrics |-> e]
    BY <1>3, DeletedIs DEF Closed
  <2> HIDE DEF a, b, e, d
  <2> QED BY <2>1
<1>5. /\ ch["tables"] = Catalog!Changes(f.tables, v.tables, TRUE)
      /\ ch["columns"] = Catalog!Changes(f.columns, v.columns, TRUE)
      /\ ch["metrics"] = Catalog!Changes(f.metrics, v.metrics, TRUE)
  BY <1>1, CatalogsAre DEF Catalog!Fields
<1> HIDE DEF ch, d, r
<1>6. /\ ch.tables.deleted = DOMAIN f.tables \ DOMAIN v.tables
      /\ ch.columns.deleted = DOMAIN f.columns \ DOMAIN v.columns
      /\ ch.metrics.deleted = DOMAIN f.metrics \ DOMAIN v.metrics
      /\ Changed(ch, "tables") = (DOMAIN v.tables \ DOMAIN f.tables)
            \cup {y \in DOMAIN f.tables \cap DOMAIN v.tables : f.tables[y] # v.tables[y]}
      /\ Changed(ch, "columns") = (DOMAIN v.columns \ DOMAIN f.columns)
            \cup {y \in DOMAIN f.columns \cap DOMAIN v.columns : f.columns[y] # v.columns[y]}
      /\ Changed(ch, "metrics") = (DOMAIN v.metrics \ DOMAIN f.metrics)
            \cup {y \in DOMAIN f.metrics \cap DOMAIN v.metrics : f.metrics[y] # v.metrics[y]}
  BY <1>5 DEF Changed, Catalog!Changes
<1>7. G = DOMAIN f.columns \ DOMAIN v.columns
  BY <1>3, <1>6 DEF Closed, Gone
<1>8. /\ \A c \in DOMAIN v.columns : v.columns[c] = None \/ v.columns[c] \in DOMAIN v.columns
      /\ \A m \in DOMAIN v.metrics : v.metrics[m] \subseteq DOMAIN v.columns
  <2>1. Available(job, f) = DOMAIN v.columns
    BY DEF Available
  <2> QED BY <2>1, ImportRefersTo
<1> HIDE DEF G, v
<1>9. /\ v.tables = [t \in DOMAIN v.tables |-> v.tables[t]]
      /\ v.columns = [c \in DOMAIN v.columns |-> v.columns[c]]
      /\ v.metrics = [m \in DOMAIN v.metrics |-> v.metrics[m]]
  BY <1>1, CatalogsAre
<1>10. r.tables = v.tables
  <2>1. DOMAIN d.tables = DOMAIN f.tables \cap DOMAIN v.tables
        /\ \A t \in DOMAIN d.tables : d.tables[t] = f.tables[t]
    BY <1>4, <1>6
  <2>2. DOMAIN d.tables \cup Changed(ch, "tables") = DOMAIN v.tables
    BY <1>6, <2>1
  <2>3. \A t \in DOMAIN v.tables :
           (IF t \in Changed(ch, "tables") THEN v.tables[t] ELSE d.tables[t]) = v.tables[t]
    BY <1>6, <2>1
  <2> QED BY <1>2, <1>9, <2>2, <2>3 DEF Catalog!Overlaid
<1>11. r.columns = v.columns
  <2>1. DOMAIN d.columns = DOMAIN f.columns \cap DOMAIN v.columns
        /\ \A c \in DOMAIN d.columns :
              d.columns[c] = IF f.columns[c] \in G THEN None ELSE f.columns[c]
    BY <1>4, <1>7
  <2>2. DOMAIN d.columns \cup Changed(ch, "columns") = DOMAIN v.columns
    BY <1>6, <2>1
  <2>3. ASSUME NEW c \in DOMAIN v.columns
        PROVE (IF c \in Changed(ch, "columns") THEN v.columns[c] ELSE d.columns[c]) = v.columns[c]
    <3>1. CASE c \notin Changed(ch, "columns")
      <4>1. c \in DOMAIN f.columns /\ f.columns[c] = v.columns[c]
        BY <1>6, <3>1
      <4>2. f.columns[c] \notin G
        <5>1. f.columns[c] = None \/ f.columns[c] \in DOMAIN v.columns
          BY <1>8, <4>1
        <5>2. None \notin DOMAIN f.columns
          BY CatalogsAre, MetadataAssumption DEF Catalog!CatalogAssumption
        <5> QED BY <1>7, <5>1, <5>2
      <4> QED BY <2>1, <3>1, <4>1, <4>2
    <3> QED BY <3>1
  <2> QED BY <1>2, <1>9, <2>2, <2>3 DEF Catalog!Overlaid
<1>12. r.metrics = v.metrics
  <2>1. DOMAIN d.metrics = DOMAIN f.metrics \cap DOMAIN v.metrics
        /\ \A m \in DOMAIN d.metrics : d.metrics[m] = f.metrics[m] \ G
    BY <1>4, <1>6
  <2>2. DOMAIN d.metrics \cup Changed(ch, "metrics") = DOMAIN v.metrics
    BY <1>6, <2>1
  <2>3. ASSUME NEW m \in DOMAIN v.metrics
        PROVE (IF m \in Changed(ch, "metrics") THEN v.metrics[m] ELSE d.metrics[m]) = v.metrics[m]
    <3>1. CASE m \notin Changed(ch, "metrics")
      <4>1. m \in DOMAIN f.metrics /\ f.metrics[m] = v.metrics[m]
        BY <1>6, <3>1
      <4>2. f.metrics[m] \ G = f.metrics[m]
        BY <1>7, <1>8, <4>1
      <4> QED BY <2>1, <3>1, <4>1, <4>2
    <3> QED BY <3>1
  <2> QED BY <1>2, <1>9, <2>2, <2>3 DEF Catalog!Overlaid
<1>13. r = [tables |-> r.tables, columns |-> r.columns, metrics |-> r.metrics]
       /\ v = [tables |-> v.tables, columns |-> v.columns, metrics |-> v.metrics]
  BY <1>1, <1>2 DEF Catalog!Catalogs
<1> QED BY <1>10, <1>11, <1>12, <1>13 DEF ch, r, v

LEMMA ImportsStayEffective == CatalogInv => Catalog!ImportsTakeEffect
<1> SUFFICES ASSUME CatalogInv, NEW w \in Catalog!Ready, editor[w].job.kind = "import",
                    tables = editor[w].found
             PROVE  IF editor[w].job.replace THEN Catalog!Outcome(w) = editor[w].job.document
                    ELSE \A x \in Catalog!Fields :
                            Catalog!Outcome(w)[x] = Catalog!Overlaid(tables[x], editor[w].job.document[x],
                                                     DOMAIN editor[w].job.document[x])
  BY DEF Catalog!ImportsTakeEffect
<1>1. /\ Catalog!Possible(editor[w].job) /\ tables \in Catalog!Catalogs /\ Firm(tables)
      /\ Catalog!Valid(editor[w].job, tables)
  BY WritersAre DEF Catalog!Ready
<1>2. Catalog!Outcome(w) = Catalog!Result(tables, editor[w].job, Catalog!Decided(editor[w].job, tables))
  BY DEF Catalog!Outcome, Catalog!Plan
<1>3. CASE editor[w].job.replace
  BY <1>1, <1>2, <1>3, ReplacementTakesEffect
<1>4. CASE ~editor[w].job.replace
  <2> DEFINE job == editor[w].job
  <2> HIDE DEF job
  <2>1. \A x \in Catalog!Fields : Catalog!Result(tables, job, Catalog!Decided(job, tables))[x] =
                          Catalog!Overlaid(tables[x], job.document[x], DOMAIN job.document[x])
    BY <1>1, <1>4, MergeTakesEffect DEF job
  <2> QED BY <1>2, <1>4, <2>1 DEF job
<1> QED BY <1>3, <1>4

LEMMA ExportsStayGood == CatalogInv => Catalog!ExportsComeBack
<1> SUFFICES ASSUME CatalogInv, NEW replace \in BOOLEAN
             PROVE  LET job == [kind |-> "import", replace |-> replace, document |-> tables] IN
                    /\ Catalog!Valid(job, tables) <=> ~Catalog!Empty(tables)
                    /\ \A x \in Catalog!Fields : Catalog!Decided(job, tables)[x] = Catalog!Nothing
  BY DEF Catalog!ExportsComeBack
<1> DEFINE job == [kind |-> "import", replace |-> replace, document |-> tables]
<1>1. Catalog!Sound(tables) /\ Catalog!Straight(tables)
  BY FirmIsSound DEF CatalogInv, Catalog!TypeOK
<1>2. job.kind = "import" /\ job.replace = replace /\ job.document = tables
  OBVIOUS
<1> HIDE DEF job
<1>3. Catalog!ImportIsValid(job, tables) <=> ~Catalog!Empty(tables)
  BY <1>1, <1>2 DEF Catalog!ImportIsValid, Catalog!Sound, Catalog!Straight
<1>4. Catalog!Valid(job, tables) <=> ~Catalog!Empty(tables)
  BY <1>2, <1>3 DEF Catalog!Valid
<1>5. ASSUME NEW x \in Catalog!Fields PROVE Catalog!Decided(job, tables)[x] = Catalog!Nothing
  <2>1. Catalog!Decided(job, tables)[x] = Catalog!Changes(tables[x], tables[x], replace)
    BY <1>2 DEF Catalog!Decided
  <2> QED BY <2>1 DEF Catalog!Changes, Catalog!Nothing
<1> QED BY <1>4, <1>5 DEF job

(* The catalogue is kept: its foreign keys hold, cascades are late, an     *)
(* import that nobody overtook takes effect, and exports come back.        *)
LEMMA CatalogIsSafe == CatalogInv => Catalog!CatalogIsKept
BY CatalogStaysSound, CascadesStayLate, ImportsStayEffective, ExportsStayGood
   DEF Catalog!CatalogIsKept

-----------------------------------------------------------------------------
(* A task that holds the lock has written what it does not have to do any  *)
(* more; somebody will see to a change that no task has seen yet.          *)

Held == \A t \in IndexTasks : task[t].phase = "writing" <=> indexLock = t
Writing(t) == \A x \in Entries!Texts : x \notin task[t].todo => document[x] = Entries!Target(task[t].found)[x]
Coming ==
    \/ queue > 0
    \/ \E t \in IndexTasks : task[t].phase = "locking"
    \/ \E w \in EntryWriters : writer[w].phase \in {"written", "unindexed"}
Seen == \E t \in IndexTasks : indexLock = t /\ /\ task[t].found.content = entry.content
                                               /\ task[t].found.version = entry.version
Settling == indexLock = Nobody /\ document = Entries!Target(entry) /\ entry.indexed = entry.version

Meant == \A w \in EntryWriters :
            /\ writer[w].kind = "edit" => writer[w].content \in EntryContents
            /\ writer[w].kind = "none" => writer[w].phase \in {"idle", "over"}
Matched == \A t \in IndexTasks : indexLock = t /\ ~overlapped => Writing(t)
Followed == Entries!Present /\ ~neglected /\ ~overlapped => Coming \/ Seen \/ Settling
Emptied == ~Entries!Present /\ ~overlapped => document = Entries!Target(Entries!NoEntry) /\ indexLock = Nobody
IndexInv == Entries!TypeOK /\ Meant /\ Held /\ Matched /\ Followed /\ Emptied

LEMMA TargetIs ==
    /\ \A e : Entries!Target(e) = [x \in Entries!Texts |-> Entries!Target(e)[x]]
    /\ \A e, f : e.content = f.content /\ e.version = f.version => Entries!Target(e) = Entries!Target(f)
    /\ Entries!Target(Entries!NoEntry) = [x \in Entries!Texts |-> Entries!NoDocument]
<1>1. \A e : Entries!Target(e) = [x \in Entries!Texts |-> Entries!Target(e)[x]]
  BY DEF Entries!Target
<1>2. \A e, f : e.content = f.content /\ e.version = f.version => Entries!Target(e) = Entries!Target(f)
  BY DEF Entries!Target, Entries!Document
<1>3. Entries!Document(Entries!NoEntry) = Entries!NoDocument
  BY DEF Entries!Document, Entries!NoEntry, Entries!NoDocument
<1>4. Entries!Target(Entries!NoEntry) = [x \in Entries!Texts |-> Entries!NoDocument]
  BY <1>3 DEF Entries!Target
<1> QED BY <1>1, <1>2, <1>4

LEMMA TargetsAre ==
    ASSUME NEW e \in Entries!Entries, NEW x \in Entries!Texts
    PROVE  Entries!Target(e)[x] \in [content : EntryContents \cup {Absent}, version : 0 .. MaxVersion]
BY MetadataAssumption DEF Entries!IndexAssumption, Entries!Target, Entries!Document,
   Entries!NoDocument, Entries!Entries

LEMMA IndexInit == Entries!Init => IndexInv
<1> SUFFICES ASSUME Entries!Init PROVE IndexInv
  OBVIOUS
<1>1. Entries!NoEntry \in Entries!Entries /\ Entries!NoDocument \in [content : EntryContents \cup {Absent}, version : 0 .. MaxVersion]
  BY MetadataAssumption DEF Entries!IndexAssumption, Entries!NoEntry, Entries!NoDocument,
     Entries!Entries
<1>2. Entries!TypeOK
  <2>1. Entries!Idle \in [kind : {"none"}, phase : {"idle"}, content : {Absent}, found : Entries!Entries]
    BY <1>1 DEF Entries!Idle
  <2>2. Entries!Resting \in [phase : {"idle"}, found : Entries!Entries, todo : {{}}]
    BY <1>1 DEF Entries!Resting
  <2>3. writer \in [EntryWriters -> [kind : {"none", "edit", "delete"},
                               phase : {"idle", "read", "written", "unindexed", "over"},
                               content : EntryContents \cup {Absent}, found : Entries!Entries]]
    BY <2>1 DEF Entries!Init
  <2>4. task \in [IndexTasks -> [phase : {"idle", "locking", "writing"}, found : Entries!Entries,
                           todo : SUBSET Entries!Texts]]
    BY <2>2 DEF Entries!Init
  <2>5. document \in [Entries!Texts -> [content : EntryContents \cup {Absent}, version : 0 .. MaxVersion]]
    BY <1>1 DEF Entries!Init
  <2>6. neglected \in BOOLEAN /\ overlapped \in BOOLEAN
    BY DEF Entries!Init
  <2>7. entry \in Entries!Entries /\ queue \in 0 .. MaxQueue /\ indexLock \in IndexTasks \cup {Nobody}
        /\ indexFaults \in 0 .. MaxIndexFaults
    BY <1>1, MetadataAssumption DEF Entries!IndexAssumption, Entries!Init
  <2> QED BY <2>3, <2>4, <2>5, <2>6, <2>7 DEF Entries!TypeOK
<1>3. Meant /\ Held
  BY MetadataAssumption DEF Entries!IndexAssumption, Entries!Init, Meant, Held, Entries!Idle,
     Entries!Resting
<1>4. Matched
  BY MetadataAssumption DEF Entries!IndexAssumption, Entries!Init, Matched
<1>5. ~Entries!Present
  BY DEF Entries!Init, Entries!Present, Entries!NoEntry
<1>6. document = Entries!Target(Entries!NoEntry) /\ indexLock = Nobody
  BY TargetIs DEF Entries!Init
<1> QED BY <1>2, <1>3, <1>4, <1>5, <1>6 DEF IndexInv, Followed, Emptied

LEMMA IndexTypes == IndexInv /\ [Entries!Next]_(Entries!indexVars) => Entries!TypeOK'
<1> SUFFICES ASSUME IndexInv, [Entries!Next]_(Entries!indexVars) PROVE Entries!TypeOK'
  OBVIOUS
<1> USE MetadataAssumption DEF Entries!IndexAssumption
<1>0. Entries!NoEntry \in Entries!Entries /\ Entries!NoDocument \in [content : EntryContents \cup {Absent}, version : 0 .. MaxVersion]
      /\ Entries!Idle \in [kind : {"none"}, phase : {"idle"}, content : {Absent}, found : Entries!Entries]
      /\ Entries!Over \in [kind : {"none"}, phase : {"over"}, content : {Absent}, found : Entries!Entries]
      /\ Entries!Resting \in [phase : {"idle"}, found : Entries!Entries, todo : {{}}]
  BY DEF Entries!NoEntry, Entries!NoDocument, Entries!Entries, Entries!Idle, Entries!Over,
     Entries!Resting
<1>t. Entries!TypeOK
  BY DEF IndexInv
<1>1. CASE UNCHANGED Entries!indexVars
  BY <1>1, <1>t DEF Entries!indexVars, Entries!TypeOK
<1>2. ASSUME NEW w \in EntryWriters, Entries!WriterStep(w) PROVE Entries!TypeOK'
  <2>1. ASSUME NEW c \in EntryContents \cup {Absent}, NEW kind \in {"edit", "delete"}, Entries!Begin(w, kind, c)
        PROVE  Entries!TypeOK'
    BY <1>t, <2>1 DEF Entries!TypeOK, Entries!Begin
  <2>2. CASE Entries!Unchanged(w)
    BY <1>0, <1>t, <2>2 DEF Entries!TypeOK, Entries!Unchanged
  <2>3. CASE Entries!Write(w)
    <3>1. /\ writer[w].content \in EntryContents \cup {Absent} /\ writer[w].found \in Entries!Entries
          /\ entry \in Entries!Entries /\ entry' \in Entries!Written(w) /\ entry'.version <= MaxVersion
      BY <1>t, <2>3 DEF Entries!TypeOK, Entries!Write
    <3>3. /\ entry.version \in 0 .. MaxVersion /\ entry.indexed \in 0 .. MaxVersion
          /\ writer[w].found.version \in 0 .. MaxVersion
      BY <3>1 DEF Entries!Entries
    <3>2. entry' \in Entries!Entries
      <4>1. CASE entry' = Entries!Made(w)
        <5>1. 1 <= MaxVersion
          BY <3>1, <4>1 DEF Entries!Made
        <5> QED BY <3>1, <4>1, <5>1 DEF Entries!Made, Entries!Entries
      <4>2. CASE entry' = Entries!Counted(w)
        <5>1. writer[w].found.version + 1 \in 0 .. MaxVersion
          BY <3>1, <3>3, <4>2 DEF Entries!Counted, Entries!Entries
        <5> QED BY <3>1, <4>2, <5>1 DEF Entries!Counted, Entries!Entries
      <4>3. CASE entry' = Entries!Met(w)
        <5> DEFINE n == IF writer[w].content = entry.content THEN entry.version ELSE entry.version + 1
        <5>1. entry' = [entry EXCEPT !.content = writer[w].content, !.version = n]
          BY <4>3 DEF Entries!Met
        <5>2. n \in 0 .. MaxVersion
          BY <3>1, <3>3, <5>1 DEF Entries!Entries
        <5> HIDE DEF n
        <5> QED BY <3>1, <5>1, <5>2 DEF Entries!Entries
      <4> QED BY <3>1, <4>1, <4>2, <4>3 DEF Entries!Written
    <3> QED BY <1>t, <2>3, <3>2 DEF Entries!TypeOK, Entries!Write
  <2>4. CASE Entries!WriteFails(w)
    BY <1>0, <1>t, <2>4 DEF Entries!TypeOK, Entries!WriteFails
  <2>5. CASE Entries!Notify(w)
    <3>1. queue' \in 0 .. MaxQueue /\ indexFaults' \in 0 .. MaxIndexFaults
      <4>1. \/ queue < MaxQueue /\ queue' = queue + 1 /\ UNCHANGED <<indexFaults, neglected>>
            \/ indexFaults < MaxIndexFaults /\ indexFaults' = indexFaults + 1 /\ UNCHANGED queue /\ neglected' = TRUE
        BY <2>5 DEF Entries!Notify, Entries!Fault
      <4>2. queue \in 0 .. MaxQueue /\ indexFaults \in 0 .. MaxIndexFaults /\ neglected \in BOOLEAN
        BY <1>t DEF Entries!TypeOK
      <4> QED BY <4>1, <4>2
    <3>2. neglected' \in BOOLEAN
      BY <1>t, <2>5 DEF Entries!TypeOK, Entries!Notify
    <3> QED BY <1>0, <1>t, <2>5, <3>1, <3>2 DEF Entries!TypeOK, Entries!Notify
  <2>6. CASE Entries!DeleteDocuments(w)
    BY <1>0, <1>t, <2>6 DEF Entries!TypeOK, Entries!DeleteDocuments
  <2>7. CASE Entries!DeleteRow(w)
    BY <1>0, <1>t, <2>7 DEF Entries!TypeOK, Entries!DeleteRow
  <2>8. CASE Entries!DeleteFails(w)
    BY <1>0, <1>t, <2>8 DEF Entries!TypeOK, Entries!DeleteFails, Entries!Fault
  <2> QED BY <1>2, <2>1, <2>2, <2>3, <2>4, <2>5, <2>6, <2>7, <2>8 DEF Entries!WriterStep
<1>3. ASSUME NEW t \in IndexTasks, Entries!TaskStep(t) PROVE Entries!TypeOK'
  <2>0. Entries!Release(t) => indexLock' \in IndexTasks \cup {Nobody}
    BY <1>t DEF Entries!TypeOK, Entries!Release
  <2>1. CASE Entries!Take(t)
    BY <1>t, <2>1 DEF Entries!TypeOK, Entries!Take
  <2>2. CASE Entries!Load(t)
    BY <1>t, <2>2 DEF Entries!TypeOK, Entries!Load, Entries!Delta
  <2>3. CASE Entries!FindNothing(t)
    BY <1>0, <1>t, <2>3 DEF Entries!TypeOK, Entries!FindNothing
  <2>4. CASE Entries!Apply(t)
    <3>1. PICK x \in task[t].todo :
            /\ document' = [document EXCEPT ![x] = Entries!Target(task[t].found)[x]]
            /\ task' = [task EXCEPT ![t].todo = @ \ {x}]
      BY <2>4 DEF Entries!Apply
    <3>2. x \in Entries!Texts /\ task[t].found \in Entries!Entries
      BY <1>t, <3>1 DEF Entries!TypeOK
    <3>3. Entries!Target(task[t].found)[x] \in [content : EntryContents \cup {Absent}, version : 0 .. MaxVersion]
      BY <3>2, TargetsAre
    <3> QED BY <1>t, <2>4, <3>1, <3>3 DEF Entries!TypeOK, Entries!Apply
  <2>5. CASE Entries!Mark(t)
    <3>1. entry' \in Entries!Entries
      <4>1. entry' = entry \/ entry' = [entry EXCEPT !.indexed = entry.version]
        BY <2>5 DEF Entries!Mark
      <4> QED BY <1>t, <4>1 DEF Entries!TypeOK, Entries!Entries
    <3>2. neglected' \in BOOLEAN
      BY <2>5 DEF Entries!Mark
    <3> QED BY <1>0, <1>t, <2>0, <2>5, <3>1, <3>2 DEF Entries!TypeOK, Entries!Mark
  <2>6. CASE Entries!Fail(t)
    <3>1. neglected' \in BOOLEAN
      BY <1>t, <2>6 DEF Entries!Fail, Entries!TypeOK, Entries!Present
    <3>2. queue' \in 0 .. MaxQueue /\ indexFaults' \in 0 .. MaxIndexFaults
      BY <1>t, <2>6 DEF Entries!Fail, Entries!TypeOK, Entries!Fault
    <3> QED BY <1>0, <1>t, <2>0, <2>6, <3>1, <3>2 DEF Entries!TypeOK, Entries!Fail
  <2> QED BY <1>3, <2>1, <2>2, <2>3, <2>4, <2>5, <2>6 DEF Entries!TaskStep
<1> QED BY <1>1, <1>2, <1>3 DEF Entries!Next

(* Administrators do not touch the lock and the tasks.                     *)
LEMMA WriterMoves ==
    ASSUME IndexInv, Entries!TypeOK', NEW w \in EntryWriters, Entries!WriterStep(w)
    PROVE  IndexInv'
<1> USE MetadataAssumption DEF Entries!IndexAssumption
<1>t. /\ Entries!TypeOK /\ Meant /\ Held /\ Matched /\ Followed /\ Emptied
      /\ writer \in [EntryWriters -> [kind : {"none", "edit", "delete"},
                                 phase : {"idle", "read", "written", "unindexed", "over"},
                                 content : EntryContents \cup {Absent}, found : Entries!Entries]]
  BY DEF IndexInv, Entries!TypeOK
<1>0. Entries!Over.kind = "none" /\ Entries!Over.phase = "over"
  BY DEF Entries!Over, Entries!Idle
<1>1. indexLock' = indexLock /\ task' = task
  BY DEF Entries!WriterStep, Entries!Begin, Entries!Unchanged, Entries!Write, Entries!WriteFails,
     Entries!Notify, Entries!DeleteDocuments, Entries!DeleteRow, Entries!DeleteFails
<1>2. Held'
  BY <1>t, <1>1 DEF Held
<1>3. \A u \in EntryWriters : u # w => writer'[u] = writer[u]
  BY <1>t DEF Entries!WriterStep, Entries!Begin, Entries!Unchanged, Entries!Write,
     Entries!WriteFails, Entries!Notify, Entries!DeleteDocuments, Entries!DeleteRow,
     Entries!DeleteFails
<1>4. Meant'
  <2> SUFFICES /\ writer'[w].kind = "edit" => writer'[w].content \in EntryContents
               /\ writer'[w].kind = "none" => writer'[w].phase \in {"idle", "over"}
    BY <1>t, <1>3 DEF Meant
  <2>1. ASSUME NEW c \in EntryContents, Entries!Begin(w, "edit", c)
        PROVE  writer'[w].content \in EntryContents /\ writer'[w].kind = "edit"
    BY <1>t, <2>1 DEF Entries!Begin
  <2>2. CASE Entries!Begin(w, "delete", Absent)
    BY <1>t, <2>2 DEF Entries!Begin
  <2>3. CASE Entries!Unchanged(w) \/ Entries!WriteFails(w) \/ Entries!Notify(w) \/ Entries!DeleteRow(w) \/ Entries!DeleteFails(w)
    <3>1. writer'[w] = Entries!Over
      BY <1>t, <2>3 DEF Entries!Unchanged, Entries!WriteFails, Entries!Notify, Entries!DeleteRow,
         Entries!DeleteFails
    <3> QED BY <1>0, <3>1
  <2>4. CASE Entries!Write(w) \/ Entries!DeleteDocuments(w)
    <3>1. writer'[w].kind = writer[w].kind /\ writer'[w].content = writer[w].content
      BY <1>t, <2>4 DEF Entries!Write, Entries!DeleteDocuments
    <3> QED BY <1>t, <2>4, <3>1 DEF Meant, Entries!Write, Entries!DeleteDocuments
  <2> QED BY <2>1, <2>2, <2>3, <2>4 DEF Entries!WriterStep
<1>5. ASSUME document' = document, overlapped' = overlapped PROVE Matched'
  BY <1>t, <1>1, <1>5 DEF Matched, Writing
<1>6. ASSUME NEW phase \in {"read", "over"}, writer[w].phase \in {"idle", "read"},
             writer'[w].phase = phase,
             UNCHANGED <<entry, queue, document, neglected, overlapped>>
      PROVE  IndexInv'
  <2>1. Coming' <=> Coming
    BY <1>t, <1>1, <1>3, <1>6 DEF Coming
  <2>2. Followed' /\ Emptied'
    BY <1>t, <1>1, <1>6, <2>1 DEF Followed, Emptied, Seen, Settling, Entries!Present
  <2> QED BY <1>2, <1>4, <1>5, <1>6, <2>2 DEF IndexInv
<1>7. ASSUME NEW c, NEW kind, Entries!Begin(w, kind, c) PROVE IndexInv'
  <2>1. writer'[w].phase = "read"
    BY <1>t, <1>7 DEF Entries!Begin
  <2> QED BY <1>6, <1>7, <2>1 DEF Entries!Begin
<1>8. CASE Entries!Unchanged(w) \/ Entries!WriteFails(w)
  <2>1. writer'[w].phase = "over"
    BY <1>0, <1>t, <1>8 DEF Entries!Unchanged, Entries!WriteFails
  <2> QED BY <1>6, <1>8, <2>1 DEF Entries!Unchanged, Entries!WriteFails
<1>9. CASE Entries!Write(w)
  <2>1. writer'[w].phase = "written"
    BY <1>t, <1>9 DEF Entries!Write
  <2>2. Coming'
    BY <2>1 DEF Coming
  <2>3. writer[w].content \in EntryContents
    <3>1. writer[w].kind = "edit"
      BY <1>t, <1>9 DEF Meant, Entries!Write
    <3> QED BY <1>t, <1>9, <3>1 DEF Meant, Entries!Write
  <2>4. Entries!Present'
    <3>1. entry' \in Entries!Written(w)
      BY <1>9 DEF Entries!Write
    <3>2. entry \in Entries!Entries
      BY <1>t DEF Entries!TypeOK
    <3>3. entry'.content = writer[w].content
      <4>1. Entries!Made(w).content = writer[w].content
        BY DEF Entries!Made
      <4>2. Entries!Counted(w).content = writer[w].content
        BY <3>2 DEF Entries!Counted, Entries!Entries
      <4>3. Entries!Met(w).content = writer[w].content
        BY <3>2 DEF Entries!Met, Entries!Entries
      <4> QED BY <3>1, <4>1, <4>2, <4>3 DEF Entries!Written
    <3> QED BY <2>3, <3>1, <3>3 DEF Entries!Present
  <2> QED BY <1>2, <1>4, <1>5, <1>9, <2>2, <2>4 DEF IndexInv, Followed, Emptied, Entries!Write
<1>10. CASE Entries!Notify(w)
  <2>1. Matched' /\ Emptied'
    BY <1>t, <1>1, <1>5, <1>10 DEF Entries!Notify, Emptied, Entries!Present
  <2>2. Coming' \/ neglected'
    BY <1>t, <1>10 DEF Entries!Notify, Coming, Entries!TypeOK
  <2> QED BY <1>2, <1>4, <2>1, <2>2 DEF IndexInv, Followed
<1>11. CASE Entries!DeleteDocuments(w)
  <2>1. writer'[w].phase = "unindexed"
    BY <1>t, <1>11 DEF Entries!DeleteDocuments
  <2>2. Coming'
    BY <2>1 DEF Coming
  <2>3. Matched'
    BY <1>t, <1>1, <1>11 DEF Matched, Entries!DeleteDocuments
  <2>4. document' = Entries!Target(Entries!NoEntry)
    BY <1>11, TargetIs DEF Entries!DeleteDocuments
  <2>5. Emptied'
    <3>1. Entries!Target(Entries!NoEntry)' = Entries!Target(Entries!NoEntry)
      OBVIOUS
    <3> QED BY <1>t, <1>1, <1>11, <2>4, <3>1 DEF Emptied, Entries!DeleteDocuments, Entries!Present
  <2> QED BY <1>2, <1>4, <2>2, <2>3, <2>5 DEF IndexInv, Followed
<1>12. CASE Entries!DeleteRow(w)
  <2>1. ~Entries!Present'
    BY <1>12 DEF Entries!DeleteRow, Entries!Present, Entries!NoEntry
  <2>2. Matched'
    BY <1>1, <1>12 DEF Matched, Entries!DeleteRow
  <2>3. Emptied'
    BY <1>1, <1>12 DEF Emptied, Entries!DeleteRow
  <2> QED BY <1>2, <1>4, <2>1, <2>2, <2>3 DEF IndexInv, Followed
<1>13. CASE Entries!DeleteFails(w)
  <2>1. Matched' /\ Emptied'
    BY <1>t, <1>1, <1>5, <1>13 DEF Entries!DeleteFails, Emptied, Entries!Present
  <2> QED BY <1>2, <1>4, <1>13, <2>1 DEF IndexInv, Followed, Entries!DeleteFails
<1> QED BY <1>7, <1>8, <1>9, <1>10, <1>11, <1>12, <1>13 DEF Entries!WriterStep

LEMMA TaskMoves ==
    ASSUME IndexInv, Entries!TypeOK', NEW t \in IndexTasks, Entries!TaskStep(t)
    PROVE  IndexInv'
<1> USE MetadataAssumption DEF Entries!IndexAssumption
<1>t. /\ Entries!TypeOK /\ Meant /\ Held /\ Matched /\ Followed /\ Emptied
      /\ task \in [IndexTasks -> [phase : {"idle", "locking", "writing"}, found : Entries!Entries,
                             todo : SUBSET Entries!Texts]]
      /\ queue \in 0 .. MaxQueue /\ indexLock \in IndexTasks \cup {Nobody} /\ document = [x \in Entries!Texts |-> document[x]]
  BY DEF IndexInv, Entries!TypeOK
<1>0. Entries!Resting.phase = "idle"
  BY DEF Entries!Resting
<1>1. writer' = writer
  BY DEF Entries!TaskStep, Entries!Take, Entries!Load, Entries!FindNothing, Entries!Apply,
     Entries!Mark, Entries!Fail
<1>2. Meant'
  BY <1>t, <1>1 DEF Meant
<1>3. \A u \in IndexTasks : u # t => task'[u] = task[u]
  BY <1>t DEF Entries!TaskStep, Entries!Take, Entries!Load, Entries!FindNothing, Entries!Apply,
     Entries!Mark, Entries!Fail
<1>4. CASE Entries!Take(t)
  <2>1. task'[t].phase = "locking" /\ task[t].phase = "idle"
    BY <1>t, <1>4 DEF Entries!Take
  <2>2. Held' /\ Matched'
    <3>1. indexLock' = indexLock /\ indexLock # t
      BY <1>t, <1>4, <2>1 DEF Entries!Take, Held
    <3>2. Held'
      BY <1>t, <1>3, <2>1, <3>1 DEF Held
    <3> QED BY <1>t, <1>3, <1>4, <3>1, <3>2 DEF Matched, Writing, Entries!Take
  <2>3. Coming'
    BY <2>1 DEF Coming
  <2>4. Emptied'
    BY <1>t, <1>4 DEF Emptied, Entries!Take, Entries!Present
  <2> QED BY <1>2, <2>2, <2>3, <2>4 DEF IndexInv, Followed
<1>5. CASE Entries!Load(t)
  <2>1. task'[t] = [phase |-> "writing", found |-> entry, todo |-> Entries!Delta(entry)]
        /\ indexLock = Nobody /\ indexLock' = t /\ entry' = entry /\ document' = document /\ Entries!Present
    BY <1>t, <1>5 DEF Entries!Load
  <2>2. Held'
    <3>1. \A u \in IndexTasks : task[u].phase # "writing"
      BY <1>t, <2>1 DEF Held
    <3> QED BY <1>3, <2>1, <3>1 DEF Held
  <2>3. Matched'
    <3>1. Writing(t)'
      <4> SUFFICES ASSUME NEW x \in Entries!Texts, x \notin Entries!Delta(entry)
                   PROVE  document[x] = Entries!Target(entry)[x]
        BY <2>1 DEF Writing
      <4> QED BY DEF Entries!Delta
    <3> QED BY <2>1, <3>1 DEF Matched
  <2>4. Seen'
    BY <2>1 DEF Seen
  <2> QED BY <1>2, <2>1, <2>2, <2>3, <2>4 DEF IndexInv, Followed, Emptied, Entries!Present
<1>6. CASE Entries!FindNothing(t)
  <2>1. /\ task'[t] = Entries!Resting /\ task[t].phase = "locking" /\ indexLock' = indexLock /\ entry' = entry
        /\ document' = document /\ ~Entries!Present /\ overlapped' = overlapped /\ indexLock = Nobody
    BY <1>t, <1>6 DEF Entries!FindNothing
  <2>2. Held' /\ Matched'
    BY <1>t, <1>0, <1>3, <2>1 DEF Held, Matched
  <2>3. Emptied' /\ Followed'
    BY <1>t, <2>1 DEF Emptied, Followed, Entries!Present
  <2> QED BY <1>2, <2>2, <2>3 DEF IndexInv
<1>7. CASE Entries!Apply(t)
  <2>1. PICK x \in task[t].todo :
          /\ document' = [document EXCEPT ![x] = Entries!Target(task[t].found)[x]]
          /\ task' = [task EXCEPT ![t].todo = @ \ {x}]
    BY <1>7 DEF Entries!Apply
  <2>2. /\ task'[t].phase = "writing" /\ task'[t].found = task[t].found
        /\ task'[t].todo = task[t].todo \ {x} /\ task[t].phase = "writing" /\ x \in Entries!Texts
        /\ UNCHANGED <<entry, writer, queue, indexLock, neglected, overlapped>>
    BY <1>t, <1>7, <2>1 DEF Entries!Apply
  <2>3. indexLock = t /\ indexLock # Nobody
    BY <1>t, <2>2 DEF Held
  <2>4. Held'
    BY <1>t, <1>3, <2>2 DEF Held
  <2>5. Matched'
    <3> SUFFICES ASSUME ~overlapped, NEW y \in Entries!Texts, y \notin task'[t].todo
                 PROVE  document'[y] = Entries!Target(task[t].found)[y]
      BY <2>2, <2>3 DEF Matched, Writing
    <3>1. Writing(t)
      BY <1>t, <2>3 DEF Matched
    <3> QED BY <1>t, <2>1, <2>2, <3>1 DEF Writing
  <2>6. Coming => Coming'
    BY <1>3, <2>2 DEF Coming
  <2>7. Seen => Seen'
    BY <2>2, <2>3 DEF Seen
  <2>8. Followed' /\ Emptied'
    BY <1>t, <2>2, <2>3, <2>6, <2>7 DEF Followed, Emptied, Settling, Entries!Present
  <2> QED BY <1>2, <2>4, <2>5, <2>8 DEF IndexInv
<1>8. ASSUME task[t].phase # "idle", task' = [task EXCEPT ![t] = Entries!Resting], Entries!Release(t)
      PROVE  Held'
  <2>1. task'[t].phase = "idle"
    BY <1>0, <1>t, <1>8
  <2> QED BY <1>t, <1>3, <1>8, <2>1 DEF Held, Entries!Release
<1>9. CASE Entries!Mark(t)
  <2> DEFINE current == Entries!Present /\ entry.version = task[t].found.version
  <2>1. /\ task[t].phase = "writing" /\ task[t].todo = {} /\ task' = [task EXCEPT ![t] = Entries!Resting]
        /\ task'[t] = Entries!Resting
        /\ UNCHANGED <<writer, queue, document, overlapped>> /\ Entries!Release(t)
        /\ entry' = (IF current THEN [entry EXCEPT !.indexed = entry.version] ELSE entry)
        /\ neglected' = (neglected /\ (entry.content # task[t].found.content \/ ~current))
    BY <1>t, <1>9 DEF Entries!Mark
  <2>2. indexLock = t /\ indexLock' = Nobody /\ indexLock # Nobody
    BY <1>t, <2>1 DEF Held, Entries!Release
  <2>3. Held' /\ Matched'
    BY <1>8, <2>1, <2>2 DEF Matched
  <2>4. entry'.content = entry.content /\ entry'.version = entry.version
        /\ (current => entry'.indexed = entry'.version)
    BY <1>t, <2>1 DEF Entries!TypeOK, Entries!Entries
  <2> HIDE DEF current
  <2>5. Emptied'
    BY <1>t, <2>1, <2>2, <2>4 DEF Emptied, Entries!Present
  <2>6. ASSUME current, entry.content = task[t].found.content, ~overlapped PROVE Settling'
    <3>1. Writing(t)
      BY <1>t, <2>2, <2>6 DEF Matched
    <3>2. document = Entries!Target(task[t].found)
      BY <1>t, <2>1, <3>1, TargetIs DEF Writing
    <3>3. Entries!Target(task[t].found) = Entries!Target(entry')
      <4>1. task[t].found.content = entry'.content /\ task[t].found.version = entry'.version
        BY <2>4, <2>6 DEF current
      <4> QED BY <4>1, TargetIs
    <3> QED BY <2>1, <2>2, <2>4, <2>6, <3>2, <3>3 DEF Settling, Entries!Target
  <2>7. Followed'
    <3> SUFFICES ASSUME Entries!Present', ~neglected', ~overlapped' PROVE Coming' \/ Settling'
      BY DEF Followed
    <3>1. Entries!Present /\ ~overlapped
      BY <2>1, <2>4 DEF Entries!Present
    <3>2. CASE neglected
      BY <2>1, <2>6, <3>1, <3>2
    <3>3. CASE Coming /\ ~neglected
      <4>1. \A u \in IndexTasks : task[u].phase = "locking" => task'[u].phase = "locking"
        BY <1>3, <2>1
      <4> QED BY <2>1, <3>3, <4>1 DEF Coming
    <3>4. CASE Seen /\ ~neglected
      <4>1. task[t].found.content = entry.content /\ task[t].found.version = entry.version
        BY <2>2, <3>4 DEF Seen
      <4> QED BY <2>6, <3>1, <4>1 DEF current
    <3>5. CASE ~Coming /\ ~Seen /\ ~neglected
      BY <1>t, <2>2, <3>1, <3>5 DEF Followed, Settling
    <3> QED BY <3>2, <3>3, <3>4, <3>5
  <2> QED BY <1>2, <2>3, <2>5, <2>7 DEF IndexInv
<1>10. CASE Entries!Fail(t)
  <2>1. /\ task[t].phase # "idle" /\ task' = [task EXCEPT ![t] = Entries!Resting] /\ Entries!Release(t)
        /\ UNCHANGED <<entry, writer, document, overlapped>>
        /\ (queue' = queue + 1 \/ neglected' = Entries!Present)
    BY <1>10 DEF Entries!Fail
  <2>2. Held'
    BY <1>8, <2>1
  <2>3. task'[t] = Entries!Resting
    BY <1>t, <2>1
  <2>4. indexLock' # t /\ (indexLock' = indexLock \/ indexLock' = Nobody)
    BY <2>1 DEF Entries!Release
  <2>5. Matched'
    <3> SUFFICES ASSUME NEW u \in IndexTasks, indexLock' = u, ~overlapped PROVE Writing(u)'
      BY <2>1 DEF Matched
    <3>1. u # t /\ indexLock = u /\ task'[u] = task[u]
      BY <1>3, <2>4
    <3> QED BY <1>t, <2>1, <3>1 DEF Matched, Writing
  <2>6. Emptied'
    BY <1>t, <2>1, <2>4 DEF Emptied, Entries!Present
  <2>7. Coming' \/ neglected' = Entries!Present
    BY <1>t, <2>1 DEF Coming
  <2>8. Followed'
    BY <2>1, <2>7 DEF Followed, Entries!Present
  <2> QED BY <1>2, <2>2, <2>5, <2>6, <2>8 DEF IndexInv
<1> QED BY <1>4, <1>5, <1>6, <1>7, <1>9, <1>10 DEF Entries!TaskStep

LEMMA IndexStep == IndexInv /\ [Entries!Next]_(Entries!indexVars) => IndexInv'
<1> SUFFICES ASSUME IndexInv, [Entries!Next]_(Entries!indexVars) PROVE IndexInv'
  OBVIOUS
<1>1. Entries!TypeOK'
  BY IndexTypes
<1>2. CASE UNCHANGED Entries!indexVars
  BY <1>2 DEF Entries!indexVars, IndexInv, Entries!TypeOK, Meant, Held, Matched, Writing, Followed,
     Emptied,
              Coming, Seen, Settling, Entries!Present
<1>3. CASE Entries!Next
  BY <1>1, <1>3, WriterMoves, TaskMoves DEF Entries!Next
<1> QED BY <1>2, <1>3

(* When every task has run, the documents are those of the row.            *)
LEMMA IndexIsCurrent == IndexInv => Entries!SettledIndexIsCurrent
<1> SUFFICES ASSUME IndexInv, Entries!Settled
             PROVE  /\ Entries!Present /\ ~neglected /\ ~overlapped =>
                          document = Entries!Target(entry) /\ entry.indexed = entry.version
                    /\ ~Entries!Present /\ ~overlapped => document = Entries!Target(Entries!NoEntry)
  BY DEF Entries!SettledIndexIsCurrent
<1>1. ~Coming
  BY DEF Entries!Settled, Coming, Entries!Busy
<1>2. ~Seen
  BY DEF Entries!Settled, Seen, Entries!Busy, IndexInv, Held
<1> QED BY <1>1, <1>2 DEF IndexInv, Followed, Emptied, Settling

-----------------------------------------------------------------------------
(* The cursor of the row.                                                  *)

LEMMA GreatestIs ==
    ASSUME NEW S, S \subseteq Sync!Values, S # {}
    PROVE  Sync!Greatest(S) \in S /\ \A w \in S : w <= Sync!Greatest(S)
<1> DEFINE U == {u \in Nat : \A w \in S : w <= u}
<1>1. MaxValue \in U
  BY MetadataAssumption DEF Sync!SyncAssumption, Sync!Values
<1>2. PICK u \in U : \A x \in U : u <= x
  BY <1>1, LeastExists
<1>3. \A w \in S : w \in Nat /\ w >= 1 /\ w <= u
  BY <1>2, MetadataAssumption DEF Sync!SyncAssumption, Sync!Values
<1>4. u \in S
  <2> SUFFICES ASSUME u \notin S PROVE FALSE
    OBVIOUS
  <2>1. u \in Nat /\ u >= 1
    BY <1>2, <1>3
  <2>2. \A w \in S : w <= u - 1
    BY <1>3, <2>1
  <2>3. u - 1 \in U
    BY <2>1, <2>2
  <2> QED BY <1>2, <2>1, <2>3
<1>5. \E v \in S : \A w \in S : w <= v
  BY <1>3, <1>4
<1> QED BY <1>5 DEF Sync!Greatest

(* The values of the source that a cursor has left behind.                 *)
Behind(cursor) == {v \in source : v < cursor - Lookback}
Accounted == Sync!Indexed \cup unseen

(* What the run that owns the row may rely on, as long as it lives, and    *)
(* what it has made true of the values behind the bound it will commit.    *)
Mine(r) ==
    /\ run[r].cursor = row.cursor /\ run[r].cursored = cursored
    /\ run[r].mode = "full" => run[r].generation = r
    /\ run[r].mode = "incremental" => run[r].generation # Sync!Unset
    /\ run[r].phase \in {"bounded", "writing"} => run[r].mode # "clear"
    /\ run[r].bound # Sync!Unset => /\ run[r].bound \in source /\ run[r].cursor <= run[r].bound
                                    /\ cursored
    /\ run[r].bound = Sync!Unset /\ run[r].mode = "full" /\ run[r].phase # "begun" => row.cursor = Sync!Unset
Covers(r) ==
    /\ run[r].phase = "writing" /\ run[r].mode = "full" =>
         \A v \in Behind(run[r].bound) :
            v \in run[r].todo \/ docs[v] = run[r].generation \/ v \in unseen
    /\ run[r].phase = "writing" /\ run[r].mode # "full" =>
         Behind(run[r].bound) \subseteq run[r].todo \cup Accounted
    /\ run[r].phase = "done" /\ run[r].mode # "clear" => Behind(run[r].bound) \subseteq Accounted

Reliable ==
    /\ row.cursor # Sync!Unset => row.cursor \in source
    /\ Behind(row.cursor) \subseteq Accounted
    /\ ~cursored => row.cursor = Sync!Unset
Carried == \A r \in SyncRuns : Sync!Owns(r) /\ Sync!Alive(r) => Mine(r) /\ Covers(r)
SyncInv == Sync!TypeOK /\ Reliable /\ Carried

LEMMA NothingBehind ==
    ASSUME source \subseteq Sync!Values
    PROVE  Behind(Sync!Unset) = {}
<1> SUFFICES ASSUME NEW v \in Behind(Sync!Unset) PROVE FALSE
  OBVIOUS
<1>1. v \in Sync!Values /\ v < -1 - Lookback
  BY DEF Behind, Sync!Unset
<1>2. v >= 1 /\ v \in Int /\ Lookback \in Int /\ Lookback >= 0
  BY <1>1, MetadataAssumption DEF Sync!SyncAssumption, Sync!Values
<1> QED BY <1>1, <1>2

LEMMA SyncInit == Sync!Init => SyncInv
<1> SUFFICES ASSUME Sync!Init PROVE SyncInv
  OBVIOUS
<1> USE MetadataAssumption DEF Sync!SyncAssumption
<1>1. Sync!NewRun \in [phase : Sync!Phases, mode : {"full", "incremental", "clear"},
                  generation : Sync!Generations, cursor : Sync!Values \cup {Sync!Unset},
                  cursored : BOOLEAN, version : 0 .. MaxSyncChanges,
                  bound : Sync!Values \cup {Sync!Unset}, todo : SUBSET Sync!Values]
  BY DEF Sync!NewRun, Sync!Phases, Sync!Generations
<1>2. Sync!NoRow \in [status : {"none", "syncing", "failed", "succeeded"},
                 active : SyncRuns \cup {Nobody}, generation : Sync!Generations,
                 cursor : Sync!Values \cup {Sync!Unset}]
  BY DEF Sync!NoRow, Sync!Generations
<1>3. /\ enabled \in BOOLEAN /\ cursored \in BOOLEAN /\ present \in BOOLEAN
      /\ deletions \in 0 .. MaxSyncChanges /\ deleting \in 0 .. deletions
  BY DEF Sync!Init
<1>4. Sync!TypeOK
  BY <1>1, <1>2, <1>3 DEF Sync!Init, Sync!TypeOK, Sync!Generations
<1>5. Reliable
  BY DEF Sync!Init, Reliable, Sync!NoRow, Behind
<1>6. Carried
  BY DEF Sync!Init, Carried, Sync!NoRow, Sync!Owns
<1> QED BY <1>4, <1>5, <1>6 DEF SyncInv

LEMMA RunsAre ==
    ASSUME Sync!TypeOK, NEW r \in SyncRuns
    PROVE  /\ run[r].phase \in Sync!Phases /\ run[r].mode \in {"full", "incremental", "clear"}
           /\ run[r].generation \in Sync!Generations /\ run[r].cursor \in Sync!Values \cup {Sync!Unset}
           /\ run[r].cursored \in BOOLEAN /\ run[r].version \in 0 .. MaxSyncChanges
           /\ run[r].bound \in Sync!Values \cup {Sync!Unset} /\ run[r].todo \subseteq Sync!Values
           /\ run = [s \in SyncRuns |-> run[s]]
           /\ run[r] = [phase |-> run[r].phase, mode |-> run[r].mode,
                        generation |-> run[r].generation, cursor |-> run[r].cursor,
                        cursored |-> run[r].cursored, version |-> run[r].version,
                        bound |-> run[r].bound, todo |-> run[r].todo]
BY DEF Sync!TypeOK

LEMMA SyncTypes == Sync!TypeOK /\ [Sync!Next]_(Sync!vars) => Sync!TypeOK'
<1> SUFFICES ASSUME Sync!TypeOK, [Sync!Next]_(Sync!vars) PROVE Sync!TypeOK'
  OBVIOUS
<1> USE MetadataAssumption DEF Sync!SyncAssumption, Sync!catalogVars
<1> DEFINE Run == [phase : Sync!Phases, mode : {"full", "incremental", "clear"},
                   generation : Sync!Generations, cursor : Sync!Values \cup {Sync!Unset},
                   cursored : BOOLEAN, version : 0 .. MaxSyncChanges,
                   bound : Sync!Values \cup {Sync!Unset}, todo : SUBSET Sync!Values]
<1>r. Sync!NewRun \in Run
  BY DEF Sync!NewRun, Sync!Phases, Sync!Generations
<1>0. /\ \A phase \in Sync!Phases : Sync!Ended(phase) \in Run
      /\ Sync!NoRow \in [status : {"none", "syncing", "failed", "succeeded"},
                    active : SyncRuns \cup {Nobody}, generation : Sync!Generations,
                    cursor : Sync!Values \cup {Sync!Unset}]
  <2>1. \A phase \in Sync!Phases : Sync!Ended(phase) \in Run
    BY <1>r DEF Sync!Ended
  <2> QED BY <2>1 DEF Sync!NoRow, Sync!Generations
<1>1. CASE UNCHANGED Sync!vars
  BY <1>1 DEF Sync!vars, Sync!TypeOK
<1>2. CASE Sync!SourceGrows
  BY <1>2 DEF Sync!TypeOK, Sync!SourceGrows
<1>c. Sync!Changeable => version + 1 \in 0 .. MaxSyncChanges /\ deletions + 1 \in 0 .. MaxSyncChanges
  BY DEF Sync!TypeOK, Sync!Changeable
<1>3. CASE Sync!SetIndexValues \/ Sync!AddColumn
  <2>1. enabled' \in BOOLEAN /\ version' \in 0 .. MaxSyncChanges
    BY <1>3, <1>c DEF Sync!TypeOK, Sync!SetIndexValues, Sync!AddColumn
  <2> QED BY <1>3, <2>1 DEF Sync!TypeOK, Sync!SetIndexValues, Sync!AddColumn
<1>4. CASE Sync!SetCursorColumn
  <2>1. cursored' \in BOOLEAN /\ version' \in 0 .. MaxSyncChanges
    BY <1>4, <1>c DEF Sync!TypeOK, Sync!SetCursorColumn
  <2> QED BY <1>0, <1>4, <2>1 DEF Sync!TypeOK, Sync!SetCursorColumn
<1>7. CASE Sync!DeleteDocuments
  <2>1. deletions' \in 0 .. MaxSyncChanges /\ deleting' \in 0 .. deletions'
    BY <1>7, <1>c DEF Sync!TypeOK, Sync!DeleteDocuments
  <2>2. docs' \in [Sync!Values -> Sync!Generations] /\ unseen' \subseteq Sync!Values
    BY <1>7 DEF Sync!TypeOK, Sync!DeleteDocuments, Sync!Generations, Sync!Indexed
  <2> QED BY <1>7, <2>1, <2>2 DEF Sync!TypeOK, Sync!DeleteDocuments
<1>8. CASE Sync!DeleteColumn \/ Sync!DeletionFails
  <2>0. /\ deletions \in Nat /\ deleting \in 0 .. deletions /\ deleting > 0 /\ deleting' = deleting - 1
        /\ deletions' = deletions
    BY <1>8 DEF Sync!TypeOK, Sync!DeleteColumn, Sync!DeletionFails
  <2>p. present' \in BOOLEAN
    BY <1>8 DEF Sync!TypeOK, Sync!DeleteColumn, Sync!DeletionFails
  <2>1. deletions' = deletions /\ deleting' \in 0 .. deletions /\ present' \in BOOLEAN
    BY <2>0, <2>p
  <2> QED BY <1>0, <1>8, <2>1 DEF Sync!TypeOK, Sync!DeleteColumn, Sync!DeletionFails
<1>5. CASE Sync!Claim \/ Sync!ClaimFails
  BY <1>5 DEF Sync!TypeOK, Sync!Claim, Sync!ClaimFails
<1>6. ASSUME NEW r \in SyncRuns, Sync!RunStep(r) PROVE Sync!TypeOK'
  <2>0. run[r] \in Run /\ run = [s \in SyncRuns |-> run[s]]
    BY DEF Sync!TypeOK
  <2>1. CASE Sync!Begin(r)
    <3>1. PICK mode \in {"full", "incremental", "clear"} :
            run' = [run EXCEPT ![r] =
                     [Sync!NewRun EXCEPT !.phase = "begun", !.mode = mode,
                                    !.generation = IF mode = "full" THEN r ELSE row.generation,
                                    !.cursor = row.cursor, !.cursored = cursored,
                                    !.version = version]]
      BY <2>1 DEF Sync!Begin
    <3>2. run'[r] = [phase |-> "begun", mode |-> mode,
                     generation |-> IF mode = "full" THEN r ELSE row.generation,
                     cursor |-> row.cursor, cursored |-> cursored, version |-> version,
                     bound |-> Sync!Unset, todo |-> {}]
          /\ run' = [s \in SyncRuns |-> IF s = r THEN run'[r] ELSE run[s]]
      BY <2>0, <3>1 DEF Sync!NewRun
    <3>3. run'[r] \in [phase : Sync!Phases, mode : {"full", "incremental", "clear"},
                       generation : Sync!Generations, cursor : Sync!Values \cup {Sync!Unset},
                       cursored : BOOLEAN, version : 0 .. MaxSyncChanges,
                       bound : Sync!Values \cup {Sync!Unset}, todo : SUBSET Sync!Values]
      BY <3>2 DEF Sync!TypeOK, Sync!Phases, Sync!Generations
    <3> QED BY <2>1, <3>2, <3>3 DEF Sync!TypeOK, Sync!Begin
  <2>2. ASSUME NEW S \in SUBSET Sync!Values, Sync!Deletes(r, S)
        PROVE  docs' \in [Sync!Values -> Sync!Generations] /\ unseen' \subseteq Sync!Values
    BY <2>2 DEF Sync!Deletes, Sync!TypeOK, Sync!Generations, Sync!Indexed
  <2>3. CASE Sync!Clear(r)
    BY <2>2, <2>3 DEF Sync!TypeOK, Sync!Clear, Sync!Phases
  <2>4. CASE Sync!ReadBound(r)
    <3> DEFINE known == run[r].cursored /\ source # {}
               b == IF known THEN Sync!Greatest(source) ELSE Sync!Unset
               p == IF ~known /\ run[r].mode = "incremental" THEN "done" ELSE "bounded"
    <3>1. run' = [run EXCEPT ![r] = [@ EXCEPT !.phase = p, !.bound = b]]
      BY <2>4 DEF Sync!ReadBound
    <3>2. b \in Sync!Values \cup {Sync!Unset}
      BY GreatestIs DEF Sync!TypeOK
    <3>3. p \in Sync!Phases
      BY DEF Sync!Phases
    <3> HIDE DEF b, p
    <3>4. [run[r] EXCEPT !.phase = p, !.bound = b] \in Run
      BY <2>0, <3>2, <3>3
    <3>5. UNCHANGED <<source, Sync!catalogVars, row, docs, unseen>>
      BY <2>4 DEF Sync!ReadBound
    <3> HIDE DEF known
    <3> QED BY <3>1, <3>4, <3>5 DEF Sync!TypeOK
  <2>5. CASE Sync!ReadValues(r)
    <3>1. Sync!Window(r) \subseteq Sync!Values /\ source \subseteq Sync!Values
      BY DEF Sync!TypeOK, Sync!Window
    <3> DEFINE S == IF run[r].mode = "full" THEN source ELSE Sync!Window(r)
    <3>2. S \subseteq Sync!Values /\ "writing" \in Sync!Phases
      BY <3>1 DEF Sync!Phases
    <3>3. run' = [run EXCEPT ![r] = [@ EXCEPT !.phase = "writing", !.todo = S]]
      BY <2>5 DEF Sync!ReadValues
    <3> HIDE DEF S
    <3>4. [run[r] EXCEPT !.phase = "writing", !.todo = S] \in Run
      BY <2>0, <3>2
    <3> QED BY <2>5, <3>3, <3>4 DEF Sync!TypeOK, Sync!ReadValues
  <2>6. CASE Sync!Write(r)
    <3>1. PICK v \in run[r].todo :
            /\ docs' = [docs EXCEPT ![v] = run[r].generation]
            /\ run' = [run EXCEPT ![r].todo = @ \ {v}]
            /\ unseen' = IF Sync!Owns(r) THEN unseen \ {v} ELSE unseen \cup {v}
      BY <2>6 DEF Sync!Write
    <3> QED BY <2>6, <3>1 DEF Sync!TypeOK, Sync!Write
  <2>7. CASE Sync!Written(r)
    <3>1. docs' \in [Sync!Values -> Sync!Generations] /\ unseen' \subseteq Sync!Values
      <4>1. CASE run[r].mode = "full"
        <5> DEFINE S == {v \in Sync!Indexed : docs[v] # run[r].generation}
        <5>1. Sync!Deletes(r, S)
          BY <2>7, <4>1 DEF Sync!Written
        <5>2. S \in SUBSET Sync!Values
          BY DEF Sync!Indexed
        <5> HIDE DEF S
        <5> QED BY <2>2, <5>1, <5>2
      <4>2. CASE run[r].mode # "full"
        BY <2>7, <4>2 DEF Sync!Written, Sync!TypeOK
      <4> QED BY <4>1, <4>2
    <3> QED BY <2>7, <3>1 DEF Sync!TypeOK, Sync!Written, Sync!Phases
  <2>8. Sync!FailedRow(r) \in [status : {"none", "syncing", "failed", "succeeded"},
                          active : SyncRuns \cup {Nobody}, generation : Sync!Generations,
                          cursor : Sync!Values \cup {Sync!Unset}]
    BY DEF Sync!FailedRow, Sync!TypeOK
  <2>9. CASE Sync!Complete(r)
    <3> DEFINE new == [status |-> "succeeded", active |-> Nobody,
                       generation |-> run[r].generation, cursor |-> Sync!Reached(r)]
    <3>1. Sync!Reached(r) \in Sync!Values \cup {Sync!Unset}
      BY <2>0 DEF Sync!Reached
    <3>2. new \in [status : {"none", "syncing", "failed", "succeeded"},
                   active : SyncRuns \cup {Nobody}, generation : Sync!Generations,
                   cursor : Sync!Values \cup {Sync!Unset}]
      BY <2>0, <3>1
    <3>3. row' \in {Sync!FailedRow(r), Sync!NoRow, new}
      BY <2>9 DEF Sync!Complete
    <3>4. "over" \in Sync!Phases
      BY DEF Sync!Phases
    <3> HIDE DEF new
    <3> QED BY <1>0, <2>8, <2>9, <3>2, <3>3, <3>4 DEF Sync!TypeOK, Sync!Complete
  <2>10. CASE Sync!Fail(r)
    <3>1. "over" \in Sync!Phases
      BY DEF Sync!Phases
    <3> QED BY <1>0, <2>8, <2>10, <3>1 DEF Sync!TypeOK, Sync!Fail
  <2>11. CASE Sync!Die(r)
    <3>1. "dead" \in Sync!Phases
      BY DEF Sync!Phases
    <3> QED BY <1>0, <2>11, <3>1 DEF Sync!TypeOK, Sync!Die
  <2> QED BY <1>6, <2>1, <2>3, <2>4, <2>5, <2>6, <2>7, <2>9, <2>10, <2>11 DEF Sync!RunStep
<1> QED BY <1>1, <1>2, <1>3, <1>4, <1>5, <1>6, <1>7, <1>8 DEF Sync!Next, Sync!CatalogStep

LEMMA SyncFacts ==
    ASSUME SyncInv
    PROVE  /\ source \subseteq Sync!Values /\ Sync!Values \subseteq Int /\ Sync!Unset \notin Sync!Values /\ Sync!Unset \in Int
           /\ \A v \in Sync!Values : v > Sync!Unset
           /\ row.cursor \in Sync!Values \cup {Sync!Unset}
           /\ row = [status |-> row.status, active |-> row.active, generation |-> row.generation,
                     cursor |-> row.cursor]
           /\ \A r \in SyncRuns : /\ run[r].bound \in Sync!Values \cup {Sync!Unset}
                                  /\ run[r].mode \in {"full", "incremental", "clear"}
                                  /\ run[r].todo \subseteq Sync!Values
           /\ run = [r \in SyncRuns |-> run[r]] /\ docs = [v \in Sync!Values |-> docs[v]]
           /\ Lookback \in Nat /\ Nobody \notin SyncRuns /\ Sync!Unset \notin SyncRuns
<1> USE MetadataAssumption DEF Sync!SyncAssumption
<1>1. Sync!TypeOK
  BY DEF SyncInv
<1>2. Sync!Values \subseteq Int /\ Sync!Unset \notin Sync!Values /\ Sync!Unset \in Int /\ \A v \in Sync!Values : v > Sync!Unset
  BY DEF Sync!Values, Sync!Unset
<1>3. source \subseteq Sync!Values /\ docs = [v \in Sync!Values |-> docs[v]] /\ run = [r \in SyncRuns |-> run[r]]
  BY <1>1 DEF Sync!TypeOK
<1>4. row.cursor \in Sync!Values \cup {Sync!Unset}
      /\ row = [status |-> row.status, active |-> row.active, generation |-> row.generation,
                cursor |-> row.cursor]
  BY <1>1 DEF Sync!TypeOK
<1>5. \A r \in SyncRuns : /\ run[r].bound \in Sync!Values \cup {Sync!Unset}
                          /\ run[r].mode \in {"full", "incremental", "clear"}
                          /\ run[r].todo \subseteq Sync!Values
  BY <1>1 DEF Sync!TypeOK
<1> QED BY <1>2, <1>3, <1>4, <1>5

(* A step that does not touch what a run relies on: what it changes counts *)
(* as lost.                                                                *)
LEMMA OthersGoOn ==
    ASSUME SyncInv, UNCHANGED <<source, cursored, row>>,
           unseen \subseteq unseen', \A v \in Sync!Values : docs'[v] = docs[v] \/ v \in unseen'
    PROVE  /\ Reliable'
           /\ Accounted \subseteq Accounted'
           /\ \A s \in SyncRuns : run'[s] = run[s] /\ Sync!Owns(s)' /\ Sync!Alive(s)' =>
                                      (Mine(s) /\ Covers(s))'
<1>1. Accounted \subseteq Accounted'
  BY DEF Accounted, Sync!Indexed
<1>2. Reliable'
  BY <1>1 DEF SyncInv, Reliable, Behind
<1>3. ASSUME NEW s \in SyncRuns, run'[s] = run[s], Sync!Owns(s)', Sync!Alive(s)'
      PROVE  (Mine(s) /\ Covers(s))'
  <2>1. Sync!Owns(s) /\ Sync!Alive(s) /\ run'[s] = run[s]
    BY <1>3 DEF Sync!Owns, Sync!Alive
  <2>2. Mine(s) /\ Covers(s)
    BY <2>1 DEF SyncInv, Carried
  <2>3. Mine(s)'
    BY <2>1, <2>2 DEF Mine
  <2>4. \A c : Behind(c)' = Behind(c) /\ Behind(c) \subseteq Sync!Values
    BY SyncFacts DEF Behind
  <2>5. Covers(s)'
    BY <1>1, <2>1, <2>2, <2>4 DEF Covers
  <2> QED BY <2>3, <2>5
<1> QED BY <1>1, <1>2, <1>3

(* Who does not own the row deletes at the price of what is lost, and so   *)
(* does a clear.                                                           *)
LEMMA DeletionsAreLost ==
    ASSUME NEW r \in SyncRuns, NEW S, Sync!Deletes(r, S), ~(Sync!Owns(r) /\ run[r].mode = "full")
    PROVE  unseen \subseteq unseen' /\ \A v \in Sync!Values : docs'[v] = docs[v] \/ v \in unseen'
BY DEF Sync!Deletes, Sync!Indexed

LEMMA EnvironmentKeeps ==
    ASSUME SyncInv,
           Sync!SourceGrows \/ Sync!CatalogStep \/ Sync!Claim \/ Sync!ClaimFails
    PROVE  Reliable' /\ Carried'
<1> USE DEF Sync!catalogVars
<1>1. Reliable /\ Carried
  BY DEF SyncInv
<1>2. CASE Sync!SourceGrows
  <2>1. PICK u \in Sync!Values \ source : /\ \A w \in source : w - u <= Lookback
                                          /\ source' = source \cup {u}
    BY <1>2 DEF Sync!SourceGrows
  <2>2. UNCHANGED <<cursored, row, docs, run, unseen>>
    BY <1>2 DEF Sync!SourceGrows
  <2>3. ASSUME NEW c \in source \cup {Sync!Unset} PROVE Behind(c)' = Behind(c)
    <3>1. ~(u < c - Lookback)
      <4>1. u \in Int /\ c \in Int /\ Lookback \in Int /\ Lookback >= 0 /\ u > Sync!Unset
        BY SyncFacts
      <4>2. CASE c = Sync!Unset
        BY <4>1, <4>2
      <4>3. CASE c \in source
        BY <2>1, <4>1, <4>3
      <4> QED BY <4>2, <4>3
    <3> QED BY <2>1, <3>1 DEF Behind
  <2>4. Accounted' = Accounted
    BY <2>2 DEF Accounted, Sync!Indexed
  <2>5. Reliable'
    <3>1. row.cursor \in source \cup {Sync!Unset}
      BY <1>1 DEF Reliable
    <3> QED BY <1>1, <2>1, <2>2, <2>3, <2>4, <3>1 DEF Reliable
  <2>6. ASSUME NEW s \in SyncRuns, Sync!Owns(s)', Sync!Alive(s)' PROVE (Mine(s) /\ Covers(s))'
    <3>1. Sync!Owns(s) /\ Sync!Alive(s)
      BY <2>2, <2>6 DEF Sync!Owns, Sync!Alive
    <3>2. Mine(s) /\ Covers(s)
      BY <1>1, <3>1 DEF Carried
    <3>3. Mine(s)'
      BY <2>1, <2>2, <3>2 DEF Mine
    <3>4. run[s].bound \in source \cup {Sync!Unset}
      BY <3>2 DEF Mine
    <3>5. Behind(run[s].bound)' = Behind(run[s].bound)
      BY <2>2, <2>3, <3>4 DEF Behind
    <3>6. Covers(s)'
      BY <2>2, <2>4, <3>2, <3>5 DEF Covers
    <3> QED BY <3>3, <3>6
  <2> QED BY <2>5, <2>6 DEF Carried
<1>3. CASE Sync!SetIndexValues \/ Sync!AddColumn \/ Sync!DeletionFails
  <2>1. UNCHANGED <<source, cursored, row, docs, run, unseen>>
    BY <1>3 DEF Sync!SetIndexValues, Sync!AddColumn, Sync!DeletionFails
  <2> QED BY <1>1, <2>1 DEF Reliable, Carried, Mine, Covers, Behind, Accounted, Sync!Indexed,
     Sync!Owns, Sync!Alive
<1>4. CASE Sync!SetCursorColumn \/ Sync!DeleteColumn
  <2>1. row' = Sync!NoRow /\ source' = source
    BY <1>4 DEF Sync!SetCursorColumn, Sync!DeleteColumn
  <2>2. row'.cursor = Sync!Unset /\ row'.active = Nobody
    BY <2>1 DEF Sync!NoRow
  <2>3. Behind(Sync!Unset)' = {}
    BY <2>1, SyncFacts, NothingBehind DEF Behind
  <2>4. Reliable'
    BY <2>2, <2>3 DEF Reliable
  <2> QED BY <2>2, <2>4, SyncFacts DEF Carried, Sync!Owns
<1>5. CASE Sync!Claim \/ Sync!ClaimFails
  <2>1. row'.active = Nobody /\ row'.cursor = row.cursor
    BY <1>5, SyncFacts DEF Sync!Claim, Sync!ClaimFails
  <2>2. UNCHANGED <<source, cursored, docs, unseen>>
    BY <1>5 DEF Sync!Claim, Sync!ClaimFails
  <2>3. Reliable'
    BY <1>1, <2>1, <2>2 DEF Reliable, Behind, Accounted, Sync!Indexed
  <2> QED BY <2>1, <2>3, SyncFacts DEF Carried, Sync!Owns
<1>6. CASE Sync!DeleteDocuments
  <2>1. /\ UNCHANGED <<source, cursored, row, run>>
        /\ docs' = [v \in Sync!Values |-> Sync!Unset] /\ unseen' = unseen \cup Sync!Indexed
    BY <1>6 DEF Sync!DeleteDocuments
  <2>2. unseen \subseteq unseen' /\ \A v \in Sync!Values : docs'[v] = docs[v] \/ v \in unseen'
    BY <2>1 DEF Sync!Indexed
  <2> QED BY <2>1, <2>2, OthersGoOn DEF Carried
<1> QED BY <1>2, <1>3, <1>4, <1>5, <1>6 DEF Sync!CatalogStep

(* A run starts, reads what it is going to do, or ends.                    *)
LEMMA ReadersKeep ==
    ASSUME SyncInv, NEW r \in SyncRuns,
           Sync!Begin(r) \/ Sync!ReadBound(r) \/ Sync!ReadValues(r) \/ Sync!Complete(r) \/ Sync!Fail(r) \/ Sync!Die(r)
    PROVE  Reliable' /\ Carried'
<1> USE DEF Sync!catalogVars
<1>1. Reliable /\ Carried
  BY DEF SyncInv
<1>2. UNCHANGED <<source, cursored, docs, unseen>>
  BY DEF Sync!Begin, Sync!ReadBound, Sync!ReadValues, Sync!Complete, Sync!Fail, Sync!Die
<1>3. Accounted' = Accounted /\ \A c : Behind(c)' = Behind(c)
  BY <1>2 DEF Accounted, Sync!Indexed, Behind
<1>4. \A s \in SyncRuns : s # r => run'[s] = run[s]
  BY SyncFacts DEF Sync!Begin, Sync!ReadBound, Sync!ReadValues, Sync!Complete, Sync!Fail, Sync!Die
<1>5. ASSUME row' = row, Sync!Alive(r)' /\ Sync!Owns(r) => (Mine(r) /\ Covers(r))' PROVE Reliable' /\ Carried'
  <2>1. Reliable' /\ \A s \in SyncRuns : s # r /\ Sync!Owns(s)' /\ Sync!Alive(s)' => (Mine(s) /\ Covers(s))'
    BY <1>2, <1>4, <1>5, OthersGoOn
  <2> QED BY <1>5, <2>1 DEF Carried, Sync!Owns
<1>6. CASE Sync!Begin(r)
  <2>1. PICK mode \in {"full", "incremental", "clear"} :
          /\ run' = [run EXCEPT ![r] =
                      [Sync!NewRun EXCEPT !.phase = "begun", !.mode = mode,
                                     !.generation = IF mode = "full" THEN r ELSE row.generation,
                                     !.cursor = row.cursor, !.cursored = cursored,
                                     !.version = version]]
          /\ mode = "incremental" => row.generation # Sync!Unset
    <3>1. PICK requested \in {"full", "incremental"} :
            LET mode == IF enabled THEN requested ELSE "clear"
            IN  /\ Sync!Possible(requested)
                /\ run' = [run EXCEPT ![r] =
                      [Sync!NewRun EXCEPT !.phase = "begun", !.mode = mode,
                                     !.generation = IF mode = "full" THEN r ELSE row.generation,
                                     !.cursor = row.cursor, !.cursored = cursored,
                                     !.version = version]]
      BY <1>6 DEF Sync!Begin
    <3> QED BY <3>1 DEF Sync!Possible
  <2>2. /\ run'[r].phase = "begun" /\ run'[r].mode = mode /\ run'[r].cursor = row.cursor
        /\ run'[r].generation = (IF mode = "full" THEN r ELSE row.generation)
        /\ run'[r].cursored = cursored /\ run'[r].bound = Sync!Unset
    BY <2>1, SyncFacts DEF Sync!NewRun
  <2>3. row'.active = r /\ row'.cursor = row.cursor
    BY <1>6, SyncFacts DEF Sync!Begin
  <2>4. Reliable'
    BY <1>1, <1>2, <1>3, <2>3 DEF Reliable
  <2>5. Mine(r)' /\ Covers(r)'
    BY <1>2, <2>1, <2>2, <2>3 DEF Mine, Covers
  <2> QED BY <2>3, <2>4, <2>5 DEF Carried, Sync!Owns
<1>7. CASE Sync!ReadBound(r)
  <2> DEFINE known == run[r].cursored /\ source # {}
             b == IF known THEN Sync!Greatest(source) ELSE Sync!Unset
             p == IF ~known /\ run[r].mode = "incremental" THEN "done" ELSE "bounded"
  <2>1. /\ run[r].phase = "begun" /\ run[r].mode # "clear"
        /\ run'[r] = [run[r] EXCEPT !.phase = p, !.bound = b] /\ row' = row
    BY <1>7, SyncFacts DEF Sync!ReadBound
  <2>2. /\ known => b \in source /\ \A v \in source : v <= b
        /\ ~known => b = Sync!Unset
    BY GreatestIs, SyncFacts
  <2>3. p \in {"done", "bounded"} /\ (~known /\ run[r].mode = "incremental" <=> p = "done")
    OBVIOUS
  <2>4. SUFFICES ASSUME Sync!Owns(r) PROVE (Mine(r) /\ Covers(r))'
    BY <1>5, <2>1
  <2>5. Mine(r)
    BY <1>1, <2>1, <2>4 DEF Carried, Sync!Alive
  <2>6. ~known => row.cursor = Sync!Unset
    BY <1>1, <2>5 DEF Reliable, Mine
  <2> HIDE DEF known, b, p
  <2>7. run[r] = [phase |-> run[r].phase, mode |-> run[r].mode,
                  generation |-> run[r].generation, cursor |-> run[r].cursor,
                  cursored |-> run[r].cursored, version |-> run[r].version,
                  bound |-> run[r].bound, todo |-> run[r].todo]
    BY RunsAre DEF SyncInv
  <2>8. /\ run'[r].phase = p /\ run'[r].bound = b /\ run'[r].mode = run[r].mode
        /\ run'[r].generation = run[r].generation /\ run'[r].cursor = run[r].cursor
        /\ run'[r].cursored = run[r].cursored
    BY <2>1, <2>7
  <2>9. b # Sync!Unset => b \in source /\ run[r].cursor <= b /\ cursored
    <3>1. CASE known
      <4>1. b \in Sync!Values /\ b > Sync!Unset
        BY <2>2, <3>1, SyncFacts
      <4>2. row.cursor = Sync!Unset \/ row.cursor \in source
        BY <1>1 DEF Reliable
      <4>3. run[r].cursor = row.cursor
        BY <2>5 DEF Mine
      <4>4. cursored
        BY <2>5, <3>1 DEF Mine, known
      <4>5. row.cursor = Sync!Unset => run[r].cursor <= b
        BY <4>1, <4>3, SyncFacts
      <4> QED BY <2>2, <3>1, <4>2, <4>3, <4>4, <4>5
    <3> QED BY <2>2, <3>1
  <2>10. Mine(r)'
    <3>1. b = Sync!Unset => row.cursor = Sync!Unset
      <4>1. CASE known
        BY <2>2, <4>1, SyncFacts
      <4> QED BY <2>6, <4>1
    <3> QED BY <1>2, <2>1, <2>5, <2>8, <2>9, <3>1 DEF Mine
  <2>11. Covers(r)'
    <3>1. p = "done" => Behind(b) = {}
      BY <2>2, <2>3, NothingBehind, SyncFacts
    <3> QED BY <1>3, <2>3, <2>8, <3>1 DEF Covers
  <2> QED BY <2>10, <2>11
<1>8. CASE Sync!ReadValues(r)
  <2> DEFINE S == IF run[r].mode = "full" THEN source ELSE Sync!Window(r)
  <2>1. /\ run[r].phase = "bounded" /\ row' = row
        /\ run'[r] = [run[r] EXCEPT !.phase = "writing", !.todo = S]
    BY <1>8, SyncFacts DEF Sync!ReadValues
  <2>2. SUFFICES ASSUME Sync!Owns(r) PROVE (Mine(r) /\ Covers(r))'
    BY <1>5, <2>1
  <2>3. Mine(r)
    BY <1>1, <2>1, <2>2 DEF Carried, Sync!Alive
  <2>4. run[r] = [phase |-> run[r].phase, mode |-> run[r].mode,
                  generation |-> run[r].generation, cursor |-> run[r].cursor,
                  cursored |-> run[r].cursored, version |-> run[r].version,
                  bound |-> run[r].bound, todo |-> run[r].todo]
    BY RunsAre DEF SyncInv
  <2>5. /\ run'[r].phase = "writing" /\ run'[r].bound = run[r].bound
        /\ run'[r].mode = run[r].mode /\ run'[r].todo = S
        /\ run'[r].generation = run[r].generation /\ run'[r].cursor = run[r].cursor
        /\ run'[r].cursored = run[r].cursored
    BY <2>1, <2>4
  <2>6. Mine(r)'
    BY <1>2, <2>1, <2>3, <2>5 DEF Mine
  <2>7. ASSUME run[r].mode # "full", NEW v \in Behind(run[r].bound) PROVE v \in S \cup Accounted
    <3>1. v \in source /\ v < run[r].bound - Lookback /\ run[r].cursor = row.cursor
      BY <2>3, <2>7 DEF Behind, Mine
    <3>2. /\ v \in Int /\ run[r].bound \in Int /\ row.cursor \in Int /\ Lookback \in Int
          /\ Lookback >= 0
      BY <3>1, SyncFacts
    <3>3. CASE v < row.cursor - Lookback
      BY <1>1, <3>1, <3>3 DEF Reliable, Behind
    <3>4. CASE row.cursor - Lookback <= v
      <4>1. v <= run[r].bound
        BY <3>1, <3>2
      <4> QED BY <2>7, <3>1, <3>4, <4>1 DEF Sync!Window
    <3> QED BY <3>2, <3>3, <3>4
  <2>8. run[r].mode = "full" => Behind(run[r].bound) \subseteq S
    BY DEF Behind
  <2> HIDE DEF S
  <2>9. Covers(r)'
    BY <1>2, <1>3, <2>5, <2>7, <2>8 DEF Covers
  <2> QED BY <2>6, <2>9
<1>9. ASSUME run'[r].phase \in {"over", "dead"}, row'.active \in {row.active, Nobody},
             row'.cursor = row.cursor
      PROVE  Reliable' /\ Carried'
  <2>1. Reliable'
    BY <1>1, <1>2, <1>3, <1>9 DEF Reliable
  <2>2. ASSUME NEW s \in SyncRuns, Sync!Owns(s)', Sync!Alive(s)' PROVE (Mine(s) /\ Covers(s))'
    <3>1. row.active = s
      BY <1>9, <2>2, SyncFacts DEF Sync!Owns
    <3>2. s # r
      BY <1>9, <2>2 DEF Sync!Alive
    <3>3. run'[s] = run[s] /\ Sync!Owns(s) /\ Sync!Alive(s)
      BY <1>4, <2>2, <3>1, <3>2 DEF Sync!Owns, Sync!Alive
    <3>4. Mine(s) /\ Covers(s)
      BY <1>1, <3>3 DEF Carried
    <3> QED BY <1>2, <1>3, <1>9, <3>3, <3>4 DEF Mine, Covers
  <2> QED BY <2>1, <2>2 DEF Carried
<1>10. Sync!FailedRow(r).active \in {row.active, Nobody} /\ Sync!FailedRow(r).cursor = row.cursor
  BY SyncFacts DEF Sync!FailedRow
<1>11. CASE Sync!Fail(r) \/ Sync!Die(r)
  <2>1. run'[r] = Sync!Ended("over") \/ run'[r] = Sync!Ended("dead")
    BY <1>11, SyncFacts DEF Sync!Fail, Sync!Die
  <2>2. run'[r].phase \in {"over", "dead"}
    BY <2>1 DEF Sync!Ended, Sync!NewRun
  <2> QED BY <1>9, <1>10, <1>11, <2>2 DEF Sync!Fail, Sync!Die
<1>12. CASE Sync!Complete(r)
  <2>1. run'[r] = Sync!Ended("over")
    BY <1>12, SyncFacts DEF Sync!Complete
  <2>2. run'[r].phase \in {"over", "dead"}
    BY <2>1 DEF Sync!Ended, Sync!NewRun
  <2>3. CASE ~Sync!Owns(r) \/ version # run[r].version
    <3>1. row' = Sync!FailedRow(r)
      BY <1>12, <2>3 DEF Sync!Complete
    <3> QED BY <1>9, <1>10, <2>2, <3>1
  <2>4. CASE Sync!Owns(r) /\ version = run[r].version /\ run[r].mode = "clear"
    <3>1. row' = Sync!NoRow
      BY <1>12, <2>4 DEF Sync!Complete
    <3>2. row'.cursor = Sync!Unset /\ row'.active = Nobody
      BY <3>1 DEF Sync!NoRow
    <3>3. Behind(Sync!Unset)' = {}
      BY <1>3, SyncFacts, NothingBehind
    <3>4. Reliable'
      BY <3>2, <3>3 DEF Reliable
    <3> QED BY <3>2, <3>4, SyncFacts DEF Carried, Sync!Owns
  <2>5. CASE Sync!Owns(r) /\ version = run[r].version /\ run[r].mode # "clear"
    <3>1. row'.active = Nobody /\ row'.cursor = Sync!Reached(r) /\ run[r].phase = "done"
      BY <1>12, <2>5 DEF Sync!Complete
    <3>2. Mine(r) /\ Covers(r)
      BY <1>1, <2>5, <3>1 DEF Carried, Sync!Alive
    <3>3. CASE run[r].bound # Sync!Unset
      <4>1. Sync!Reached(r) = run[r].bound /\ run[r].bound \in source
        BY <3>2, <3>3 DEF Sync!Reached, Mine
      <4>2. Behind(run[r].bound) \subseteq Accounted
        BY <2>5, <3>1, <3>2 DEF Covers
      <4>3. cursored
        BY <3>2, <3>3 DEF Mine
      <4> QED BY <1>1, <1>2, <1>3, <3>1, <4>1, <4>2, <4>3, SyncFacts DEF Reliable, Carried,
                 Sync!Owns
    <3>4. CASE run[r].bound = Sync!Unset
      <4>1. Sync!Reached(r) = row.cursor
        BY <3>2, <3>4 DEF Sync!Reached, Mine
      <4> QED BY <1>1, <1>2, <1>3, <3>1, <4>1, SyncFacts DEF Reliable, Carried, Sync!Owns
    <3> QED BY <3>3, <3>4
  <2> QED BY <2>3, <2>4, <2>5
<1> QED BY <1>6, <1>7, <1>8, <1>11, <1>12

(* A run writes and deletes documents.                                     *)
LEMMA WritersKeep ==
    ASSUME SyncInv, NEW r \in SyncRuns, Sync!Clear(r) \/ Sync!Write(r) \/ Sync!Written(r)
    PROVE  Reliable' /\ Carried'
<1> USE DEF Sync!catalogVars
<1>1. Reliable /\ Carried
  BY DEF SyncInv
<1>2. UNCHANGED <<source, cursored, row>>
  BY DEF Sync!Clear, Sync!Write, Sync!Written
<1>3. \A c : Behind(c)' = Behind(c) /\ Behind(c) \subseteq Sync!Values
  BY <1>2, SyncFacts DEF Behind
<1>4. \A s \in SyncRuns : s # r => run'[s] = run[s]
  BY SyncFacts DEF Sync!Clear, Sync!Write, Sync!Written
<1>5. run[r] = [phase |-> run[r].phase, mode |-> run[r].mode,
                generation |-> run[r].generation, cursor |-> run[r].cursor,
                cursored |-> run[r].cursored, version |-> run[r].version,
                bound |-> run[r].bound, todo |-> run[r].todo]
  BY RunsAre DEF SyncInv
<1>6. /\ run'[r].mode = run[r].mode /\ run'[r].generation = run[r].generation
      /\ run'[r].cursor = run[r].cursor /\ run'[r].cursored = run[r].cursored
      /\ run'[r].bound = run[r].bound
      /\ (Sync!Clear(r) \/ Sync!Written(r)) => run'[r].phase = "done"
      /\ Sync!Write(r) => run'[r].phase = run[r].phase
  BY <1>5, SyncFacts DEF Sync!Clear, Sync!Write, Sync!Written
<1>7. Sync!Alive(r)
  BY DEF Sync!Clear, Sync!Write, Sync!Written, Sync!Alive
<1>8. ASSUME Sync!Owns(r) PROVE Mine(r) /\ Covers(r) /\ Mine(r)'
  <2>1. Mine(r) /\ Covers(r)
    BY <1>1, <1>7, <1>8 DEF Carried
  <2>2. run[r].phase # "begun" \/ run[r].mode = "clear"
    BY DEF Sync!Clear, Sync!Write, Sync!Written
  <2>3. run[r].phase = "writing" => run[r].mode # "clear"
    BY <2>1 DEF Mine
  <2>4. run'[r].phase # "done" => run[r].phase = "writing" /\ run'[r].phase = "writing"
    BY <1>6 DEF Sync!Clear, Sync!Write, Sync!Written
  <2>5. Mine(r)'
    BY <1>2, <1>6, <2>1, <2>2, <2>3, <2>4 DEF Mine
  <2> QED BY <2>1, <2>5
<1>9. ASSUME unseen \subseteq unseen', \A v \in Sync!Values : docs'[v] = docs[v] \/ v \in unseen',
             Sync!Owns(r) => (Mine(r) /\ Covers(r))'
      PROVE  Reliable' /\ Carried'
  BY <1>2, <1>4, <1>9, OthersGoOn DEF Carried, Sync!Owns
<1>10. ASSUME Sync!Owns(r), Reliable', (Mine(r) /\ Covers(r))' PROVE Reliable' /\ Carried'
  BY <1>2, <1>10 DEF Carried, Sync!Owns
<1>11. CASE Sync!Clear(r)
  <2>1. unseen \subseteq unseen' /\ \A v \in Sync!Values : docs'[v] = docs[v] \/ v \in unseen'
    BY <1>11, DeletionsAreLost DEF Sync!Clear
  <2>2. run'[r].mode = "clear" /\ run'[r].phase = "done"
    BY <1>6, <1>11 DEF Sync!Clear
  <2>3. Covers(r)'
    BY <2>2 DEF Covers
  <2> QED BY <1>8, <1>9, <2>1, <2>3
<1>12. CASE Sync!Write(r)
  <2>1. PICK v \in run[r].todo :
          /\ docs' = [docs EXCEPT ![v] = run[r].generation]
          /\ run' = [run EXCEPT ![r].todo = @ \ {v}]
          /\ unseen' = IF Sync!Owns(r) THEN unseen \ {v} ELSE unseen \cup {v}
    BY <1>12 DEF Sync!Write
  <2>2. /\ run'[r].todo = run[r].todo \ {v} /\ v \in Sync!Values
        /\ docs'[v] = run[r].generation /\ \A u \in Sync!Values : u # v => docs'[u] = docs[u]
    BY <1>5, <2>1, SyncFacts
  <2>3. CASE ~Sync!Owns(r)
    BY <1>9, <2>1, <2>2, <2>3
  <2>4. CASE Sync!Owns(r)
    <3>1. Mine(r) /\ Covers(r) /\ Mine(r)' /\ run[r].phase = "writing"
      BY <1>8, <1>12, <2>4 DEF Sync!Write
    <3>2. run[r].generation # Sync!Unset
      BY <3>1, SyncFacts DEF Mine
    <3>3. Accounted \subseteq Accounted'
      BY <2>1, <2>2, <2>4, <3>2 DEF Accounted, Sync!Indexed
    <3>4. v \in Accounted'
      BY <2>2, <3>2 DEF Accounted, Sync!Indexed
    <3>5. Reliable'
      BY <1>1, <1>2, <1>3, <3>3 DEF Reliable
    <3>6. Covers(r)'
      <4>1. CASE run[r].mode = "full"
        <5>1. ASSUME NEW u \in Behind(run[r].bound)
              PROVE  u \in run'[r].todo \/ docs'[u] = run[r].generation \/ u \in unseen'
          <6>1. u \in run[r].todo \/ docs[u] = run[r].generation \/ u \in unseen
            BY <3>1, <4>1 DEF Covers
          <6> QED BY <1>3, <2>1, <2>2, <2>4, <6>1
        <5> QED BY <1>3, <1>6, <1>12, <3>1, <4>1, <5>1 DEF Covers
      <4>2. CASE run[r].mode # "full"
        <5>1. Behind(run[r].bound) \subseteq run[r].todo \cup Accounted
          BY <3>1, <4>2 DEF Covers
        <5>2. Behind(run[r].bound) \subseteq run'[r].todo \cup Accounted'
          BY <2>2, <3>3, <3>4, <5>1
        <5> QED BY <1>3, <1>6, <1>12, <3>1, <4>2, <5>2 DEF Covers
      <4> QED BY <4>1, <4>2
    <3> QED BY <1>10, <2>4, <3>1, <3>5, <3>6
  <2> QED BY <2>3, <2>4
<1>13. CASE Sync!Written(r)
  <2>0. run[r].phase = "writing" /\ run[r].todo = {} /\ run'[r].phase = "done"
    BY <1>6, <1>13 DEF Sync!Written
  <2>1. CASE run[r].mode # "full"
    <3>1. docs' = docs /\ unseen' = unseen
      BY <1>13, <2>1 DEF Sync!Written
    <3>2. Accounted' = Accounted
      BY <3>1 DEF Accounted, Sync!Indexed
    <3>3. Sync!Owns(r) => Covers(r)'
      BY <1>3, <1>6, <1>8, <2>0, <2>1, <3>2 DEF Covers
    <3> QED BY <1>8, <1>9, <3>1, <3>3
  <2>2. CASE run[r].mode = "full" /\ ~Sync!Owns(r)
    <3>1. Sync!Deletes(r, {v \in Sync!Indexed : docs[v] # run[r].generation})
      BY <1>13, <2>2 DEF Sync!Written
    <3>2. unseen \subseteq unseen' /\ \A v \in Sync!Values : docs'[v] = docs[v] \/ v \in unseen'
      BY <2>2, <3>1, DeletionsAreLost
    <3> QED BY <1>9, <2>2, <3>2
  <2>3. CASE run[r].mode = "full" /\ Sync!Owns(r)
    <3>1. Sync!Deletes(r, {v \in Sync!Indexed : docs[v] # run[r].generation})
      BY <1>13, <2>3 DEF Sync!Written
    <3>2. /\ unseen' = unseen
          /\ \A v \in Sync!Values : docs[v] = run[r].generation => docs'[v] = docs[v]
      BY <2>3, <3>1 DEF Sync!Deletes
    <3>3. Mine(r) /\ Covers(r) /\ Mine(r)'
      BY <1>8, <2>3
    <3>4. run[r].generation # Sync!Unset
      BY <2>3, <3>3, SyncFacts DEF Mine
    <3>5. Behind(run[r].bound) \subseteq Accounted'
      <4> SUFFICES ASSUME NEW v \in Behind(run[r].bound) PROVE v \in Accounted'
        OBVIOUS
      <4>1. docs[v] = run[r].generation \/ v \in unseen
        BY <2>0, <2>3, <3>3 DEF Covers
      <4> QED BY <1>3, <3>2, <3>4, <4>1 DEF Accounted, Sync!Indexed
    <3>6. Reliable'
      <4>1. CASE run[r].bound = Sync!Unset
        <5>1. row.cursor = Sync!Unset
          BY <2>0, <2>3, <3>3, <4>1 DEF Mine
        <5>2. Behind(row.cursor)' = {}
          BY <1>2, <1>3, <5>1, NothingBehind, SyncFacts
        <5> QED BY <1>1, <1>2, <5>2 DEF Reliable
      <4>2. CASE run[r].bound # Sync!Unset
        <5>1. row.cursor <= run[r].bound
          BY <3>3, <4>2 DEF Mine
        <5>2. Behind(row.cursor) \subseteq Behind(run[r].bound)
          <6> SUFFICES ASSUME NEW v \in source, v < row.cursor - Lookback
                       PROVE  v < run[r].bound - Lookback
            BY DEF Behind
          <6>1. /\ v \in Int /\ row.cursor \in Int /\ run[r].bound \in Int /\ Lookback \in Int
            BY SyncFacts
          <6> QED BY <5>1, <6>1
        <5>3. Behind(row.cursor)' \subseteq Accounted'
          BY <1>2, <1>3, <3>5, <5>2 DEF Behind
        <5> QED BY <1>1, <1>2, <5>3 DEF Reliable
      <4> QED BY <4>1, <4>2
    <3>7. Covers(r)'
      BY <1>3, <1>6, <2>0, <3>5 DEF Covers
    <3> QED BY <1>10, <2>3, <3>3, <3>6, <3>7
  <2> QED BY <2>1, <2>2, <2>3
<1> QED BY <1>11, <1>12, <1>13

LEMMA SyncStep == SyncInv /\ [Sync!Next]_(Sync!vars) => SyncInv'
<1> SUFFICES ASSUME SyncInv, [Sync!Next]_(Sync!vars) PROVE SyncInv'
  OBVIOUS
<1>1. Sync!TypeOK'
  BY SyncTypes DEF SyncInv
<1>2. CASE UNCHANGED Sync!vars
  BY <1>1, <1>2 DEF Sync!vars, Sync!catalogVars, SyncInv, Reliable, Carried, Mine, Covers, Behind, Accounted,
     Sync!Indexed, Sync!Owns, Sync!Alive
<1>3. CASE Sync!SourceGrows \/ Sync!CatalogStep \/ Sync!Claim \/ Sync!ClaimFails
  BY <1>1, <1>3, EnvironmentKeeps DEF SyncInv
<1>4. ASSUME NEW r \in SyncRuns, Sync!RunStep(r) PROVE SyncInv'
  BY <1>1, <1>4, ReadersKeep, WritersKeep DEF SyncInv, Sync!RunStep
<1> QED BY <1>2, <1>3, <1>4 DEF Sync!Next

(* What a committed cursor promises.                                       *)
LEMMA CommittedIsIndexed == SyncInv => Sync!CommittedValuesAreIndexed
BY DEF SyncInv, Reliable, Behind, Accounted, Sync!CommittedValuesAreIndexed

-----------------------------------------------------------------------------
(* Recalled metadata: what a policy leaves, merges, deletions, changes.    *)

LEMMA RecallsCardinality == \A S : Recalls!Cardinality(S) = Cardinality(S)
BY DEF Recalls!Cardinality, Cardinality

LEMMA RecallsFinite == \A S : Recalls!IsFiniteSet(S) <=> IsFiniteSet(S)
BY DEF Recalls!IsFiniteSet, IsFiniteSet

LEMMA ResponseFields ==
    ASSUME NEW r \in Recalls!Responses
    PROVE  /\ r.columns \in [Columns -> Recalls!Versions] /\ r.tables \in [Tables -> Recalls!Versions]
           /\ r.metrics \in [Metrics -> Recalls!Versions] /\ r.shown \subseteq Columns
           /\ r.keys \subseteq Columns /\ r.values \subseteq KnownValues /\ r.failures \subseteq Failures
BY DEF Recalls!Responses

LEMMA VersionsAre == \A v : v \in Recalls!Versions <=> v \in Nat /\ v <= MaxCatalogs
BY RecallAssumption DEF Recalls!Versions, Recalls!ContextAssumption, Recalls!ResourcesAssumption

LEMMA KeptIs ==
    ASSUME NEW D, NEW items \in [D -> Recalls!Versions], NEW kept
    PROVE  /\ Recalls!Kept(items, kept) \in [D -> Recalls!Versions]
           /\ Recalls!In(Recalls!Kept(items, kept)) = Recalls!In(items) \cap kept
           /\ Recalls!In(items) \subseteq D
<1>1. 0 \in Recalls!Versions
  BY VersionsAre, RecallAssumption DEF Recalls!ContextAssumption, Recalls!ResourcesAssumption
<1> QED BY <1>1, VersionsAre DEF Recalls!Kept, Recalls!In

LEMMA AllowedAre ==
    ASSUME NEW p \in Rights
    PROVE  /\ Recalls!AllowedColumns(p) \subseteq Columns
           /\ \A c \in Recalls!AllowedColumns(p) : TableOf[c] \in Recalls!VisibleTables(p)
BY RecallAssumption DEF Recalls!ContextAssumption, Recalls!ResourcesAssumption, Recalls!Policies,
   Recalls!AllowedColumns, Recalls!VisibleTables

(* What a policy leaves of a response is a response that it allows.        *)
LEMMA FilteredIs ==
    ASSUME NEW p \in Rights, NEW r \in Recalls!Responses
    PROVE  /\ Recalls!Filtered(p, r) \in Recalls!Responses
           /\ Recalls!Authorized(p, Recalls!Filtered(p, r))
           /\ Recalls!Closed(r) => Recalls!Closed(Recalls!Filtered(p, r))
<1> DEFINE f == Recalls!Filtered(p, r)
           allowed == Recalls!AllowedColumns(p)
<1>0. f = [columns |-> Recalls!Kept(r.columns, allowed),
           shown |-> {c \in r.shown \cap allowed : Reference[c] \in allowed},
           tables |-> Recalls!Kept(r.tables, Recalls!VisibleTables(p)),
           keys |-> {c \in r.keys \cap allowed : TableOf[c] \in Recalls!VisibleTables(p)},
           metrics |-> Recalls!Kept(r.metrics, Recalls!AllowedMetrics(p)),
           values |-> {v \in r.values : ColumnOf[v] \in allowed}, failures |-> r.failures]
  <2>1. /\ f = [r EXCEPT !.columns = Recalls!Kept(r.columns, allowed),
                         !.shown = {c \in r.shown \cap allowed : Reference[c] \in allowed},
                         !.tables = Recalls!Kept(r.tables, Recalls!VisibleTables(p)),
                         !.keys = {c \in r.keys \cap allowed : TableOf[c] \in Recalls!VisibleTables(p)},
                         !.metrics = Recalls!Kept(r.metrics, Recalls!AllowedMetrics(p)),
                         !.values = {v \in r.values : ColumnOf[v] \in allowed}]
    BY Zenon DEF Recalls!Filtered
  <2>2. r = [columns |-> r.columns, shown |-> r.shown, tables |-> r.tables, keys |-> r.keys,
             metrics |-> r.metrics, values |-> r.values, failures |-> r.failures]
    BY DEF Recalls!Responses
  <2> DEFINE s == {c \in r.shown \cap allowed : Reference[c] \in allowed}
             k == {c \in r.keys \cap allowed : TableOf[c] \in Recalls!VisibleTables(p)}
             v == {x \in r.values : ColumnOf[x] \in allowed}
  <2> HIDE DEF f, allowed, s, k, v
  <2>3. f = [r EXCEPT !.columns = Recalls!Kept(r.columns, allowed), !.shown = s,
                      !.tables = Recalls!Kept(r.tables, Recalls!VisibleTables(p)), !.keys = k,
                      !.metrics = Recalls!Kept(r.metrics, Recalls!AllowedMetrics(p)), !.values = v]
    BY <2>1, Zenon DEF s, k, v
  <2>4. f = [columns |-> Recalls!Kept(r.columns, allowed), shown |-> s,
             tables |-> Recalls!Kept(r.tables, Recalls!VisibleTables(p)), keys |-> k,
             metrics |-> Recalls!Kept(r.metrics, Recalls!AllowedMetrics(p)), values |-> v,
             failures |-> r.failures]
    BY <2>2, <2>3
  <2> QED BY <2>4, Zenon DEF s, k, v
<1>1. /\ f.columns = Recalls!Kept(r.columns, allowed)
      /\ f.shown = {c \in r.shown \cap allowed : Reference[c] \in allowed}
      /\ f.tables = Recalls!Kept(r.tables, Recalls!VisibleTables(p))
      /\ f.keys = {c \in r.keys \cap allowed : TableOf[c] \in Recalls!VisibleTables(p)}
      /\ f.metrics = Recalls!Kept(r.metrics, Recalls!AllowedMetrics(p))
      /\ f.values = {v \in r.values : ColumnOf[v] \in allowed}
      /\ f.failures = r.failures
      /\ f = [columns |-> f.columns, shown |-> f.shown, tables |-> f.tables, keys |-> f.keys,
              metrics |-> f.metrics, values |-> f.values, failures |-> f.failures]
  <2> HIDE DEF f, allowed
  <2> QED BY <1>0
<1>2. /\ f.columns \in [Columns -> Recalls!Versions] /\ Recalls!In(f.columns) = Recalls!In(r.columns) \cap allowed
      /\ f.tables \in [Tables -> Recalls!Versions] /\ Recalls!In(f.tables) = Recalls!In(r.tables) \cap Recalls!VisibleTables(p)
      /\ f.metrics \in [Metrics -> Recalls!Versions] /\ Recalls!In(f.metrics) = Recalls!In(r.metrics) \cap Recalls!AllowedMetrics(p)
  <2> HIDE DEF f
  <2> QED BY <1>1, KeptIs, ResponseFields
<1> HIDE DEF f
<1>3. f \in Recalls!Responses
  <2>1. f.shown \subseteq Columns /\ f.keys \subseteq Columns /\ f.values \subseteq KnownValues /\ f.failures \subseteq Failures
    BY <1>1, ResponseFields
  <2> QED BY <1>1, <1>2, <2>1 DEF Recalls!Responses
<1>4. Recalls!Authorized(p, f)
  <2>1. \A m \in Recalls!AllowedMetrics(p) : Needs[m] \subseteq allowed /\ (Needs[m] = {} => p.database)
    BY DEF Recalls!AllowedMetrics
  <2> QED BY <1>1, <1>2, <2>1 DEF Recalls!Authorized
<1>5. ASSUME Recalls!Closed(r) PROVE Recalls!Closed(f)
  <2>1. \A c \in Recalls!In(f.columns) : TableOf[c] \in Recalls!In(f.tables)
    BY <1>2, <1>5, AllowedAre DEF Recalls!Closed, Recalls!TablesOf
  <2>2. \A v \in f.values : ColumnOf[v] \in Recalls!In(f.columns)
    BY <1>1, <1>2, <1>5 DEF Recalls!Closed
  <2>3. f.keys \subseteq Recalls!In(f.columns) /\ f.shown \subseteq Recalls!In(f.columns)
    BY <1>1, <1>2, <1>5 DEF Recalls!Closed
  <2> QED BY <2>1, <2>2, <2>3 DEF Recalls!Closed, Recalls!TablesOf
<1> QED BY <1>3, <1>4, <1>5 DEF f

LEMMA NewerIs ==
    ASSUME NEW D, NEW a \in [D -> Recalls!Versions], NEW b \in [D -> Recalls!Versions]
    PROVE  /\ Recalls!Newer(a, b) \in [D -> Recalls!Versions]
           /\ Recalls!In(Recalls!Newer(a, b)) = Recalls!In(a) \cup Recalls!In(b)
<1>1. \A i \in D : a[i] \in Nat /\ b[i] \in Nat /\ Recalls!Newer(a, b)[i] = IF b[i] > a[i] THEN b[i] ELSE a[i]
  BY VersionsAre DEF Recalls!Newer
<1>2. Recalls!Newer(a, b) \in [D -> Recalls!Versions]
  BY DEF Recalls!Newer
<1> QED BY <1>1, <1>2 DEF Recalls!In

(* Two responses merged name what either of them names.                    *)
LEMMA MergedIs ==
    ASSUME NEW a \in Recalls!Responses, NEW b \in Recalls!Responses,
           NEW refreshed \in SUBSET Failures, NEW higher
    PROVE  /\ Recalls!Merged(a, b, refreshed, higher) \in Recalls!Responses
           /\ \A p : Recalls!Authorized(p, a) /\ Recalls!Authorized(p, b) => Recalls!Authorized(p, Recalls!Merged(a, b, refreshed, higher))
           /\ Recalls!Closed(a) /\ Recalls!Closed(b) => Recalls!Closed(Recalls!Merged(a, b, refreshed, higher))
<1> DEFINE m == Recalls!Merged(a, b, refreshed, higher)
           taken == Recalls!Taken(a.columns, b.columns, higher)
           newer == Recalls!Taken(a.tables, b.tables, {})
<1>1. /\ m.columns = Recalls!Newer(a.columns, b.columns)
      /\ m.shown \subseteq a.shown \cup b.shown
      /\ m.tables = Recalls!Newer(a.tables, b.tables)
      /\ m.keys \subseteq a.keys \cup b.keys
      /\ m.metrics = Recalls!Newer(a.metrics, b.metrics)
      /\ m.values = a.values \cup b.values
      /\ m.failures \subseteq a.failures \cup b.failures
      /\ m = [columns |-> m.columns, shown |-> m.shown, tables |-> m.tables, keys |-> m.keys,
              metrics |-> m.metrics, values |-> m.values, failures |-> m.failures]
  BY DEF Recalls!Merged
<1>2. /\ m.columns \in [Columns -> Recalls!Versions] /\ Recalls!In(m.columns) = Recalls!In(a.columns) \cup Recalls!In(b.columns)
      /\ m.tables \in [Tables -> Recalls!Versions] /\ Recalls!In(m.tables) = Recalls!In(a.tables) \cup Recalls!In(b.tables)
      /\ m.metrics \in [Metrics -> Recalls!Versions] /\ Recalls!In(m.metrics) = Recalls!In(a.metrics) \cup Recalls!In(b.metrics)
  <2> HIDE DEF m
  <2> QED BY <1>1, NewerIs, ResponseFields
<1> HIDE DEF m
<1>3. m \in Recalls!Responses
  <2>1. m.shown \subseteq Columns /\ m.keys \subseteq Columns /\ m.values \subseteq KnownValues /\ m.failures \subseteq Failures
    BY <1>1, ResponseFields
  <2> QED BY <1>1, <1>2, <2>1 DEF Recalls!Responses
<1>4. ASSUME NEW p, Recalls!Authorized(p, a), Recalls!Authorized(p, b) PROVE Recalls!Authorized(p, m)
  BY <1>1, <1>2, <1>4 DEF Recalls!Authorized
<1>5. ASSUME Recalls!Closed(a), Recalls!Closed(b) PROVE Recalls!Closed(m)
  <2>1. \A c \in Recalls!In(m.columns) : TableOf[c] \in Recalls!In(m.tables)
    BY <1>2, <1>5 DEF Recalls!Closed, Recalls!TablesOf
  <2>2. \A v \in m.values : ColumnOf[v] \in Recalls!In(m.columns)
    BY <1>1, <1>2, <1>5 DEF Recalls!Closed
  <2>3. m.keys \subseteq Recalls!In(m.columns) /\ m.shown \subseteq Recalls!In(m.columns)
    BY <1>1, <1>2, <1>5 DEF Recalls!Closed
  <2> QED BY <2>1, <2>2, <2>3 DEF Recalls!Closed, Recalls!TablesOf
<1> QED BY <1>3, <1>4, <1>5 DEF m

(* What a deletion leaves.                                                 *)
LEMMA WithoutIs ==
    ASSUME NEW r \in Recalls!Responses, Recalls!Closed(r), NEW cut
    PROVE  Recalls!Without(r, cut) \in Recalls!Responses /\ Recalls!Closed(Recalls!Without(r, cut))
<1> DEFINE w == Recalls!Without(r, cut)
           left == {c \in Recalls!In(r.columns) : TableOf[c] \notin cut.tables /\ c \notin cut.columns}
           needed == {m \in Metrics \ cut.metrics : Needs[m] \subseteq left}
<1>1. /\ w.columns = Recalls!Kept(r.columns, left)
      /\ w.shown = {c \in r.shown \cap left : Reference[c] \in left}
      /\ w.tables = Recalls!Kept(r.tables, Recalls!TablesOf(left))
      /\ w.keys = r.keys \cap left
      /\ w.metrics = Recalls!Kept(r.metrics, needed)
      /\ w.values = {v \in r.values \ cut.values : ColumnOf[v] \in left}
      /\ w.failures = r.failures
      /\ w = [columns |-> w.columns, shown |-> w.shown, tables |-> w.tables, keys |-> w.keys,
              metrics |-> w.metrics, values |-> w.values, failures |-> w.failures]
  BY DEF Recalls!Without
<1>2. /\ w.columns \in [Columns -> Recalls!Versions] /\ Recalls!In(w.columns) = left
      /\ w.tables \in [Tables -> Recalls!Versions] /\ Recalls!In(w.tables) = Recalls!In(r.tables) \cap Recalls!TablesOf(left)
      /\ w.metrics \in [Metrics -> Recalls!Versions]
  <2>1. Recalls!In(r.columns) \cap left = left
    OBVIOUS
  <2> HIDE DEF w, left, needed
  <2>2. r.columns \in [Columns -> Recalls!Versions] /\ r.tables \in [Tables -> Recalls!Versions]
        /\ r.metrics \in [Metrics -> Recalls!Versions]
    BY ResponseFields
  <2>3. w.columns \in [Columns -> Recalls!Versions] /\ Recalls!In(w.columns) = Recalls!In(r.columns) \cap left
    BY <1>1, <2>2, KeptIs
  <2>4. w.tables \in [Tables -> Recalls!Versions] /\ Recalls!In(w.tables) = Recalls!In(r.tables) \cap Recalls!TablesOf(left)
    BY <1>1, <2>2, KeptIs
  <2>5. w.metrics \in [Metrics -> Recalls!Versions]
    BY <1>1, <2>2, KeptIs
  <2> QED BY <2>1, <2>3, <2>4, <2>5
<1>3. \A c \in left : TableOf[c] \in Recalls!In(r.tables)
  BY DEF Recalls!Closed, Recalls!TablesOf
<1> HIDE DEF w, left, needed
<1>4. w \in Recalls!Responses
  <2>1. w.shown \subseteq Columns /\ w.keys \subseteq Columns /\ w.values \subseteq KnownValues /\ w.failures \subseteq Failures
    BY <1>1, ResponseFields
  <2> QED BY <1>1, <1>2, <2>1 DEF Recalls!Responses
<1>5. Recalls!Closed(w)
  <2>1. \A c \in Recalls!In(w.columns) : TableOf[c] \in Recalls!In(w.tables)
    BY <1>2, <1>3 DEF Recalls!TablesOf
  <2>2. \A v \in w.values : ColumnOf[v] \in Recalls!In(w.columns)
    BY <1>1, <1>2
  <2>3. w.keys \subseteq Recalls!In(w.columns) /\ w.shown \subseteq Recalls!In(w.columns)
    BY <1>1, <1>2
  <2> QED BY <2>1, <2>2, <2>3 DEF Recalls!Closed, Recalls!TablesOf
<1> QED BY <1>4, <1>5 DEF w

(* The context of allowed columns is allowed, and has the keys of its      *)
(* tables.                                                                 *)
LEMMA ContextIs ==
    ASSUME NEW p \in Rights, NEW wanted, wanted \subseteq Recalls!AllowedColumns(p)
    PROVE  LET cols == Recalls!InContext(Recalls!AllowedColumns(p), wanted)
           IN  /\ wanted \subseteq cols /\ cols \subseteq Recalls!AllowedColumns(p)
               /\ \A c \in KeyColumns \cap Recalls!AllowedColumns(p) : TableOf[c] \in Recalls!TablesOf(cols) => c \in cols
<1> DEFINE allowed == Recalls!AllowedColumns(p)
           near == Recalls!WithReferences(allowed, wanted)
           cols == Recalls!InContext(allowed, wanted)
<1>1. wanted \subseteq near /\ near \subseteq allowed
  BY DEF Recalls!WithReferences
<1>2. cols = near \cup {c \in KeyColumns \cap allowed : TableOf[c] \in Recalls!TablesOf(near)}
  BY DEF Recalls!InContext, Recalls!WithKeys
<1>3. \A t : t \in Recalls!TablesOf(cols) => t \in Recalls!TablesOf(near)
  BY <1>2 DEF Recalls!TablesOf
<1> QED BY <1>1, <1>2, <1>3

LEMMA ResponseIs ==
    ASSUME NEW p \in Rights, NEW n \in 1 .. MaxCatalogs, NEW cols,
           cols \subseteq Recalls!AllowedColumns(p),
           \A c \in KeyColumns \cap Recalls!AllowedColumns(p) : TableOf[c] \in Recalls!TablesOf(cols) => c \in cols,
           NEW metrics, NEW values \in SUBSET KnownValues, \A v \in values : ColumnOf[v] \in cols,
           NEW failing \in SUBSET Failures
    PROVE  /\ Recalls!Response(p, n, cols, metrics, values, failing) \in Recalls!Responses
           /\ Recalls!Closed(Recalls!Response(p, n, cols, metrics, values, failing))
<1> DEFINE r == Recalls!Response(p, n, cols, metrics, values, failing)
           allowed == Recalls!AllowedColumns(p)
<1>1. /\ r.columns = [c \in Columns |-> IF c \in cols THEN n ELSE 0]
      /\ r.shown = {c \in cols : Reference[c] \in allowed}
      /\ r.tables = [t \in Tables |-> IF t \in Recalls!TablesOf(cols) \cap Recalls!VisibleTables(p) THEN n ELSE 0]
      /\ r.keys = {c \in KeyColumns \cap allowed : TableOf[c] \in Recalls!TablesOf(cols)}
      /\ r.metrics = [m \in Metrics |-> IF m \in metrics THEN n ELSE 0]
      /\ r.values = values /\ r.failures = failing
      /\ r = [columns |-> r.columns, shown |-> r.shown, tables |-> r.tables, keys |-> r.keys,
              metrics |-> r.metrics, values |-> r.values, failures |-> r.failures]
  BY DEF Recalls!Response
<1>2. n \in Recalls!Versions /\ 0 \in Recalls!Versions /\ n > 0
  <2>1. MaxCatalogs \in Nat
    BY RecallAssumption DEF Recalls!ContextAssumption, Recalls!ResourcesAssumption
  <2> QED BY <2>1 DEF Recalls!Versions
<1>3. cols \subseteq Columns /\ allowed \subseteq Columns
  BY AllowedAre
<1>4. \A c \in cols : TableOf[c] \in Tables /\ TableOf[c] \in Recalls!VisibleTables(p) /\ TableOf[c] \in Recalls!TablesOf(cols)
  BY <1>3, AllowedAre, RecallAssumption DEF Recalls!ContextAssumption, Recalls!ResourcesAssumption,
     Recalls!TablesOf
<1> HIDE DEF r
<1>5. Recalls!In(r.columns) = cols
  BY <1>1, <1>2, <1>3 DEF Recalls!In
<1>6. \A c \in cols : TableOf[c] \in Recalls!In(r.tables)
  BY <1>1, <1>2, <1>4 DEF Recalls!In
<1>7. r \in Recalls!Responses
  <2>1. r.columns \in [Columns -> Recalls!Versions] /\ r.tables \in [Tables -> Recalls!Versions]
        /\ r.metrics \in [Metrics -> Recalls!Versions]
    BY <1>1, <1>2
  <2>2. r.shown \subseteq Columns /\ r.keys \subseteq Columns
    BY <1>1, <1>3
  <2> QED BY <1>1, <2>1, <2>2 DEF Recalls!Responses
<1>8. Recalls!Closed(r)
  <2>1. r.keys \subseteq cols /\ r.shown \subseteq cols
    BY <1>1
  <2> QED BY <1>1, <1>5, <1>6, <2>1 DEF Recalls!Closed, Recalls!TablesOf
<1> QED BY <1>7, <1>8 DEF r

-----------------------------------------------------------------------------
(* What a tool tells of the changes.                                       *)

OneEach(items) == \A i, j \in items : i[1] = j[1] => i = j

LEMMA NamesAre ==
    ASSUME NEW items, NEW x PROVE x \in Recalls!Names(items) <=> \E i \in items : i[1] = x
BY DEF Recalls!Names

(* Items replaced by those that are new, less some that are gone.          *)
LEMMA ReplacedIs ==
    ASSUME NEW old, NEW new, OneEach(old), OneEach(new), NEW less,
           \A x \in less : x \notin Recalls!Names(new), NEW i
    PROVE  i \in {k \in old : k[1] \notin Recalls!Names(new \ old) \cup less} \cup (new \ old)
           <=> i \in new \/ (i \in old /\ i[1] \notin Recalls!Names(new) /\ i[1] \notin less)
<1>1. ASSUME i \in old, i \in new
      PROVE i[1] \notin Recalls!Names(new \ old) /\ i[1] \notin less
  <2>1. i[1] \in Recalls!Names(new)
    BY <1>1, NamesAre
  <2>2. ASSUME NEW j \in new \ old, j[1] = i[1] PROVE FALSE
    BY <1>1, <2>2 DEF OneEach
  <2> QED BY <2>1, <2>2, NamesAre
<1>2. ASSUME i \in old, i \notin new, i[1] \in Recalls!Names(new) PROVE i[1] \in Recalls!Names(new \ old)
  <2>1. PICK j \in new : j[1] = i[1]
    BY <1>2, NamesAre
  <2>2. j \notin old
    BY <1>2, <2>1 DEF OneEach
  <2> QED BY <2>1, <2>2, NamesAre
<1>3. i[1] \in Recalls!Names(new \ old) => i[1] \in Recalls!Names(new)
  BY NamesAre
<1> QED BY <1>1, <1>2, <1>3

Known(view) ==
    /\ OneEach(view.tables) /\ OneEach(view.columns) /\ OneEach(view.metrics)
    /\ \A c \in Recalls!Names(view.columns) : TableOf[c] \in Recalls!Names(view.tables)
    /\ \A v \in view.values : ColumnOf[v] \in Recalls!Names(view.columns)

LEMMA ViewIs ==
    ASSUME NEW s, s.response \in Recalls!Responses
    PROVE  /\ Known(Recalls!View(s))
           /\ Recalls!View(s) = [tables |-> Recalls!View(s).tables, columns |-> Recalls!View(s).columns,
                         values |-> Recalls!View(s).values, metrics |-> Recalls!View(s).metrics,
                         experiences |-> Recalls!View(s).experiences]
<1> DEFINE r == s.response
           told == {c \in Recalls!In(r.columns) : TableOf[c] \in Recalls!In(r.tables)}
           V == Recalls!View(s)
<1>1. /\ V.tables = {<<t, r.tables[t], {k \in r.keys : TableOf[k] = t}>> : t \in Recalls!In(r.tables)}
      /\ V.columns = {<<c, r.columns[c], c \in r.shown>> : c \in told}
      /\ V.values = {v \in r.values : ColumnOf[v] \in told}
      /\ V.metrics = {<<m, r.metrics[m]>> : m \in Recalls!In(r.metrics)}
  BY DEF Recalls!View
<1>2. V = [tables |-> V.tables, columns |-> V.columns, values |-> V.values,
           metrics |-> V.metrics, experiences |-> V.experiences]
  BY DEF Recalls!View
<1> HIDE DEF V
<1>3. /\ \A t : t \in Recalls!Names(V.tables) <=> t \in Recalls!In(r.tables)
      /\ \A c : c \in Recalls!Names(V.columns) <=> c \in told
  <2> DEFINE entryOf(t) == <<t, r.tables[t], {k \in r.keys : TableOf[k] = t}>>
             field(c) == <<c, r.columns[c], c \in r.shown>>
  <2>0. /\ V.tables = {entryOf(t) : t \in Recalls!In(r.tables)} /\ \A t : entryOf(t)[1] = t
        /\ V.columns = {field(c) : c \in told} /\ \A c : field(c)[1] = c
    BY <1>1
  <2> HIDE DEF told, r, entryOf, field
  <2>1. ASSUME NEW t PROVE t \in Recalls!Names(V.tables) <=> t \in Recalls!In(r.tables)
    BY <2>0, NamesAre
  <2>2. ASSUME NEW c PROVE c \in Recalls!Names(V.columns) <=> c \in told
    BY <2>0, NamesAre
  <2> QED BY <2>1, <2>2
<1>4. OneEach(V.tables) /\ OneEach(V.columns) /\ OneEach(V.metrics)
  <2> DEFINE entryOf(t) == <<t, r.tables[t], {k \in r.keys : TableOf[k] = t}>>
             field(c) == <<c, r.columns[c], c \in r.shown>>
             figure(m) == <<m, r.metrics[m]>>
  <2>0. /\ V.tables = {entryOf(t) : t \in Recalls!In(r.tables)} /\ \A t : entryOf(t)[1] = t
        /\ V.columns = {field(c) : c \in told} /\ \A c : field(c)[1] = c
        /\ V.metrics = {figure(m) : m \in Recalls!In(r.metrics)} /\ \A m : figure(m)[1] = m
    BY <1>1
  <2> HIDE DEF told, r, entryOf, field, figure
  <2> QED BY <2>0 DEF OneEach
<1>5. Known(V)
  BY <1>1, <1>3, <1>4 DEF Known
<1> QED BY <1>2, <1>5 DEF V

LEMMA FollowLeads ==
    ASSUME NEW old, NEW new, Known(old), Known(new),
           new = [tables |-> new.tables, columns |-> new.columns, values |-> new.values,
                  metrics |-> new.metrics, experiences |-> new.experiences]
    PROVE  Recalls!Follow(old, Recalls!Changed(old, new), Recalls!Gone(old, new)) = new
<1> DEFINE Replace(items, by, less) == {i \in items : i[1] \notin Recalls!Names(by) \cup less} \cup by
           changed == Recalls!Changed(old, new)
           gone == Recalls!Gone(old, new)
           columns == {i \in Replace(old.columns, changed.columns, gone.columns) :
                          TableOf[i[1]] \notin gone.tables}
           values == {v \in (old.values \ gone.values) \cup changed.values :
                         ColumnOf[v] \in Recalls!Names(columns)}
<1>0. Recalls!Follow(old, changed, gone) =
        [tables |-> Replace(old.tables, changed.tables, gone.tables), columns |-> columns,
         values |-> values, metrics |-> Replace(old.metrics, changed.metrics, gone.metrics),
         experiences |-> (old.experiences \ gone.experiences) \cup changed.experiences]
  BY Zenon DEF Recalls!Follow
<1>1. /\ changed.tables = new.tables \ old.tables /\ changed.columns = new.columns \ old.columns
      /\ changed.values = new.values \ old.values /\ changed.metrics = new.metrics \ old.metrics
      /\ changed.experiences = new.experiences \ old.experiences
  BY DEF Recalls!Changed
<1>2. /\ gone.tables = Recalls!Names(old.tables) \ Recalls!Names(new.tables)
      /\ gone.columns = {c \in Recalls!Names(old.columns) \ Recalls!Names(new.columns) : TableOf[c] \in Recalls!Names(new.tables)}
      /\ gone.values = {v \in old.values \ new.values : ColumnOf[v] \in Recalls!Names(new.columns)}
      /\ gone.metrics = Recalls!Names(old.metrics) \ Recalls!Names(new.metrics)
      /\ gone.experiences = old.experiences \ new.experiences
  BY DEF Recalls!Gone
<1> HIDE DEF changed, gone
<1> DEFINE R(was, is, less) == {k \in was : k[1] \notin Recalls!Names(is \ was) \cup less} \cup (is \ was)
<1>R. ASSUME NEW was, NEW is, OneEach(was), OneEach(is)
      PROVE  R(was, is, Recalls!Names(was) \ Recalls!Names(is)) = is
  <2> DEFINE less == Recalls!Names(was) \ Recalls!Names(is)
  <2>0. \A x \in less : x \notin Recalls!Names(is)
    OBVIOUS
  <2>1. ASSUME NEW i \in was PROVE i[1] \in Recalls!Names(was)
    BY <2>1, NamesAre
  <2>3. \A i \in was : i[1] \notin less => i[1] \in Recalls!Names(is)
    BY <2>1
  <2> HIDE DEF less
  <2>2. ASSUME NEW i PROVE i \in R(was, is, less) <=> i \in is
    <3>1. i \in R(was, is, less) <=> i \in is \/ (i \in was /\ i[1] \notin Recalls!Names(is) /\ i[1] \notin less)
      BY <1>R, <2>0, ReplacedIs
    <3> HIDE DEF R
    <3> QED BY <2>3, <3>1
  <2> HIDE DEF R
  <2>4. R(was, is, less) = is
    BY <2>2
  <2> QED BY <2>4 DEF less
<1>3. Replace(old.tables, changed.tables, gone.tables) = new.tables
  <2>1. Replace(old.tables, changed.tables, gone.tables)
        = R(old.tables, new.tables, Recalls!Names(old.tables) \ Recalls!Names(new.tables))
    BY <1>1, <1>2
  <2> HIDE DEF R
  <2> QED BY <1>R, <2>1 DEF Known
<1>4. Replace(old.metrics, changed.metrics, gone.metrics) = new.metrics
  <2>1. Replace(old.metrics, changed.metrics, gone.metrics)
        = R(old.metrics, new.metrics, Recalls!Names(old.metrics) \ Recalls!Names(new.metrics))
    BY <1>1, <1>2
  <2> HIDE DEF R
  <2> QED BY <1>R, <2>1 DEF Known
<1>5. columns = new.columns
  <2>1. ASSUME NEW i PROVE i \in columns <=> i \in new.columns
    <3>1. /\ i \in old.columns => i[1] \in Recalls!Names(old.columns) /\ TableOf[i[1]] \in Recalls!Names(old.tables)
          /\ i \in new.columns => i[1] \in Recalls!Names(new.columns) /\ TableOf[i[1]] \in Recalls!Names(new.tables)
      BY NamesAre DEF Known
    <3>3. \A x \in gone.columns : x \notin Recalls!Names(new.columns)
      BY <1>2
    <3>4. OneEach(old.columns) /\ OneEach(new.columns)
      BY DEF Known
    <3>5. i \in R(old.columns, new.columns, gone.columns)
          <=> i \in new.columns \/ (i \in old.columns /\ i[1] \notin Recalls!Names(new.columns)
                                   /\ i[1] \notin gone.columns)
      BY <3>3, <3>4, ReplacedIs
    <3>2. i \in Replace(old.columns, changed.columns, gone.columns)
          <=> i \in new.columns \/ (i \in old.columns /\ i[1] \notin Recalls!Names(new.columns)
                                   /\ i[1] \notin gone.columns)
      BY <1>1, <3>5
    <3>6. i \in columns <=> /\ i \in Replace(old.columns, changed.columns, gone.columns)
                            /\ TableOf[i[1]] \notin gone.tables
      OBVIOUS
    <3> HIDE DEF columns, Replace, R
    <3> QED BY <1>2, <3>1, <3>2, <3>6
  <2> HIDE DEF columns
  <2> QED BY <2>1
<1>6. values = new.values
  <2>1. \A v \in new.values : ColumnOf[v] \in Recalls!Names(new.columns)
    BY DEF Known
  <2> HIDE DEF columns
  <2> QED BY <1>1, <1>2, <1>5, <2>1
<1>7. (old.experiences \ gone.experiences) \cup changed.experiences = new.experiences
  BY <1>1, <1>2
<1> HIDE DEF columns, values, Replace
<1> QED BY <1>0, <1>3, <1>4, <1>5, <1>6, <1>7 DEF changed, gone

-----------------------------------------------------------------------------
(* The invariant.                                                          *)

Begun(c) == callPc[c] \notin {"new", "done"} => callPolicy[c] \in Rights
Kinds(c) == /\ callPc[c] \in {"search", "look", "retrieve"} => RecallKind[c] = "recall"
            /\ callPc[c] \in {"lock", "commit"} => RecallKind[c] # "read"
HasFound(c) ==
    (RecallKind[c] = "recall" /\ callPc[c] \in {"look", "retrieve", "lock", "read", "commit"})
        => recalled[c] \in Recalls!Responses /\ Recalls!Closed(recalled[c])
CacheIsOwn(c) ==
    /\ callPc[c] \in {"new", "search", "look", "retrieve"} => cache[c] = Recalls!NoCache
    /\ \A e \in cache[c].experiences : MadeUnder[e] = callPolicy[c]
HasRead(c) == (callPc[c] = "commit" /\ RecallKind[c] # "recall") => \A q \in On[c] : before[c][q] # Absent
Knows == \A c \in Calls : Begun(c) /\ Kinds(c) /\ HasFound(c) /\ CacheIsOwn(c) /\ HasRead(c)

HeldByWriters ==
    \A q \in RecallQueries, c \in Calls :
        holder[q] = c => q \in On[c] /\ RecallKind[c] # "read" /\ callPc[c] \in {"lock", "read", "commit"}
WritersHoldAll ==
    \A c \in Calls : (callPc[c] \in {"read", "commit"} /\ RecallKind[c] # "read")
                        => \A q \in On[c] : holder[q] = c
LockedInOrder ==
    \A c \in Calls : callPc[c] = "lock" =>
        \A p, q \in On[c] : (holder[q] = c /\ Rank[p] < Rank[q]) => holder[p] = c
Locked == HeldByWriters /\ WritersHoldAll /\ LockedInOrder

Stored == Recalls!CachesKeepTheirScope /\ Recalls!SnapshotsAreClosed

Remembered ==
    \A c \in Calls : (RecallKind[c] = "recall" /\ callPc[c] \in {"lock", "read", "commit"}) =>
        \A q \in On[c] : c \in revivers[q] \/ cache[c].experiences \cap removed[q] = {}

RecallInv ==
    /\ Recalls!TypeOK /\ day <= changes + 1 /\ Knows /\ Locked /\ Recalls!NothingIsLost /\ Stored
    /\ Recalls!DeletedStaysDeleted /\ Remembered

-----------------------------------------------------------------------------
(* What a call reads and writes.                                           *)

LEMMA ReadableIs ==
    ASSUME NEW p \in Rights, NEW s \in Recalls!Snapshots
    PROVE  /\ Recalls!Readable(p, s) \in Recalls!Snapshots
           /\ Recalls!Readable(p, s).response = Recalls!Filtered(p, s.response)
           /\ Recalls!Readable(p, s).experiences = IF s.scope = p THEN Recalls!Usable(p, s.experiences) ELSE {}
           /\ Recalls!Readable(p, s).scope = s.scope
<1> DEFINE R == Recalls!Filtered(p, s.response)
           X == IF s.scope = p THEN Recalls!Usable(p, s.experiences) ELSE {}
<1>1. /\ s.response \in Recalls!Responses /\ s.experiences \subseteq Experiences
      /\ s = [response |-> s.response, experiences |-> s.experiences,
              retrieved |-> s.retrieved, scope |-> s.scope]
      /\ s.retrieved \in 0 .. MaxRecallChanges + 1 /\ s.scope \in Rights
  BY DEF Recalls!Snapshots
<1>2. R \in Recalls!Responses
  BY <1>1, FilteredIs
<1>3. X \subseteq Experiences
  BY <1>1 DEF Recalls!Usable
<1>4. Recalls!Readable(p, s) = [s EXCEPT !.response = R, !.experiences = X]
  BY Zenon DEF Recalls!Readable
<1> HIDE DEF R, X
<1>5. Recalls!Readable(p, s) = [response |-> R, experiences |-> X, retrieved |-> s.retrieved,
                        scope |-> s.scope]
  BY <1>1, <1>4
<1> QED BY <1>1, <1>2, <1>3, <1>5 DEF R, X, Recalls!Snapshots

LEMMA FirstIs ==
    ASSUME NEW S \in SUBSET RecallQueries, S # {}
    PROVE  Recalls!First(S) \in S /\ \A q \in S : Rank[Recalls!First(S)] <= Rank[q]
<1>1. \A q \in S : Rank[q] \in Nat
  BY RecallAssumption DEF Recalls!ContextAssumption
<1>2. \E n \in {Rank[q] : q \in S} : \A m \in {Rank[q] : q \in S} : n <= m
  BY <1>1, LeastExists
<1>3. \E q \in S : \A other \in S : Rank[q] <= Rank[other]
  BY <1>2
<1> QED BY <1>3 DEF Recalls!First

LEMMA OnIs ==
    ASSUME NEW c \in Calls
    PROVE  /\ On[c] \subseteq RecallQueries /\ On[c] # {} /\ Recalls!First(On[c]) \in On[c]
           /\ RecallKind[c] = "recall" => On[c] = {Recalls!First(On[c])}
           /\ RecallKind[c] \in {"recall", "read", "merge", "delete"}
<1>0. On \in [Calls -> (SUBSET RecallQueries) \ {{}}]
  BY RecallAssumption DEF Recalls!ContextAssumption
<1>1. On[c] \in SUBSET RecallQueries /\ On[c] # {}
  <2>1. On[c] \in (SUBSET RecallQueries) \ {{}}
    BY <1>0
  <2>2. On[c] \in SUBSET RecallQueries
    BY <2>1
  <2>3. On[c] \notin {{}}
    BY <2>1
  <2> QED BY <2>2, <2>3
<1>2. Recalls!First(On[c]) \in On[c]
  BY <1>1, FirstIs
<1>3. RecallKind[c] = "recall" => On[c] = {Recalls!First(On[c])}
  BY <1>2, RecallAssumption DEF Recalls!ContextAssumption
<1>4. RecallKind[c] \in {"recall", "read", "merge", "delete"}
  BY RecallAssumption DEF Recalls!ContextAssumption
<1> QED BY <1>1, <1>2, <1>3, <1>4

LEMMA NoneIsApart == Absent \notin Calls /\ Absent \notin Rights /\ Absent \notin Recalls!Responses /\ Absent \notin Recalls!Snapshots
BY RecallAssumption DEF Recalls!ContextAssumption

(* What a writer has read of a query it is about.                          *)
LEMMA BeforeIs ==
    ASSUME RecallInv, NEW c \in Calls, callPc[c] = "commit", NEW q \in On[c], before[c][q] # Absent
    PROVE  /\ callPolicy[c] \in Rights
           /\ before[c][q] \in Recalls!Snapshots /\ latest[q] \in Recalls!Snapshots
           /\ Recalls!Closed(before[c][q].response) /\ Recalls!Authorized(callPolicy[c], before[c][q].response)
           /\ before[c][q].experiences \subseteq latest[q].experiences
           /\ \A e \in before[c][q].experiences :
                  Uses[e] \subseteq Recalls!AllowedColumns(callPolicy[c]) /\ MadeUnder[e] = callPolicy[c]
           /\ \A e \in before[c][q].experiences : MadeUnder[e] = before[c][q].scope
<1>1. callPolicy[c] \in Rights
  BY DEF RecallInv, Knows, Begun
<1>2. before[c][q] = Recalls!Readable(callPolicy[c], latest[q]) /\ latest[q] # Absent
  BY DEF RecallInv, Recalls!NothingIsLost
<1>3. q \in RecallQueries
  BY OnIs
<1>4. latest[q] \in Recalls!Snapshots
  BY <1>2, <1>3 DEF RecallInv, Recalls!TypeOK
<1>5. Recalls!Closed(latest[q].response) /\ \A e \in latest[q].experiences : MadeUnder[e] = latest[q].scope
  BY <1>2, <1>3 DEF RecallInv, Stored, Recalls!SnapshotsAreClosed, Recalls!CachesKeepTheirScope
<1>6. /\ before[c][q] \in Recalls!Snapshots /\ before[c][q].response = Recalls!Filtered(callPolicy[c], latest[q].response)
      /\ before[c][q].experiences = IF latest[q].scope = callPolicy[c]
                                    THEN Recalls!Usable(callPolicy[c], latest[q].experiences) ELSE {}
      /\ before[c][q].scope = latest[q].scope
  BY <1>1, <1>2, <1>4, ReadableIs
<1>7. latest[q].response \in Recalls!Responses
  BY <1>4 DEF Recalls!Snapshots
<1>8. Recalls!Closed(before[c][q].response) /\ Recalls!Authorized(callPolicy[c], before[c][q].response)
  BY <1>1, <1>5, <1>6, <1>7, FilteredIs
<1> QED BY <1>1, <1>4, <1>5, <1>6, <1>8 DEF Recalls!Usable

(* What a recall records.                                                  *)
LEMMA RecordedIs ==
    ASSUME RecallInv, NEW c \in Calls, callPc[c] = "commit", RecallKind[c] = "recall", NEW higher
    PROVE  /\ Recalls!Recorded(c, higher) \in Recalls!Snapshots /\ Recalls!Recorded(c, higher).scope = callPolicy[c]
           /\ Recalls!Closed(Recalls!Recorded(c, higher).response)
           /\ Recalls!Authorized(callPolicy[c], Recalls!Recorded(c, higher).response)
           /\ Recalls!Recorded(c, higher).experiences \subseteq cache[c].experiences
           /\ \A e \in Recalls!Recorded(c, higher).experiences :
                  Uses[e] \subseteq Recalls!AllowedColumns(callPolicy[c]) /\ MadeUnder[e] = callPolicy[c]
<1> DEFINE old == before[c][Recalls!First(On[c])]
           all == IF old = Absent THEN recalled[c]
                  ELSE Recalls!Merged(old.response, recalled[c], Retried[c], higher)
           X == Recalls!Usable(callPolicy[c], cache[c].experiences)
<1>1. /\ callPolicy[c] \in Rights /\ recalled[c] \in Recalls!Responses /\ Recalls!Closed(recalled[c])
      /\ \A e \in cache[c].experiences : MadeUnder[e] = callPolicy[c]
  BY DEF RecallInv, Knows, Begun, HasFound, CacheIsOwn
<1>2. cache[c].experiences \subseteq Experiences /\ cache[c].retrieved \in 0 .. MaxRecallChanges + 1
  BY DEF RecallInv, Recalls!TypeOK
<1>3. old # Absent => old.response \in Recalls!Responses /\ Recalls!Closed(old.response)
  BY BeforeIs, OnIs DEF Recalls!Snapshots
<1>4. Retried[c] \in SUBSET Failures
  BY RecallAssumption DEF Recalls!ContextAssumption
<1>5. all \in Recalls!Responses /\ Recalls!Closed(all)
  BY <1>1, <1>3, <1>4, MergedIs
<1>6. Recalls!Recorded(c, higher) = [response |-> Recalls!Filtered(callPolicy[c], all), experiences |-> X,
                             retrieved |-> cache[c].retrieved, scope |-> callPolicy[c]]
  BY Zenon DEF Recalls!Recorded
<1>7. X \subseteq cache[c].experiences /\ \A e \in X : Uses[e] \subseteq Recalls!AllowedColumns(callPolicy[c])
  BY DEF Recalls!Usable
<1> HIDE DEF all, X
<1>8. /\ Recalls!Filtered(callPolicy[c], all) \in Recalls!Responses /\ Recalls!Closed(Recalls!Filtered(callPolicy[c], all))
      /\ Recalls!Authorized(callPolicy[c], Recalls!Filtered(callPolicy[c], all))
  BY <1>1, <1>5, FilteredIs
<1>9. Recalls!Recorded(c, higher) \in Recalls!Snapshots
  BY <1>1, <1>2, <1>6, <1>7, <1>8 DEF Recalls!Snapshots
<1>10. /\ Recalls!Recorded(c, higher).response = Recalls!Filtered(callPolicy[c], all)
       /\ Recalls!Recorded(c, higher).experiences = X /\ Recalls!Recorded(c, higher).scope = callPolicy[c]
  BY <1>6
<1> QED BY <1>1, <1>7, <1>8, <1>9, <1>10

(* What a merge leaves of its two queries.                                 *)
LEMMA AbsorbedIs ==
    ASSUME RecallInv, NEW c \in Calls, callPc[c] = "commit", RecallKind[c] = "merge", NEW higher
    PROVE  /\ Keeper[c] \in On[c] /\ before[c][Keeper[c]] # Absent
           /\ Recalls!Absorbed(c, higher) \in Recalls!Snapshots
           /\ Recalls!Closed(Recalls!Absorbed(c, higher).response)
           /\ Recalls!Authorized(callPolicy[c], Recalls!Absorbed(c, higher).response)
           /\ Recalls!Absorbed(c, higher).experiences = before[c][Keeper[c]].experiences
           /\ Recalls!Absorbed(c, higher).scope = before[c][Keeper[c]].scope
<1> DEFINE kept == Keeper[c]
           giver == CHOOSE q \in On[c] : q # Keeper[c]
           s == before[c][kept]
           r == Recalls!Merged(s.response, before[c][giver].response, {}, higher)
<1>1. \E q \in RecallQueries \ {Keeper[c]} : On[c] = {q, Keeper[c]}
  BY RecallAssumption DEF Recalls!ContextAssumption
<1>2. kept \in On[c] /\ giver \in On[c]
  BY <1>1
<1> HIDE DEF giver, kept
<1>3. s # Absent /\ before[c][giver] # Absent
  BY <1>2 DEF RecallInv, Knows, HasRead
<1>4. /\ callPolicy[c] \in Rights /\ s \in Recalls!Snapshots /\ before[c][giver] \in Recalls!Snapshots
      /\ Recalls!Closed(s.response) /\ Recalls!Closed(before[c][giver].response)
      /\ Recalls!Authorized(callPolicy[c], s.response) /\ Recalls!Authorized(callPolicy[c], before[c][giver].response)
  BY <1>2, <1>3, BeforeIs
<1>5. s.response \in Recalls!Responses /\ before[c][giver].response \in Recalls!Responses
  BY <1>4 DEF Recalls!Snapshots
<1>6. r \in Recalls!Responses /\ Recalls!Closed(r) /\ Recalls!Authorized(callPolicy[c], r)
  BY <1>4, <1>5, MergedIs
<1>7. Recalls!Absorbed(c, higher) = [s EXCEPT !.response = r]
  BY Zenon DEF Recalls!Absorbed, giver, kept
<1> HIDE DEF r, s
<1>8. s = [response |-> s.response, experiences |-> s.experiences, retrieved |-> s.retrieved,
           scope |-> s.scope]
  BY <1>4 DEF Recalls!Snapshots
<1>9. Recalls!Absorbed(c, higher) = [response |-> r, experiences |-> s.experiences,
                             retrieved |-> s.retrieved, scope |-> s.scope]
  BY <1>7, <1>8
<1>10. Recalls!Absorbed(c, higher) \in Recalls!Snapshots
  BY <1>4, <1>6, <1>9 DEF Recalls!Snapshots
<1>11. /\ Recalls!Absorbed(c, higher).response = r /\ Recalls!Absorbed(c, higher).experiences = s.experiences
       /\ Recalls!Absorbed(c, higher).scope = s.scope
  BY <1>9
<1> QED BY <1>2, <1>3, <1>6, <1>10, <1>11 DEF s, kept

(* What a deletion leaves of a query.                                      *)
LEMMA ClearedIs ==
    ASSUME RecallInv, NEW c \in Calls, callPc[c] = "commit", RecallKind[c] = "delete", NEW q \in On[c]
    PROVE  /\ before[c][q] # Absent
           /\ Recalls!Cleared(c, q) \in Recalls!Snapshots /\ Recalls!Closed(Recalls!Cleared(c, q).response)
           /\ Recalls!Cleared(c, q).experiences = before[c][q].experiences \ Cut[c][q].experiences
           /\ Recalls!Cleared(c, q).scope = before[c][q].scope
<1> DEFINE s == before[c][q]
           r == Recalls!Without(s.response, Cut[c][q])
           X == s.experiences \ Cut[c][q].experiences
<1>1. s # Absent
  BY DEF RecallInv, Knows, HasRead
<1>2. s \in Recalls!Snapshots /\ Recalls!Closed(s.response)
  BY <1>1, BeforeIs
<1>3. s.response \in Recalls!Responses /\ s.experiences \subseteq Experiences
  BY <1>2 DEF Recalls!Snapshots
<1>4. r \in Recalls!Responses /\ Recalls!Closed(r)
  BY <1>2, <1>3, WithoutIs
<1>5. Recalls!Cleared(c, q) = [s EXCEPT !.response = r, !.experiences = X]
  BY Zenon DEF Recalls!Cleared
<1>6. X \subseteq Experiences
  BY <1>3
<1> HIDE DEF r, s, X
<1>7. s = [response |-> s.response, experiences |-> s.experiences, retrieved |-> s.retrieved,
           scope |-> s.scope]
  BY <1>2 DEF Recalls!Snapshots
<1>8. Recalls!Cleared(c, q) = [response |-> r, experiences |-> X, retrieved |-> s.retrieved,
                       scope |-> s.scope]
  BY <1>5, <1>7
<1>9. Recalls!Cleared(c, q) \in Recalls!Snapshots
  BY <1>2, <1>4, <1>6, <1>8 DEF Recalls!Snapshots
<1>10. Recalls!Cleared(c, q).response = r /\ Recalls!Cleared(c, q).experiences = X /\ Recalls!Cleared(c, q).scope = s.scope
  BY <1>8
<1> QED BY <1>1, <1>4, <1>9, <1>10 DEF s, X

-----------------------------------------------------------------------------
(* What the invariant promises.                                            *)

LEMMA AnswersAreGranted == RecallInv => Recalls!AnswersAreAuthorized
<1> SUFFICES ASSUME RecallInv, NEW c \in Calls, NEW s \in Recalls!Answers(c)
             PROVE  /\ Recalls!Authorized(callPolicy[c], s.response)
                    /\ \A e \in s.experiences :
                           Uses[e] \subseteq Recalls!AllowedColumns(callPolicy[c]) /\ MadeUnder[e] = callPolicy[c]
  BY DEF Recalls!AnswersAreAuthorized
<1>1. CASE callPc[c] = "commit" /\ RecallKind[c] = "recall"
  <2>1. PICK higher \in {{}, Columns} : s = Recalls!Recorded(c, higher)
    BY <1>1 DEF Recalls!Answers
  <2> QED BY <1>1, <2>1, RecordedIs
<1>2. CASE callPc[c] = "commit" /\ RecallKind[c] = "merge"
  <2>1. PICK higher \in {{}, Columns} : s = Recalls!Absorbed(c, higher)
    BY <1>2 DEF Recalls!Answers
  <2> QED BY <1>2, <2>1, AbsorbedIs, BeforeIs
<1>3. CASE callPc[c] = "read" /\ RecallKind[c] = "read"
  <2>1. PICK q \in On[c] : latest[q] # Absent /\ s = Recalls!Readable(callPolicy[c], latest[q])
    BY <1>3 DEF Recalls!Answers
  <2>2. q \in RecallQueries
    BY OnIs
  <2>3. callPolicy[c] \in Rights
    BY <1>3 DEF RecallInv, Knows, Begun
  <2>4. latest[q] \in Recalls!Snapshots
    BY <2>1, <2>2 DEF RecallInv, Recalls!TypeOK
  <2>5. latest[q].response \in Recalls!Responses
    BY <2>4 DEF Recalls!Snapshots
  <2>6. Recalls!Authorized(callPolicy[c], s.response)
    BY <2>1, <2>3, <2>4, <2>5, ReadableIs, FilteredIs
  <2>7. s.experiences = IF latest[q].scope = callPolicy[c]
                        THEN Recalls!Usable(callPolicy[c], latest[q].experiences) ELSE {}
    BY <2>1, <2>3, <2>4, ReadableIs
  <2>8. \A e \in latest[q].experiences : MadeUnder[e] = latest[q].scope
    BY <2>1, <2>2 DEF RecallInv, Stored, Recalls!CachesKeepTheirScope
  <2> QED BY <2>6, <2>7, <2>8 DEF Recalls!Usable
<1> QED BY <1>1, <1>2, <1>3 DEF Recalls!Answers

LEMMA ChangesAreTold == RecallInv => Recalls!ChangesAreComplete
<1> SUFFICES ASSUME RecallInv, NEW c \in Calls, callPc[c] = "commit", RecallKind[c] = "recall",
                    before[c][Recalls!First(On[c])] # Absent, NEW higher \in {{}, Columns}
             PROVE  LET old == Recalls!View(before[c][Recalls!First(On[c])])
                        new == Recalls!View(Recalls!Recorded(c, higher))
                    IN  Recalls!Follow(old, Recalls!Changed(old, new), Recalls!Gone(old, new)) = new
  BY DEF Recalls!ChangesAreComplete
<1>1. before[c][Recalls!First(On[c])].response \in Recalls!Responses
  BY BeforeIs, OnIs DEF Recalls!Snapshots
<1>2. Recalls!Recorded(c, higher).response \in Recalls!Responses
  BY RecordedIs DEF Recalls!Snapshots
<1> QED BY <1>1, <1>2, ViewIs, FollowLeads

(* The locks of a call are taken in the order of its queries: who waits    *)
(* has none of the later ones, so the query it waits for comes after the   *)
(* one that is waited for at it.  Of the calls that wait in a circle, one  *)
(* would have fewest queries after its own, and the next still fewer.      *)
LEMMA WaitsAscend ==
    ASSUME RecallInv, NEW c \in Calls, NEW d \in Calls, NEW e \in Calls,
           Recalls!WaitsFor(c, d), Recalls!WaitsFor(d, e)
    PROVE  /\ Recalls!First(Recalls!Missing(c)) \in RecallQueries /\ Recalls!First(Recalls!Missing(d)) \in RecallQueries
           /\ Rank[Recalls!First(Recalls!Missing(c))] < Rank[Recalls!First(Recalls!Missing(d))]
<1> DEFINE p == Recalls!First(Recalls!Missing(c))
           q == Recalls!First(Recalls!Missing(d))
<1>1. /\ callPc[c] = "lock" /\ Recalls!Missing(c) # {} /\ holder[p] = d
      /\ callPc[d] = "lock" /\ Recalls!Missing(d) # {}
  BY DEF Recalls!WaitsFor
<1>2. Recalls!Missing(c) \in SUBSET RecallQueries /\ Recalls!Missing(d) \in SUBSET RecallQueries
  BY OnIs DEF Recalls!Missing
<1>3. p \in Recalls!Missing(c) /\ q \in Recalls!Missing(d)
  BY <1>1, <1>2, FirstIs
<1> HIDE DEF p, q
<1>4. p \in RecallQueries /\ q \in RecallQueries /\ q \in On[d] /\ holder[q] # d
  BY <1>2, <1>3 DEF Recalls!Missing, Recalls!Holds
<1>5. p \in On[d]
  BY <1>1, <1>4 DEF RecallInv, Locked, HeldByWriters
<1>6. ~(Rank[q] < Rank[p])
  BY <1>1, <1>4, <1>5 DEF RecallInv, Locked, LockedInOrder
<1>7. Rank[p] \in Nat /\ Rank[q] \in Nat /\ (Rank[p] = Rank[q] => p = q)
  BY <1>4, RecallAssumption DEF Recalls!ContextAssumption
<1>8. p \in RecallQueries /\ q \in RecallQueries /\ Rank[p] < Rank[q]
  BY <1>1, <1>4, <1>6, <1>7
<1> QED BY <1>8 DEF p, q

LEMMA NobodyIsStuck == RecallInv => Recalls!NobodyWaitsInACircle
<1> SUFFICES ASSUME RecallInv, NEW S \in SUBSET Calls, S # {},
                    \A c \in S : \E d \in S : Recalls!WaitsFor(c, d)
             PROVE  FALSE
  BY DEF Recalls!NobodyWaitsInACircle
<1> DEFINE After(c) == {q \in RecallQueries : Rank[Recalls!First(Recalls!Missing(c))] < Rank[q]}
           sizes == {Cardinality(After(c)) : c \in S}
<1>1. IsFiniteSet(RecallQueries) /\ \A q \in RecallQueries : Rank[q] \in Nat
  BY RecallAssumption, RecallsFinite DEF Recalls!ContextAssumption
<1>2. ASSUME NEW c \in S PROVE IsFiniteSet(After(c)) /\ Cardinality(After(c)) \in Nat
  <2>1. After(c) \subseteq RecallQueries
    OBVIOUS
  <2> HIDE DEF After
  <2> QED BY <1>1, <2>1, FS_Subset, FS_CardinalityType
<1>3. sizes \in SUBSET Nat /\ sizes # {}
  <2> HIDE DEF After
  <2> QED BY <1>2
<1>4. PICK c \in S : \A d \in S : Cardinality(After(c)) <= Cardinality(After(d))
  <2>1. PICK n \in sizes : \A m \in sizes : n <= m
    <3> HIDE DEF sizes
    <3> QED BY <1>3, LeastExists
  <2> HIDE DEF After
  <2> QED BY <2>1
<1>5. PICK d \in S : Recalls!WaitsFor(c, d)
  OBVIOUS
<1>6. PICK e \in S : Recalls!WaitsFor(d, e)
  OBVIOUS
<1>7. /\ Recalls!First(Recalls!Missing(c)) \in RecallQueries /\ Recalls!First(Recalls!Missing(d)) \in RecallQueries
      /\ Rank[Recalls!First(Recalls!Missing(c))] < Rank[Recalls!First(Recalls!Missing(d))]
  BY <1>5, <1>6, WaitsAscend
<1>8. After(d) \subseteq After(c) /\ After(d) # After(c)
  BY <1>1, <1>7
<1>9. Cardinality(After(d)) < Cardinality(After(c))
  <2> HIDE DEF After
  <2> QED BY <1>2, <1>8, FS_Subset
<1> QED
  <2> HIDE DEF After
  <2> QED BY <1>2, <1>4, <1>9

LEMMA RecallsAreSound == RecallInv => Recalls!RecallsAreSafe
BY AnswersAreGranted, ChangesAreTold, NobodyIsStuck DEF RecallInv, Stored, Recalls!RecallsAreSafe

-----------------------------------------------------------------------------
(* The steps.  A call that ends changes nothing that another call knows.   *)

Others(c) ==
    \A d \in Calls \ {c} : /\ callPc'[d] = callPc[d] /\ callPolicy'[d] = callPolicy[d] /\ recalled'[d] = recalled[d]
                           /\ cache'[d] = cache[d] /\ before'[d] = before[d]

LEMMA PrivateKeeps ==
    ASSUME RecallInv, NEW c \in Calls, Others(c),
           Begun(c)', Kinds(c)', HasFound(c)', CacheIsOwn(c)', HasRead(c)'
    PROVE  Knows'
<1> SUFFICES ASSUME NEW d \in Calls
             PROVE (Begun(d) /\ Kinds(d) /\ HasFound(d) /\ CacheIsOwn(d) /\ HasRead(d))'
  BY DEF Knows
<1>1. CASE d # c
  <2>1. /\ callPc'[d] = callPc[d] /\ callPolicy'[d] = callPolicy[d] /\ recalled'[d] = recalled[d]
        /\ cache'[d] = cache[d] /\ before'[d] = before[d]
    BY <1>1 DEF Others
  <2>2. Begun(d) /\ Kinds(d) /\ HasFound(d) /\ CacheIsOwn(d) /\ HasRead(d)
    BY DEF RecallInv, Knows
  <2> QED BY <2>1, <2>2 DEF Begun, Kinds, HasFound, CacheIsOwn, HasRead
<1> QED BY <1>1

LEMMA EndsIs ==
    ASSUME RecallInv, NEW c \in Calls, Recalls!Ends(c)
    PROVE  /\ Others(c) /\ callPc'[c] = "done"
           /\ callPc' \in [Calls -> {"new", "search", "look", "retrieve", "lock", "read", "commit", "done"}]
           /\ holder' \in [RecallQueries -> Calls \cup {Absent}]
           /\ callPolicy' \in [Calls -> Rights \cup {Absent}]
           /\ recalled' \in [Calls -> Recalls!Responses \cup {Absent}]
           /\ cache' \in [Calls -> [experiences : SUBSET Experiences, retrieved : 0 .. MaxRecallChanges + 1]]
           /\ before' \in [Calls -> [RecallQueries -> Recalls!Snapshots \cup {Absent}]]
           /\ Knows' /\ Locked'
<1>1. Recalls!TypeOK /\ Knows /\ Locked
  BY DEF RecallInv
<1>2. /\ callPc' = [callPc EXCEPT ![c] = "done"]
      /\ holder' = [q \in RecallQueries |-> IF Recalls!Holds(c, q) THEN Absent ELSE holder[q]]
      /\ callPolicy' = [callPolicy EXCEPT ![c] = Absent] /\ recalled' = [recalled EXCEPT ![c] = Absent]
      /\ cache' = [cache EXCEPT ![c] = Recalls!NoCache] /\ before' = [before EXCEPT ![c] = Recalls!Unread]
  BY DEF Recalls!Ends, Recalls!Goto
<1>3. Recalls!NoCache \in [experiences : SUBSET Experiences, retrieved : 0 .. MaxRecallChanges + 1]
  <2>1. 0 \in 0 .. MaxRecallChanges + 1
    BY RecallAssumption DEF Recalls!ContextAssumption
  <2> QED BY <2>1 DEF Recalls!NoCache
<1>4. Recalls!Unread \in [RecallQueries -> Recalls!Snapshots \cup {Absent}]
  BY DEF Recalls!Unread
<1>5. Others(c)
  BY <1>1, <1>2 DEF Others, Recalls!TypeOK
<1>6. /\ callPc' \in [Calls -> {"new", "search", "look", "retrieve", "lock", "read", "commit", "done"}]
      /\ holder' \in [RecallQueries -> Calls \cup {Absent}]
      /\ callPolicy' \in [Calls -> Rights \cup {Absent}]
      /\ recalled' \in [Calls -> Recalls!Responses \cup {Absent}]
  BY <1>1, <1>2 DEF Recalls!TypeOK
<1>7. /\ cache' \in [Calls -> [experiences : SUBSET Experiences, retrieved : 0 .. MaxRecallChanges + 1]]
      /\ before' \in [Calls -> [RecallQueries -> Recalls!Snapshots \cup {Absent}]]
  BY <1>1, <1>2, <1>3, <1>4 DEF Recalls!TypeOK
<1>8. callPc'[c] = "done" /\ cache'[c] = Recalls!NoCache
  BY <1>1, <1>2 DEF Recalls!TypeOK
<1>9. Knows'
  <2>1. Begun(c)' /\ Kinds(c)' /\ HasFound(c)' /\ CacheIsOwn(c)' /\ HasRead(c)'
    BY <1>8 DEF Begun, Kinds, HasFound, CacheIsOwn, HasRead, Recalls!NoCache
  <2> QED BY <1>5, <2>1, PrivateKeeps
<1>10. \A q \in RecallQueries, d \in Calls \ {c} : holder'[q] = d <=> holder[q] = d
  BY <1>2, NoneIsApart DEF Recalls!Holds
<1>11. \A q \in RecallQueries : holder'[q] # c
  BY <1>2, NoneIsApart DEF Recalls!Holds
<1>12. HeldByWriters'
  <2> SUFFICES ASSUME NEW q \in RecallQueries, NEW d \in Calls, holder'[q] = d
               PROVE  q \in On[d] /\ RecallKind[d] # "read" /\ callPc'[d] \in {"lock", "read", "commit"}
    BY DEF HeldByWriters
  <2>1. d # c /\ holder[q] = d
    BY <1>10, <1>11
  <2>2. callPc'[d] = callPc[d]
    BY <1>5, <2>1 DEF Others
  <2> QED BY <1>1, <2>1, <2>2 DEF Locked, HeldByWriters
<1>13. WritersHoldAll'
  <2> SUFFICES ASSUME NEW d \in Calls, callPc'[d] \in {"read", "commit"}, RecallKind[d] # "read", NEW q \in On[d]
               PROVE  holder'[q] = d
    BY DEF WritersHoldAll
  <2>1. d # c
    BY <1>8
  <2>2. callPc'[d] = callPc[d]
    BY <1>5, <2>1 DEF Others
  <2>3. holder[q] = d /\ q \in RecallQueries
    BY <1>1, <2>2, OnIs DEF Locked, WritersHoldAll
  <2> QED BY <1>10, <2>1, <2>3
<1>14. LockedInOrder'
  <2> SUFFICES ASSUME NEW d \in Calls, callPc'[d] = "lock", NEW p \in On[d], NEW q \in On[d],
                      holder'[q] = d, Rank[p] < Rank[q]
               PROVE  holder'[p] = d
    BY DEF LockedInOrder
  <2>1. d # c
    BY <1>8
  <2>2. callPc'[d] = callPc[d]
    BY <1>5, <2>1 DEF Others
  <2>3. p \in RecallQueries /\ q \in RecallQueries
    BY OnIs
  <2>4. holder[q] = d
    BY <1>10, <2>1, <2>3
  <2>5. holder[p] = d
    BY <1>1, <2>2, <2>4 DEF Locked, LockedInOrder
  <2> QED BY <1>10, <2>1, <2>3, <2>5
<1> QED BY <1>5, <1>6, <1>7, <1>8, <1>9, <1>12, <1>13, <1>14 DEF Locked

(* The end of a transaction: what it changes of the snapshots it has the   *)
(* locks of.                                                               *)
LEMMA WriteKeeps ==
    ASSUME RecallInv, NEW c \in Calls, Recalls!Ends(c), UNCHANGED Recalls!External,
           latest' \in [RecallQueries -> Recalls!Snapshots \cup {Absent}],
           removed' \in [RecallQueries -> SUBSET Experiences], revivers' \in [RecallQueries -> SUBSET Calls],
           \A q \in RecallQueries : latest'[q] # latest[q] => holder[q] = c,
           \A q \in RecallQueries : latest'[q] # Absent =>
               /\ Recalls!Closed(latest'[q].response)
               /\ \A e \in latest'[q].experiences : MadeUnder[e] = latest'[q].scope
               /\ latest'[q].experiences \cap removed'[q] = {},
           \A q \in RecallQueries, d \in Calls \ {c} :
               (RecallKind[d] = "recall" /\ q \in On[d] /\ callPc[d] \in {"lock", "read", "commit"}) =>
                   \/ d \in revivers'[q]
                   \/ d \notin revivers[q] /\ removed'[q] \subseteq removed[q]
    PROVE  RecallInv'
<1>1. /\ Others(c) /\ callPc'[c] = "done" /\ Knows' /\ Locked'
      /\ callPc' \in [Calls -> {"new", "search", "look", "retrieve", "lock", "read", "commit", "done"}]
      /\ holder' \in [RecallQueries -> Calls \cup {Absent}]
      /\ callPolicy' \in [Calls -> Rights \cup {Absent}]
      /\ recalled' \in [Calls -> Recalls!Responses \cup {Absent}]
      /\ cache' \in [Calls -> [experiences : SUBSET Experiences, retrieved : 0 .. MaxRecallChanges + 1]]
      /\ before' \in [Calls -> [RecallQueries -> Recalls!Snapshots \cup {Absent}]]
  BY EndsIs
<1>2. /\ rights' = rights /\ catalog' = catalog /\ changes' = changes /\ day' = day
  BY DEF Recalls!External
<1>3. rights' \in Rights /\ catalog' \in 1 .. MaxCatalogs /\ changes' \in 0 .. MaxRecallChanges
      /\ day' \in 1 .. MaxRecallChanges + 1 /\ day' <= changes' + 1
  BY <1>2 DEF RecallInv, Recalls!TypeOK
<1>4. Recalls!TypeOK'
  BY <1>1, <1>3 DEF Recalls!TypeOK
<1>5. Recalls!NothingIsLost'
  <2> SUFFICES ASSUME NEW d \in Calls, callPc'[d] = "commit", NEW q \in On[d]
               PROVE  before'[d][q] = IF latest'[q] = Absent THEN Absent
                                     ELSE Recalls!Readable(callPolicy'[d], latest'[q])
    BY DEF Recalls!NothingIsLost
  <2>1. d # c
    BY <1>1
  <2>2. callPc[d] = "commit" /\ callPolicy'[d] = callPolicy[d] /\ before'[d] = before[d]
    BY <1>1, <2>1 DEF Others
  <2>3. RecallKind[d] # "read"
    BY <2>2 DEF RecallInv, Knows, Kinds
  <2>4. holder[q] = d /\ q \in RecallQueries
    BY <2>2, <2>3, OnIs DEF RecallInv, Locked, WritersHoldAll
  <2>5. latest'[q] = latest[q]
    BY <2>1, <2>4
  <2> QED BY <2>2, <2>5 DEF RecallInv, Recalls!NothingIsLost
<1>6. Stored' /\ Recalls!DeletedStaysDeleted'
  BY DEF Stored, Recalls!CachesKeepTheirScope, Recalls!SnapshotsAreClosed,
     Recalls!DeletedStaysDeleted
<1>7. Remembered'
  <2> SUFFICES ASSUME NEW d \in Calls, RecallKind[d] = "recall", callPc'[d] \in {"lock", "read", "commit"},
                      NEW q \in On[d]
               PROVE  d \in revivers'[q] \/ cache'[d].experiences \cap removed'[q] = {}
    BY DEF Remembered
  <2>1. d # c
    BY <1>1
  <2>2. callPc'[d] = callPc[d] /\ cache'[d] = cache[d]
    BY <1>1, <2>1 DEF Others
  <2>3. q \in RecallQueries
    BY OnIs
  <2>4. CASE d \notin revivers[q] /\ removed'[q] \subseteq removed[q]
    <3>1. cache[d].experiences \cap removed[q] = {}
      BY <2>2, <2>4 DEF RecallInv, Remembered
    <3> QED BY <2>2, <2>4, <3>1
  <2> QED BY <2>1, <2>2, <2>3, <2>4
<1> QED BY <1>1, <1>3, <1>4, <1>5, <1>6, <1>7 DEF RecallInv

LEMMA ReadsKeep ==
    ASSUME RecallInv, NEW c \in Calls, Recalls!ReadOnly(c) \/ Recalls!NotFound(c) \/ Recalls!Fail(c)
    PROVE  RecallInv'
<1>1. Recalls!Ends(c) /\ UNCHANGED Recalls!External /\ latest' = latest /\ removed' = removed /\ revivers' = revivers
  BY DEF Recalls!ReadOnly, Recalls!NotFound, Recalls!Fail, Recalls!History
<1>2. /\ latest \in [RecallQueries -> Recalls!Snapshots \cup {Absent}]
      /\ removed \in [RecallQueries -> SUBSET Experiences] /\ revivers \in [RecallQueries -> SUBSET Calls]
  BY DEF RecallInv, Recalls!TypeOK
<1>3. \A q \in RecallQueries : latest[q] # Absent =>
          /\ Recalls!Closed(latest[q].response)
          /\ \A e \in latest[q].experiences : MadeUnder[e] = latest[q].scope
          /\ latest[q].experiences \cap removed[q] = {}
  BY DEF RecallInv, Stored, Recalls!CachesKeepTheirScope, Recalls!SnapshotsAreClosed,
     Recalls!DeletedStaysDeleted
<1> QED BY <1>1, <1>2, <1>3, WriteKeeps

LEMMA CommitHolds ==
    ASSUME RecallInv, NEW c \in Calls, callPc[c] = "commit", NEW q \in On[c]
    PROVE  holder[q] = c /\ q \in RecallQueries
BY OnIs DEF RecallInv, Knows, Kinds, Locked, WritersHoldAll

LEMMA RecordKeeps ==
    ASSUME RecallInv, NEW c \in Calls, Recalls!Record(c) PROVE RecallInv'
<1> DEFINE q == Recalls!First(On[c])
<1>1. /\ callPc[c] = "commit" /\ RecallKind[c] = "recall" /\ Recalls!Ends(c)
      /\ UNCHANGED Recalls!External /\ revivers' = revivers
      /\ removed' = [removed EXCEPT ![q] = IF c \in revivers[q] THEN removed[q] \ cache[c].experiences
                                           ELSE removed[q]]
  BY DEF Recalls!Record
<1>2. PICK higher \in {{}, Columns} : latest' = [latest EXCEPT ![q] = Recalls!Recorded(c, higher)]
  BY DEF Recalls!Record
<1>3. q \in On[c] /\ q \in RecallQueries /\ On[c] = {q}
  BY <1>1, OnIs
<1> HIDE DEF q
<1>4. /\ Recalls!Recorded(c, higher) \in Recalls!Snapshots /\ Recalls!Recorded(c, higher).scope = callPolicy[c]
      /\ Recalls!Closed(Recalls!Recorded(c, higher).response)
      /\ Recalls!Recorded(c, higher).experiences \subseteq cache[c].experiences
      /\ \A e \in Recalls!Recorded(c, higher).experiences : MadeUnder[e] = callPolicy[c]
  BY <1>1, RecordedIs
<1>5. Recalls!TypeOK
  BY DEF RecallInv
<1>6. latest' \in [RecallQueries -> Recalls!Snapshots \cup {Absent}]
  BY <1>2, <1>4, <1>5 DEF Recalls!TypeOK
<1>7. removed' \in [RecallQueries -> SUBSET Experiences] /\ revivers' \in [RecallQueries -> SUBSET Calls]
  BY <1>1, <1>5 DEF Recalls!TypeOK
<1>8. /\ latest'[q] = Recalls!Recorded(c, higher) /\ \A o \in RecallQueries \ {q} : latest'[o] = latest[o]
      /\ removed'[q] = IF c \in revivers[q] THEN removed[q] \ cache[c].experiences ELSE removed[q]
      /\ \A o \in RecallQueries \ {q} : removed'[o] = removed[o]
  BY <1>1, <1>2, <1>3, <1>5 DEF Recalls!TypeOK
<1>9. \A o \in RecallQueries : removed'[o] \subseteq removed[o]
  BY <1>8
<1>10. cache[c].experiences \cap removed'[q] = {}
  <2>1. c \in revivers[q] \/ cache[c].experiences \cap removed[q] = {}
    BY <1>1, <1>3 DEF RecallInv, Remembered
  <2> QED BY <1>8, <2>1
<1>11. ASSUME NEW o \in RecallQueries, latest'[o] # Absent
       PROVE  /\ Recalls!Closed(latest'[o].response)
              /\ \A e \in latest'[o].experiences : MadeUnder[e] = latest'[o].scope
              /\ latest'[o].experiences \cap removed'[o] = {}
  <2>1. CASE o = q
    BY <1>4, <1>8, <1>10, <2>1
  <2>2. CASE o # q
    <3>1. latest'[o] = latest[o] /\ removed'[o] = removed[o]
      BY <1>8, <2>2
    <3> QED BY <1>11, <3>1 DEF RecallInv, Stored, Recalls!CachesKeepTheirScope,
               Recalls!SnapshotsAreClosed, Recalls!DeletedStaysDeleted
  <2> QED BY <2>1, <2>2
<1>12. \A o \in RecallQueries : latest'[o] # latest[o] => holder[o] = c
  BY <1>1, <1>3, <1>8, CommitHolds
<1> QED BY <1>1, <1>6, <1>7, <1>9, <1>11, <1>12, WriteKeeps

LEMMA MergeKeeps ==
    ASSUME RecallInv, NEW c \in Calls, Recalls!Merge(c) PROVE RecallInv'
<1> DEFINE T == Keeper[c]
<1>1. /\ callPc[c] = "commit" /\ RecallKind[c] = "merge" /\ Recalls!Ends(c) /\ UNCHANGED Recalls!External /\ revivers' = revivers
      /\ removed' = [q \in RecallQueries |-> IF q \in On[c] \ {T} THEN {} ELSE removed[q]]
  BY DEF Recalls!Merge
<1>2. PICK higher \in {{}, Columns} :
          latest' = [q \in RecallQueries |-> IF q = T THEN Recalls!Absorbed(c, higher)
                                       ELSE IF q \in On[c] THEN Absent ELSE latest[q]]
  BY DEF Recalls!Merge
<1> HIDE DEF T
<1>3. /\ T \in On[c] /\ before[c][T] # Absent /\ Recalls!Absorbed(c, higher) \in Recalls!Snapshots
      /\ Recalls!Closed(Recalls!Absorbed(c, higher).response)
      /\ Recalls!Absorbed(c, higher).experiences = before[c][T].experiences
      /\ Recalls!Absorbed(c, higher).scope = before[c][T].scope
  BY <1>1, AbsorbedIs DEF T
<1>4. /\ before[c][T].experiences \subseteq latest[T].experiences
      /\ \A e \in before[c][T].experiences : MadeUnder[e] = before[c][T].scope
      /\ latest[T] \in Recalls!Snapshots
  BY <1>1, <1>3, BeforeIs
<1>5. Recalls!TypeOK /\ T \in RecallQueries
  BY <1>3, OnIs DEF RecallInv
<1>6. latest' \in [RecallQueries -> Recalls!Snapshots \cup {Absent}]
  BY <1>2, <1>3, <1>5 DEF Recalls!TypeOK
<1>7. removed' \in [RecallQueries -> SUBSET Experiences] /\ revivers' \in [RecallQueries -> SUBSET Calls]
  BY <1>1, <1>5 DEF Recalls!TypeOK
<1>8. /\ latest'[T] = Recalls!Absorbed(c, higher) /\ removed'[T] = removed[T]
      /\ \A q \in On[c] \ {T} : latest'[q] = Absent
      /\ \A q \in RecallQueries \ On[c] : latest'[q] = latest[q] /\ removed'[q] = removed[q]
      /\ \A q \in RecallQueries : removed'[q] \subseteq removed[q]
  BY <1>1, <1>2, <1>3, <1>5, OnIs
<1>9. ASSUME NEW q \in RecallQueries, latest'[q] # Absent
      PROVE  /\ Recalls!Closed(latest'[q].response)
             /\ \A e \in latest'[q].experiences : MadeUnder[e] = latest'[q].scope
             /\ latest'[q].experiences \cap removed'[q] = {}
  <2>1. CASE q = T
    <3>1. latest[T] # Absent
      BY <1>4, NoneIsApart
    <3>2. latest[T].experiences \cap removed[T] = {}
      BY <1>5, <3>1 DEF RecallInv, Recalls!DeletedStaysDeleted
    <3> QED BY <1>3, <1>4, <1>8, <2>1, <3>2
  <2>2. CASE q \notin On[c]
    <3>1. latest'[q] = latest[q] /\ removed'[q] = removed[q]
      BY <1>8, <2>2
    <3> QED BY <1>9, <3>1 DEF RecallInv, Stored, Recalls!CachesKeepTheirScope,
               Recalls!SnapshotsAreClosed, Recalls!DeletedStaysDeleted
  <2> QED BY <1>8, <1>9, <2>1, <2>2
<1>10. \A q \in RecallQueries : latest'[q] # latest[q] => holder[q] = c
  BY <1>1, <1>8, CommitHolds
<1> QED BY <1>1, <1>6, <1>7, <1>8, <1>9, <1>10, WriteKeeps

LEMMA DeleteKeeps ==
    ASSUME RecallInv, NEW c \in Calls, Recalls!Delete(c) PROVE RecallInv'
<1> DEFINE After(q) == IF Cut[c][q] = Whole THEN Absent
                       ELSE IF Recalls!Cleared(c, q) = before[c][q] THEN latest[q] ELSE Recalls!Cleared(c, q)
           Dropped(q) == before[c][q].experiences \cap (IF Cut[c][q] = Whole THEN Experiences
                                                        ELSE Cut[c][q].experiences)
           Had(q) == {d \in Calls : /\ RecallKind[d] = "recall" /\ q \in On[d]
                                    /\ callPc[d] \in {"lock", "read", "commit"}}
<1>1. /\ callPc[c] = "commit" /\ RecallKind[c] = "delete" /\ Recalls!Ends(c) /\ UNCHANGED Recalls!External
      /\ latest' = [q \in RecallQueries |-> IF q \in On[c] THEN After(q) ELSE latest[q]]
      /\ removed' = [q \in RecallQueries |-> IF q \in On[c] THEN removed[q] \cup Dropped(q)
                                       ELSE removed[q]]
      /\ revivers' = [q \in RecallQueries |-> IF q \in On[c] THEN revivers[q] \cup Had(q)
                                        ELSE revivers[q]]
  BY DEF Recalls!Delete
<1>2. ASSUME NEW q \in On[c]
      PROVE  /\ q \in RecallQueries /\ before[c][q] \in Recalls!Snapshots /\ latest[q] \in Recalls!Snapshots
             /\ before[c][q].experiences \subseteq latest[q].experiences
             /\ \A e \in before[c][q].experiences : MadeUnder[e] = before[c][q].scope
             /\ Recalls!Cleared(c, q) \in Recalls!Snapshots /\ Recalls!Closed(Recalls!Cleared(c, q).response)
             /\ Recalls!Cleared(c, q).experiences = before[c][q].experiences \ Cut[c][q].experiences
             /\ Recalls!Cleared(c, q).scope = before[c][q].scope
  BY <1>1, ClearedIs, BeforeIs, OnIs
<1>3. Recalls!TypeOK
  BY DEF RecallInv
<1>4. \A q \in On[c] : After(q) \in Recalls!Snapshots \cup {Absent} /\ Dropped(q) \subseteq Experiences
  BY <1>2 DEF Recalls!Snapshots
<1>5. \A q : Had(q) \subseteq Calls
  OBVIOUS
<1>6. /\ latest' \in [RecallQueries -> Recalls!Snapshots \cup {Absent}]
      /\ removed' \in [RecallQueries -> SUBSET Experiences] /\ revivers' \in [RecallQueries -> SUBSET Calls]
  <2> HIDE DEF After, Dropped, Had
  <2> QED BY <1>1, <1>3, <1>4, <1>5 DEF Recalls!TypeOK
<1>7. /\ \A q \in On[c] : latest'[q] = After(q) /\ removed'[q] = removed[q] \cup Dropped(q)
                          /\ revivers'[q] = revivers[q] \cup Had(q)
      /\ \A q \in RecallQueries \ On[c] : latest'[q] = latest[q] /\ removed'[q] = removed[q]
                                   /\ revivers'[q] = revivers[q]
  <2> HIDE DEF After, Dropped, Had
  <2> QED BY <1>1, OnIs
<1>8. ASSUME NEW q \in RecallQueries, latest[q] # Absent
      PROVE  /\ Recalls!Closed(latest[q].response)
             /\ \A e \in latest[q].experiences : MadeUnder[e] = latest[q].scope
             /\ latest[q].experiences \cap removed[q] = {}
  BY <1>8 DEF RecallInv, Stored, Recalls!CachesKeepTheirScope, Recalls!SnapshotsAreClosed,
     Recalls!DeletedStaysDeleted
<1>9. ASSUME NEW q \in RecallQueries, latest'[q] # Absent
      PROVE  /\ Recalls!Closed(latest'[q].response)
             /\ \A e \in latest'[q].experiences : MadeUnder[e] = latest'[q].scope
             /\ latest'[q].experiences \cap removed'[q] = {}
  <2>1. CASE q \in On[c]
    <3>1. latest[q] # Absent
      BY <1>2, <2>1, NoneIsApart
    <3>2. Cut[c][q] # Whole
      BY <1>7, <1>9, <2>1
    <3>3. Dropped(q) = before[c][q].experiences \cap Cut[c][q].experiences
      BY <3>2
    <3>4. After(q) = IF Recalls!Cleared(c, q) = before[c][q] THEN latest[q] ELSE Recalls!Cleared(c, q)
      BY <3>2
    <3> HIDE DEF After, Dropped
    <3>5. CASE Recalls!Cleared(c, q) = before[c][q]
      <4>1. Dropped(q) = {}
        BY <1>2, <2>1, <3>3, <3>5
      <4>2. latest'[q] = latest[q] /\ removed'[q] = removed[q]
        BY <1>7, <2>1, <3>4, <3>5, <4>1
      <4> QED BY <1>8, <3>1, <4>2
    <3>6. CASE Recalls!Cleared(c, q) # before[c][q]
      <4>1. latest'[q] = Recalls!Cleared(c, q) /\ removed'[q] = removed[q] \cup Dropped(q)
        BY <1>7, <2>1, <3>4, <3>6
      <4>2. latest[q].experiences \cap removed[q] = {}
        BY <1>8, <3>1
      <4> QED BY <1>2, <2>1, <3>3, <4>1, <4>2
    <3> QED BY <3>5, <3>6
  <2>2. CASE q \notin On[c]
    <3>1. latest'[q] = latest[q] /\ removed'[q] = removed[q]
      BY <1>7, <2>2
    <3> QED BY <1>8, <1>9, <3>1
  <2> QED BY <2>1, <2>2
<1>10. ASSUME NEW q \in RecallQueries, NEW d \in Calls \ {c}, RecallKind[d] = "recall", q \in On[d],
              callPc[d] \in {"lock", "read", "commit"}
       PROVE  d \in revivers'[q] \/ (d \notin revivers[q] /\ removed'[q] \subseteq removed[q])
  <2>1. CASE q \in On[c]
    <3>1. d \in Had(q)
      BY <1>10
    <3> HIDE DEF Had, After, Dropped
    <3> QED BY <1>7, <2>1, <3>1
  <2>2. CASE q \notin On[c]
    <3> HIDE DEF Had, After, Dropped
    <3> QED BY <1>7, <2>2
  <2> QED BY <2>1, <2>2
<1>11. \A q \in RecallQueries : latest'[q] # latest[q] => holder[q] = c
  <2> HIDE DEF After, Dropped, Had
  <2> QED BY <1>1, <1>7, CommitHolds
<1> HIDE DEF After, Dropped, Had
<1> QED BY <1>1, <1>6, <1>9, <1>10, <1>11, WriteKeeps

(* Before its transaction a call has no lock.                              *)
LEMMA MoveKeeps ==
    ASSUME RecallInv, NEW c \in Calls, UNCHANGED <<Recalls!External, latest, holder, before, removed>>,
           callPc[c] \in {"new", "search", "look", "retrieve"},
           NEW next \in {"search", "look", "retrieve", "lock", "read"},
           callPc' = [callPc EXCEPT ![c] = next], next = "read" => RecallKind[c] = "read",
           next = "lock" => RecallKind[c] # "read",
           \A d \in Calls \ {c} : callPolicy'[d] = callPolicy[d] /\ recalled'[d] = recalled[d] /\ cache'[d] = cache[d],
           callPolicy' \in [Calls -> Rights \cup {Absent}],
           recalled' \in [Calls -> Recalls!Responses \cup {Absent}],
           cache' \in [Calls -> [experiences : SUBSET Experiences, retrieved : 0 .. MaxRecallChanges + 1]],
           revivers' \in [RecallQueries -> SUBSET Calls],
           \A q \in RecallQueries : revivers[q] \subseteq revivers'[q],
           \A q \in RecallQueries : revivers'[q] \subseteq revivers[q] \cup {c},
           Begun(c)', Kinds(c)', HasFound(c)', CacheIsOwn(c)',
           (RecallKind[c] = "recall" /\ next = "lock") =>
               \A q \in On[c] : c \in revivers'[q] \/ cache'[c].experiences \cap removed[q] = {}
    PROVE  RecallInv'
<1>1. Recalls!TypeOK
  BY DEF RecallInv
<1>2. /\ rights' = rights /\ catalog' = catalog /\ changes' = changes /\ day' = day
      /\ latest' = latest /\ holder' = holder /\ before' = before /\ removed' = removed
  BY DEF Recalls!External
<1>3. callPc'[c] = next /\ \A d \in Calls \ {c} : callPc'[d] = callPc[d]
  BY <1>1 DEF Recalls!TypeOK
<1>4. Recalls!TypeOK'
  <2>1. callPc' \in [Calls -> {"new", "search", "look", "retrieve", "lock", "read", "commit", "done"}]
    BY <1>1 DEF Recalls!TypeOK
  <2> QED BY <1>1, <1>2, <2>1 DEF Recalls!TypeOK
<1>5. Others(c)
  BY <1>2, <1>3 DEF Others
<1>6. Knows'
  <2>1. HasRead(c)'
    BY <1>3 DEF HasRead
  <2> QED BY <1>5, <2>1, PrivateKeeps
<1>7. \A q \in RecallQueries : holder[q] # c
  BY DEF RecallInv, Locked, HeldByWriters
<1>8. HeldByWriters'
  <2> SUFFICES ASSUME NEW q \in RecallQueries, NEW d \in Calls, holder[q] = d
               PROVE  q \in On[d] /\ RecallKind[d] # "read" /\ callPc'[d] \in {"lock", "read", "commit"}
    BY <1>2 DEF HeldByWriters
  <2>1. d # c
    BY <1>7
  <2> QED BY <1>3, <2>1 DEF RecallInv, Locked, HeldByWriters
<1>9. WritersHoldAll'
  <2> SUFFICES ASSUME NEW d \in Calls, callPc'[d] \in {"read", "commit"}, RecallKind[d] # "read"
               PROVE  \A q \in On[d] : holder[q] = d
    BY <1>2 DEF WritersHoldAll
  <2>1. d # c
    BY <1>3
  <2> QED BY <1>3, <2>1 DEF RecallInv, Locked, WritersHoldAll
<1>10. LockedInOrder'
  <2> SUFFICES ASSUME NEW d \in Calls, callPc'[d] = "lock", NEW p \in On[d], NEW q \in On[d],
                      holder[q] = d, Rank[p] < Rank[q]
               PROVE  holder[p] = d
    BY <1>2 DEF LockedInOrder
  <2>1. d # c
    BY <1>7, OnIs
  <2> QED BY <1>3, <2>1 DEF RecallInv, Locked, LockedInOrder
<1>11. Recalls!NothingIsLost'
  <2> SUFFICES ASSUME NEW d \in Calls, callPc'[d] = "commit", NEW q \in On[d]
               PROVE  before[d][q] = IF latest[q] = Absent THEN Absent ELSE Recalls!Readable(callPolicy'[d], latest[q])
    BY <1>2 DEF Recalls!NothingIsLost
  <2>1. d # c
    BY <1>3
  <2> QED BY <1>3, <2>1 DEF RecallInv, Recalls!NothingIsLost
<1>12. Stored' /\ Recalls!DeletedStaysDeleted'
  BY <1>2 DEF RecallInv, Stored, Recalls!CachesKeepTheirScope, Recalls!SnapshotsAreClosed,
     Recalls!DeletedStaysDeleted
<1>13. Remembered'
  <2> SUFFICES ASSUME NEW d \in Calls, RecallKind[d] = "recall", callPc'[d] \in {"lock", "read", "commit"},
                      NEW q \in On[d]
               PROVE  d \in revivers'[q] \/ cache'[d].experiences \cap removed[q] = {}
    BY <1>2 DEF Remembered
  <2>1. q \in RecallQueries
    BY OnIs
  <2>2. CASE d = c
    <3>1. next = "lock"
      BY <1>3, <2>2
    <3> QED BY <2>2, <3>1
  <2>3. CASE d # c
    <3>1. d \in revivers[q] \/ cache[d].experiences \cap removed[q] = {}
      BY <1>3, <2>3 DEF RecallInv, Remembered
    <3> QED BY <2>1, <2>3, <3>1
  <2> QED BY <2>2, <2>3
<1>14. day' <= changes' + 1
  BY <1>2 DEF RecallInv
<1> QED BY <1>4, <1>6, <1>8, <1>9, <1>10, <1>11, <1>12, <1>13, <1>14 DEF RecallInv, Locked

LEMMA BeginKeeps ==
    ASSUME RecallInv, NEW c \in Calls, Recalls!Begin(c) PROVE RecallInv'
<1> DEFINE next == IF RecallKind[c] = "recall" THEN "search" ELSE IF Recalls!Writes(c) THEN "lock" ELSE "read"
<1>1. /\ callPc[c] = "new" /\ callPc' = [callPc EXCEPT ![c] = next] /\ callPolicy' = [callPolicy EXCEPT ![c] = rights]
      /\ UNCHANGED <<Recalls!External, latest, holder, before, removed>>
      /\ recalled' = recalled /\ cache' = cache /\ revivers' = revivers
  BY DEF Recalls!Begin, Recalls!Goto, Recalls!History
<1>3. /\ next = "lock" => RecallKind[c] # "read" /\ RecallKind[c] # "recall"
      /\ next = "read" => RecallKind[c] = "read"
      /\ next = "search" => RecallKind[c] = "recall"
      /\ next \in {"search", "lock", "read"}
  BY DEF Recalls!Writes
<1> HIDE DEF next
<1>4. Recalls!TypeOK
  BY DEF RecallInv
<1>5. /\ callPolicy' \in [Calls -> Rights \cup {Absent}] /\ callPc'[c] = next /\ callPolicy'[c] = rights
      /\ rights \in Rights /\ \A d \in Calls \ {c} : callPolicy'[d] = callPolicy[d]
      /\ recalled \in [Calls -> Recalls!Responses \cup {Absent}]
      /\ cache \in [Calls -> [experiences : SUBSET Experiences, retrieved : 0 .. MaxRecallChanges + 1]]
      /\ revivers \in [RecallQueries -> SUBSET Calls]
  BY <1>1, <1>4 DEF Recalls!TypeOK
<1>6. Begun(c)' /\ Kinds(c)' /\ HasFound(c)'
  BY <1>3, <1>5 DEF Begun, Kinds, HasFound
<1>7. CacheIsOwn(c)'
  <2>1. cache[c] = Recalls!NoCache
    BY <1>1 DEF RecallInv, Knows, CacheIsOwn
  <2> QED BY <1>1, <2>1 DEF CacheIsOwn, Recalls!NoCache
<1> QED BY <1>1, <1>3, <1>5, <1>6, <1>7, MoveKeeps

LEMMA SearchKeeps ==
    ASSUME RecallInv, NEW c \in Calls, Recalls!Search(c) PROVE RecallInv'
<1> DEFINE p == callPolicy[c]
           allowed == Recalls!AllowedColumns(p)
           values(s) == {v \in s.values : ColumnOf[v] \in allowed}
           wanted(s) == (s.columns \cap allowed) \cup {ColumnOf[v] : v \in values(s)}
           r(s) == Recalls!Response(p, catalog, Recalls!InContext(allowed, wanted(s)),
                            s.metrics \cap Recalls!AllowedMetrics(p), values(s), s.failures \cap Retried[c])
<1>1. /\ callPc[c] = "search" /\ callPc' = [callPc EXCEPT ![c] = "look"]
      /\ UNCHANGED <<Recalls!External, latest, holder, before, removed>>
      /\ callPolicy' = callPolicy /\ cache' = cache /\ revivers' = revivers
  BY DEF Recalls!Search, Recalls!Goto, Recalls!History
<1>2. PICK s \in Searches : recalled' = [recalled EXCEPT ![c] = r(s)]
  BY Zenon DEF Recalls!Search
<1>3. Recalls!TypeOK /\ p \in Rights /\ RecallKind[c] = "recall" /\ cache[c] = Recalls!NoCache
  BY <1>1 DEF RecallInv, Knows, Begun, Kinds, CacheIsOwn
<1>4. s.values \subseteq KnownValues
  BY RecallAssumption DEF Recalls!ContextAssumption
<1>5. r(s) \in Recalls!Responses /\ Recalls!Closed(r(s))
  <2> DEFINE cols == Recalls!InContext(allowed, wanted(s))
             left == values(s)
             told == s.failures \cap Retried[c]
             met == s.metrics \cap Recalls!AllowedMetrics(p)
  <2>1. wanted(s) \subseteq allowed
    OBVIOUS
  <2>2. /\ wanted(s) \subseteq cols /\ cols \subseteq Recalls!AllowedColumns(p)
        /\ \A k \in KeyColumns \cap Recalls!AllowedColumns(p) : TableOf[k] \in Recalls!TablesOf(cols) => k \in cols
    BY <1>3, <2>1, ContextIs
  <2>3. left \in SUBSET KnownValues /\ \A v \in left : ColumnOf[v] \in cols
    BY <1>4, <2>2
  <2>4. told \in SUBSET Failures
    BY RecallAssumption DEF Recalls!ContextAssumption
  <2>5. catalog \in 1 .. MaxCatalogs
    BY <1>3 DEF Recalls!TypeOK
  <2> HIDE DEF cols, left, told, met
  <2>6. /\ Recalls!Response(p, catalog, cols, met, left, told) \in Recalls!Responses
        /\ Recalls!Closed(Recalls!Response(p, catalog, cols, met, left, told))
    BY <1>3, <2>2, <2>3, <2>4, <2>5, ResponseIs
  <2> QED BY <2>6 DEF cols, left, told, met
<1> HIDE DEF r
<1>6. /\ recalled' \in [Calls -> Recalls!Responses \cup {Absent}] /\ recalled'[c] = r(s) /\ callPc'[c] = "look"
      /\ \A d \in Calls \ {c} : recalled'[d] = recalled[d]
      /\ callPolicy \in [Calls -> Rights \cup {Absent}]
      /\ cache \in [Calls -> [experiences : SUBSET Experiences, retrieved : 0 .. MaxRecallChanges + 1]]
      /\ revivers \in [RecallQueries -> SUBSET Calls]
  BY <1>1, <1>2, <1>3, <1>5 DEF Recalls!TypeOK
<1>7. Begun(c)' /\ Kinds(c)' /\ HasFound(c)' /\ CacheIsOwn(c)'
  BY <1>1, <1>3, <1>5, <1>6 DEF Begun, Kinds, HasFound, CacheIsOwn, Recalls!NoCache
<1> QED BY <1>1, <1>6, <1>7, MoveKeeps

LEMMA LookKeeps ==
    ASSUME RecallInv, NEW c \in Calls, Recalls!Look(c) PROVE RecallInv'
<1> DEFINE q == Recalls!First(On[c])
           s == latest[q]
           X == Recalls!Readable(callPolicy[c], s).experiences
<1>1. /\ callPc[c] = "look" /\ UNCHANGED <<Recalls!External, latest, holder, before, removed>>
      /\ callPolicy' = callPolicy /\ recalled' = recalled /\ revivers' = revivers
  BY DEF Recalls!Look, Recalls!History
<1>2. \/ /\ s # Absent /\ s.scope = callPolicy[c] /\ callPc' = [callPc EXCEPT ![c] = "lock"]
         /\ cache' = [cache EXCEPT ![c] = [experiences |-> X, retrieved |-> s.retrieved]]
      \/ callPc' = [callPc EXCEPT ![c] = "retrieve"] /\ cache' = cache
  BY DEF Recalls!Look, Recalls!Goto
<1>3. /\ Recalls!TypeOK /\ callPolicy[c] \in Rights /\ RecallKind[c] = "recall" /\ cache[c] = Recalls!NoCache
      /\ recalled[c] \in Recalls!Responses /\ Recalls!Closed(recalled[c])
  BY <1>1 DEF RecallInv, Knows, Begun, Kinds, HasFound, CacheIsOwn
<1>4. /\ callPolicy \in [Calls -> Rights \cup {Absent}] /\ recalled \in [Calls -> Recalls!Responses \cup {Absent}]
      /\ cache \in [Calls -> [experiences : SUBSET Experiences, retrieved : 0 .. MaxRecallChanges + 1]]
      /\ revivers \in [RecallQueries -> SUBSET Calls]
      /\ callPc \in [Calls -> {"new", "search", "look", "retrieve", "lock", "read", "commit", "done"}]
  BY <1>3 DEF Recalls!TypeOK
<1>5. q \in RecallQueries /\ On[c] = {q}
  BY <1>3, OnIs
<1> HIDE DEF q
<1>6. CASE callPc' = [callPc EXCEPT ![c] = "retrieve"] /\ cache' = cache
  <2>1. callPc'[c] = "retrieve"
    BY <1>4, <1>6
  <2>2. Begun(c)' /\ Kinds(c)' /\ HasFound(c)' /\ CacheIsOwn(c)'
    BY <1>1, <1>3, <1>6, <2>1 DEF Begun, Kinds, HasFound, CacheIsOwn, Recalls!NoCache
  <2> QED BY <1>1, <1>4, <1>6, <2>2, MoveKeeps
<1>7. CASE /\ s # Absent /\ s.scope = callPolicy[c] /\ callPc' = [callPc EXCEPT ![c] = "lock"]
           /\ cache' = [cache EXCEPT ![c] = [experiences |-> X, retrieved |-> s.retrieved]]
  <2>1. s \in Recalls!Snapshots /\ s.experiences \subseteq Experiences /\ s.retrieved \in 0 .. MaxRecallChanges + 1
    BY <1>3, <1>5, <1>7 DEF Recalls!TypeOK, Recalls!Snapshots
  <2>2. X = Recalls!Usable(callPolicy[c], s.experiences)
    BY <1>3, <1>7, <2>1, ReadableIs
  <2>3. /\ \A e \in s.experiences : MadeUnder[e] = s.scope
        /\ s.experiences \cap removed[q] = {}
    BY <1>5, <1>7 DEF RecallInv, Stored, Recalls!CachesKeepTheirScope, Recalls!DeletedStaysDeleted
  <2>4. /\ X \subseteq s.experiences /\ X \subseteq Experiences
        /\ \A e \in X : MadeUnder[e] = callPolicy[c]
        /\ X \cap removed[q] = {}
    BY <1>7, <2>1, <2>2, <2>3 DEF Recalls!Usable
  <2> HIDE DEF X, s
  <2>5. /\ callPc'[c] = "lock" /\ cache'[c].experiences = X
        /\ cache' \in [Calls -> [experiences : SUBSET Experiences, retrieved : 0 .. MaxRecallChanges + 1]]
        /\ \A d \in Calls \ {c} : cache'[d] = cache[d]
    BY <1>4, <1>7, <2>1, <2>4
  <2>6. Begun(c)' /\ Kinds(c)' /\ HasFound(c)' /\ CacheIsOwn(c)'
    BY <1>1, <1>3, <2>4, <2>5 DEF Begun, Kinds, HasFound, CacheIsOwn
  <2>7. \A o \in On[c] : cache'[c].experiences \cap removed[o] = {}
    BY <1>5, <2>4, <2>5
  <2> QED BY <1>1, <1>3, <1>4, <1>7, <2>5, <2>6, <2>7, MoveKeeps
<1> QED BY <1>2, <1>6, <1>7

LEMMA RetrieveKeeps ==
    ASSUME RecallInv, NEW c \in Calls, Recalls!Retrieve(c) PROVE RecallInv'
<1> DEFINE q == Recalls!First(On[c])
           own == {e \in Experiences : MadeUnder[e] = callPolicy[c]}
           X == Recalls!Usable(callPolicy[c], own)
<1>1. /\ callPc[c] = "retrieve" /\ callPc' = [callPc EXCEPT ![c] = "lock"]
      /\ UNCHANGED <<Recalls!External, latest, holder, before, removed>>
      /\ callPolicy' = callPolicy /\ recalled' = recalled
      /\ revivers' = [revivers EXCEPT ![q] = revivers[q] \cup {c}]
  BY DEF Recalls!Retrieve, Recalls!Goto
<1>2. cache' = [cache EXCEPT ![c] = [experiences |-> X, retrieved |-> day]] \/ cache' = cache
  BY DEF Recalls!Retrieve
<1>3. /\ Recalls!TypeOK /\ callPolicy[c] \in Rights /\ RecallKind[c] = "recall" /\ cache[c] = Recalls!NoCache
      /\ recalled[c] \in Recalls!Responses /\ Recalls!Closed(recalled[c])
  BY <1>1 DEF RecallInv, Knows, Begun, Kinds, HasFound, CacheIsOwn
<1>4. /\ callPolicy \in [Calls -> Rights \cup {Absent}] /\ recalled \in [Calls -> Recalls!Responses \cup {Absent}]
      /\ cache \in [Calls -> [experiences : SUBSET Experiences, retrieved : 0 .. MaxRecallChanges + 1]]
      /\ revivers \in [RecallQueries -> SUBSET Calls]
      /\ callPc \in [Calls -> {"new", "search", "look", "retrieve", "lock", "read", "commit", "done"}]
      /\ day \in 1 .. MaxRecallChanges + 1
  BY <1>3 DEF Recalls!TypeOK
<1>5. q \in RecallQueries /\ On[c] = {q}
  BY <1>3, OnIs
<1>6. X \subseteq Experiences /\ \A e \in X : MadeUnder[e] = callPolicy[c]
  BY DEF Recalls!Usable
<1> HIDE DEF q, X
<1>7. /\ cache' \in [Calls -> [experiences : SUBSET Experiences, retrieved : 0 .. MaxRecallChanges + 1]]
      /\ \A d \in Calls \ {c} : cache'[d] = cache[d]
      /\ \A e \in cache'[c].experiences : MadeUnder[e] = callPolicy[c]
  <2>1. CASE cache' = cache
    BY <1>3, <1>4, <2>1 DEF Recalls!NoCache
  <2>2. CASE cache' = [cache EXCEPT ![c] = [experiences |-> X, retrieved |-> day]]
    <3>1. day \in 0 .. MaxRecallChanges + 1
      BY <1>4
    <3>2. [experiences |-> X, retrieved |-> day] \in [experiences : SUBSET Experiences, retrieved : 0 .. MaxRecallChanges + 1]
      BY <1>6, <3>1
    <3>3. cache'[c].experiences = X /\ \A d \in Calls \ {c} : cache'[d] = cache[d]
      BY <1>4, <2>2
    <3>4. cache' \in [Calls -> [experiences : SUBSET Experiences, retrieved : 0 .. MaxRecallChanges + 1]]
      BY <1>4, <2>2, <3>2
    <3> QED BY <1>6, <3>3, <3>4
  <2> QED BY <1>2, <2>1, <2>2
<1>8. /\ revivers' \in [RecallQueries -> SUBSET Calls] /\ c \in revivers'[q]
      /\ \A o \in RecallQueries : revivers[o] \subseteq revivers'[o] /\ revivers'[o] \subseteq revivers[o] \cup {c}
      /\ callPc'[c] = "lock"
  BY <1>1, <1>4, <1>5
<1>9. Begun(c)' /\ Kinds(c)' /\ HasFound(c)' /\ CacheIsOwn(c)'
  BY <1>1, <1>3, <1>7, <1>8 DEF Begun, Kinds, HasFound, CacheIsOwn
<1>10. \A o \in On[c] : c \in revivers'[o]
  BY <1>5, <1>8
<1> QED BY <1>1, <1>3, <1>4, <1>7, <1>8, <1>9, <1>10, MoveKeeps

LEMMA LockKeeps ==
    ASSUME RecallInv, NEW c \in Calls, Recalls!Lock(c) PROVE RecallInv'
<1> DEFINE m == Recalls!First(Recalls!Missing(c))
           next == IF Cardinality(Recalls!Missing(c)) = 1 THEN "read" ELSE "lock"
<1>1. /\ callPc[c] = "lock" /\ Recalls!Missing(c) # {} /\ holder[m] = Absent
      /\ holder' = [holder EXCEPT ![m] = c] /\ callPc' = [callPc EXCEPT ![c] = next]
      /\ rights' = rights /\ catalog' = catalog /\ changes' = changes /\ day' = day
      /\ latest' = latest /\ callPolicy' = callPolicy /\ recalled' = recalled /\ cache' = cache
      /\ before' = before /\ removed' = removed /\ revivers' = revivers
  BY RecallsCardinality DEF Recalls!Lock, Recalls!Goto, Recalls!External, Recalls!History
<1>2. /\ Recalls!Missing(c) \in SUBSET RecallQueries /\ Recalls!Missing(c) \subseteq On[c]
  BY OnIs DEF Recalls!Missing
<1>3. m \in Recalls!Missing(c) /\ \A q \in Recalls!Missing(c) : Rank[m] <= Rank[q]
  BY <1>1, <1>2, FirstIs
<1>4. next = "read" => Recalls!Missing(c) = {m}
  <2>1. IsFiniteSet(Recalls!Missing(c))
    BY <1>2, FS_Subset, RecallAssumption, RecallsFinite DEF Recalls!ContextAssumption
  <2>2. Cardinality(Recalls!Missing(c)) = 1 => \E x : Recalls!Missing(c) = {x}
    BY <2>1, FS_Singleton
  <2> QED BY <1>3, <2>2
<1>5. next \in {"read", "lock"}
  OBVIOUS
<1> HIDE DEF m, next
<1>6. Recalls!TypeOK /\ callPolicy[c] \in Rights /\ RecallKind[c] # "read"
  BY <1>1 DEF RecallInv, Knows, Begun, Kinds
<1>7. m \in RecallQueries /\ m \in On[c]
  BY <1>2, <1>3
<1>8. /\ holder'[m] = c /\ \A q \in RecallQueries \ {m} : holder'[q] = holder[q]
      /\ callPc'[c] = next /\ \A d \in Calls \ {c} : callPc'[d] = callPc[d]
      /\ holder' \in [RecallQueries -> Calls \cup {Absent}]
      /\ callPc' \in [Calls -> {"new", "search", "look", "retrieve", "lock", "read", "commit", "done"}]
  BY <1>1, <1>5, <1>6, <1>7 DEF Recalls!TypeOK
<1>9. Recalls!TypeOK'
  BY <1>1, <1>6, <1>8 DEF Recalls!TypeOK
<1>10. Knows'
  <2>1. Others(c)
    BY <1>1, <1>8 DEF Others
  <2>2. Begun(c)' /\ Kinds(c)' /\ HasRead(c)'
    BY <1>1, <1>5, <1>6, <1>8 DEF Begun, Kinds, HasRead
  <2>3. HasFound(c)' /\ CacheIsOwn(c)'
    BY <1>1, <1>5, <1>8 DEF RecallInv, Knows, HasFound, CacheIsOwn
  <2> QED BY <2>1, <2>2, <2>3, PrivateKeeps
<1>11. HeldByWriters'
  <2> SUFFICES ASSUME NEW q \in RecallQueries, NEW d \in Calls, holder'[q] = d
               PROVE  q \in On[d] /\ RecallKind[d] # "read" /\ callPc'[d] \in {"lock", "read", "commit"}
    BY DEF HeldByWriters
  <2>1. CASE q = m
    BY <1>5, <1>6, <1>7, <1>8, <2>1
  <2>2. CASE q # m
    BY <1>5, <1>8, <2>2 DEF RecallInv, Locked, HeldByWriters
  <2> QED BY <2>1, <2>2
<1>12. WritersHoldAll'
  <2> SUFFICES ASSUME NEW d \in Calls, callPc'[d] \in {"read", "commit"}, RecallKind[d] # "read", NEW q \in On[d]
               PROVE  holder'[q] = d
    BY DEF WritersHoldAll
  <2>0. q \in RecallQueries
    BY OnIs
  <2>1. CASE d = c
    <3>1. Recalls!Missing(c) = {m}
      BY <1>4, <1>5, <1>8, <2>1
    <3>2. q # m => holder[q] = c
      BY <2>1, <3>1 DEF Recalls!Missing, Recalls!Holds
    <3> QED BY <1>8, <2>0, <2>1, <3>2
  <2>2. CASE d # c
    <3>1. holder[q] = d
      BY <1>8, <2>2 DEF RecallInv, Locked, WritersHoldAll
    <3>2. q # m
      BY <1>1, <3>1, NoneIsApart
    <3> QED BY <1>8, <2>0, <3>1, <3>2
  <2> QED BY <2>1, <2>2
<1>13. LockedInOrder'
  <2> SUFFICES ASSUME NEW d \in Calls, callPc'[d] = "lock", NEW p \in On[d], NEW q \in On[d],
                      holder'[q] = d, Rank[p] < Rank[q]
               PROVE  holder'[p] = d
    BY DEF LockedInOrder
  <2>0. p \in RecallQueries /\ q \in RecallQueries
    BY OnIs
  <2>1. CASE d = c /\ q = m
    <3>1. Rank[p] \in Nat /\ Rank[q] \in Nat
      BY <2>0, RecallAssumption DEF Recalls!ContextAssumption
    <3>2. p \notin Recalls!Missing(c)
      BY <1>3, <2>1, <3>1
    <3>3. holder[p] = c
      BY <2>1, <3>2 DEF Recalls!Missing, Recalls!Holds
    <3> QED BY <1>8, <2>0, <2>1, <3>3
  <2>2. CASE d # c \/ q # m
    <3>1. holder[q] = d
      BY <1>8, <2>0, <2>2
    <3>2. callPc[d] = "lock"
      BY <1>1, <1>8
    <3>3. holder[p] = d
      BY <3>1, <3>2 DEF RecallInv, Locked, LockedInOrder
    <3>4. p # m
      BY <1>1, <3>3, NoneIsApart
    <3> QED BY <1>8, <2>0, <3>3, <3>4
  <2> QED BY <2>1, <2>2
<1>14. Recalls!NothingIsLost'
  <2> SUFFICES ASSUME NEW d \in Calls, callPc'[d] = "commit", NEW q \in On[d]
               PROVE  before[d][q] = IF latest[q] = Absent THEN Absent ELSE Recalls!Readable(callPolicy[d], latest[q])
    BY <1>1 DEF Recalls!NothingIsLost
  <2>1. d # c
    BY <1>5, <1>8
  <2> QED BY <1>8, <2>1 DEF RecallInv, Recalls!NothingIsLost
<1>15. Stored' /\ Recalls!DeletedStaysDeleted' /\ day' <= changes' + 1
  BY <1>1 DEF RecallInv, Stored, Recalls!CachesKeepTheirScope, Recalls!SnapshotsAreClosed,
     Recalls!DeletedStaysDeleted
<1>16. Remembered'
  <2> SUFFICES ASSUME NEW d \in Calls, RecallKind[d] = "recall", callPc'[d] \in {"lock", "read", "commit"},
                      NEW q \in On[d]
               PROVE  d \in revivers[q] \/ cache[d].experiences \cap removed[q] = {}
    BY <1>1 DEF Remembered
  <2>1. callPc[d] \in {"lock", "read", "commit"}
    BY <1>1, <1>8
  <2> QED BY <2>1 DEF RecallInv, Remembered
<1> QED BY <1>9, <1>10, <1>11, <1>12, <1>13, <1>14, <1>15, <1>16 DEF RecallInv, Locked

LEMMA ReadKeeps ==
    ASSUME RecallInv, NEW c \in Calls, Recalls!Read(c) PROVE RecallInv'
<1> DEFINE seen == [q \in RecallQueries |-> IF q \notin On[c] \/ latest[q] = Absent THEN Absent
                                      ELSE Recalls!Readable(callPolicy[c], latest[q])]
<1>1. /\ callPc[c] = "read" /\ RecallKind[c] # "read" /\ callPc' = [callPc EXCEPT ![c] = "commit"]
      /\ RecallKind[c] = "recall" \/ \A q \in On[c] : latest[q] # Absent
      /\ before' = [before EXCEPT ![c] = seen]
      /\ rights' = rights /\ catalog' = catalog /\ changes' = changes /\ day' = day
      /\ latest' = latest /\ callPolicy' = callPolicy /\ recalled' = recalled /\ cache' = cache
      /\ holder' = holder /\ removed' = removed /\ revivers' = revivers
  BY DEF Recalls!Read, Recalls!Goto, Recalls!Writes, Recalls!External, Recalls!History
<1>2. Recalls!TypeOK /\ callPolicy[c] \in Rights
  BY <1>1 DEF RecallInv, Knows, Begun
<1>3. \A q \in RecallQueries : latest[q] # Absent => Recalls!Readable(callPolicy[c], latest[q]) \in Recalls!Snapshots
  BY <1>2, ReadableIs DEF Recalls!TypeOK
<1>4. seen \in [RecallQueries -> Recalls!Snapshots \cup {Absent}]
  BY <1>3
<1>5. \A q \in On[c] : seen[q] = IF latest[q] = Absent THEN Absent ELSE Recalls!Readable(callPolicy[c], latest[q])
  BY OnIs
<1> HIDE DEF seen
<1>6. /\ before' \in [Calls -> [RecallQueries -> Recalls!Snapshots \cup {Absent}]] /\ before'[c] = seen
      /\ \A d \in Calls \ {c} : before'[d] = before[d] /\ callPc'[d] = callPc[d]
      /\ callPc'[c] = "commit"
      /\ callPc' \in [Calls -> {"new", "search", "look", "retrieve", "lock", "read", "commit", "done"}]
  BY <1>1, <1>2, <1>4 DEF Recalls!TypeOK
<1>7. Recalls!TypeOK'
  BY <1>1, <1>2, <1>6 DEF Recalls!TypeOK
<1>8. Knows'
  <2>1. Others(c)
    BY <1>1, <1>6 DEF Others
  <2>2. Begun(c)' /\ Kinds(c)'
    BY <1>1, <1>2, <1>6 DEF Begun, Kinds
  <2>3. HasFound(c)' /\ CacheIsOwn(c)'
    BY <1>1, <1>6 DEF RecallInv, Knows, HasFound, CacheIsOwn
  <2>4. HasRead(c)'
    <3> SUFFICES ASSUME RecallKind[c] # "recall", NEW q \in On[c] PROVE seen[q] # Absent
      BY <1>6 DEF HasRead
    <3> QED BY <1>1, <1>3, <1>5, OnIs, NoneIsApart
  <2> QED BY <2>1, <2>2, <2>3, <2>4, PrivateKeeps
<1>9. Locked'
  <2>1. HeldByWriters'
    BY <1>1, <1>6 DEF RecallInv, Locked, HeldByWriters
  <2>2. WritersHoldAll'
    BY <1>1, <1>6 DEF RecallInv, Locked, WritersHoldAll
  <2>3. LockedInOrder'
    BY <1>1, <1>6 DEF RecallInv, Locked, LockedInOrder
  <2> QED BY <2>1, <2>2, <2>3 DEF Locked
<1>10. Recalls!NothingIsLost'
  <2> SUFFICES ASSUME NEW d \in Calls, callPc'[d] = "commit", NEW q \in On[d]
               PROVE  before'[d][q] = IF latest[q] = Absent THEN Absent ELSE Recalls!Readable(callPolicy[d], latest[q])
    BY <1>1 DEF Recalls!NothingIsLost
  <2>1. CASE d = c
    BY <1>5, <1>6, <2>1
  <2>2. CASE d # c
    BY <1>6, <2>2 DEF RecallInv, Recalls!NothingIsLost
  <2> QED BY <2>1, <2>2
<1>11. Stored' /\ Recalls!DeletedStaysDeleted' /\ day' <= changes' + 1
  BY <1>1 DEF RecallInv, Stored, Recalls!CachesKeepTheirScope, Recalls!SnapshotsAreClosed,
     Recalls!DeletedStaysDeleted
<1>12. Remembered'
  <2> SUFFICES ASSUME NEW d \in Calls, RecallKind[d] = "recall", callPc'[d] \in {"lock", "read", "commit"},
                      NEW q \in On[d]
               PROVE  d \in revivers[q] \/ cache[d].experiences \cap removed[q] = {}
    BY <1>1 DEF Remembered
  <2>1. callPc[d] \in {"lock", "read", "commit"}
    BY <1>1, <1>6
  <2> QED BY <2>1 DEF RecallInv, Remembered
<1> QED BY <1>7, <1>8, <1>9, <1>10, <1>11, <1>12 DEF RecallInv

LEMMA ChangesKeep ==
    ASSUME RecallInv, Recalls!RightsChange \/ Recalls!CatalogChanges \/ Recalls!DayPasses \/ UNCHANGED Recalls!vars PROVE RecallInv'
<1>1. UNCHANGED <<latest, holder, callPc, callPolicy, recalled, cache, before, removed, revivers>>
  BY DEF Recalls!RightsChange, Recalls!CatalogChanges, Recalls!DayPasses, Recalls!vars,
     Recalls!History
<1>2. Recalls!TypeOK' /\ day' <= changes' + 1
  <2>1. MaxRecallChanges \in Nat /\ MaxCatalogs \in Nat
    BY RecallAssumption DEF Recalls!ContextAssumption, Recalls!ResourcesAssumption
  <2>2. /\ rights \in Rights /\ catalog \in 1 .. MaxCatalogs /\ changes \in 0 .. MaxRecallChanges
        /\ day \in 1 .. MaxRecallChanges + 1 /\ day <= changes + 1
    BY DEF RecallInv, Recalls!TypeOK
  <2>3. /\ rights' \in Rights /\ catalog' \in 1 .. MaxCatalogs /\ changes' \in 0 .. MaxRecallChanges
        /\ day' \in 1 .. MaxRecallChanges + 1 /\ day' <= changes' + 1
    <3>1. CASE Recalls!RightsChange
      BY <2>1, <2>2, <3>1 DEF Recalls!RightsChange
    <3>2. CASE Recalls!CatalogChanges
      BY <2>1, <2>2, <3>2 DEF Recalls!CatalogChanges
    <3>3. CASE Recalls!DayPasses
      BY <2>1, <2>2, <3>3 DEF Recalls!DayPasses
    <3>4. CASE UNCHANGED Recalls!vars
      BY <2>2, <3>4 DEF Recalls!vars
    <3> QED BY <3>1, <3>2, <3>3, <3>4
  <2> QED BY <1>1, <2>3 DEF RecallInv, Recalls!TypeOK
<1>3. Knows'
  BY <1>1 DEF RecallInv, Knows, Begun, Kinds, HasFound, CacheIsOwn, HasRead
<1>4. Locked'
  BY <1>1 DEF RecallInv, Locked, HeldByWriters, WritersHoldAll, LockedInOrder
<1>5. Recalls!NothingIsLost' /\ Stored' /\ Recalls!DeletedStaysDeleted' /\ Remembered'
  BY <1>1 DEF RecallInv, Recalls!NothingIsLost, Stored, Recalls!CachesKeepTheirScope,
     Recalls!SnapshotsAreClosed,
              Recalls!DeletedStaysDeleted, Remembered
<1> QED BY <1>2, <1>3, <1>4, <1>5 DEF RecallInv

(* A conversation that begins with the recalls of an earlier turn.         *)
LEMMA EarlierIs ==
    ASSUME NEW p \in Rights
    PROVE  /\ Recalls!Earlier(p) \in Recalls!Snapshots /\ Recalls!Closed(Recalls!Earlier(p).response) /\ Recalls!Earlier(p).scope = p
           /\ \A e \in Recalls!Earlier(p).experiences : MadeUnder[e] = p
<1> DEFINE r == Recalls!Response(p, 1, Recalls!AllowedColumns(p), Recalls!AllowedMetrics(p), {}, {})
           X == {e \in Experiences : MadeUnder[e] = p /\ Uses[e] \subseteq Recalls!AllowedColumns(p)}
<1>1. Recalls!Earlier(p) = [response |-> r, experiences |-> X, retrieved |-> 1, scope |-> p]
  BY Zenon DEF Recalls!Earlier
<1>2. 1 \in 1 .. MaxCatalogs /\ 1 \in 0 .. MaxRecallChanges + 1
  BY RecallAssumption DEF Recalls!ContextAssumption, Recalls!ResourcesAssumption
<1>3. r \in Recalls!Responses /\ Recalls!Closed(r)
  <2>1. \A c \in KeyColumns \cap Recalls!AllowedColumns(p) : TableOf[c] \in Recalls!TablesOf(Recalls!AllowedColumns(p))
                                                => c \in Recalls!AllowedColumns(p)
    OBVIOUS
  <2> QED BY <1>2, <2>1, ResponseIs
<1>4. X \subseteq Experiences /\ \A e \in X : MadeUnder[e] = p
  OBVIOUS
<1> HIDE DEF r, X
<1> QED BY <1>1, <1>2, <1>3, <1>4 DEF Recalls!Snapshots

LEMMA RecallInitInv == Recalls!Init => RecallInv
<1> SUFFICES ASSUME Recalls!Init PROVE RecallInv
  OBVIOUS
<1>1. /\ rights \in Rights /\ catalog = 1 /\ changes = 0 /\ day = 1
      /\ holder = [q \in RecallQueries |-> Absent] /\ callPolicy = [c \in Calls |-> Absent]
      /\ recalled = [c \in Calls |-> Absent] /\ cache = [c \in Calls |-> Recalls!NoCache]
      /\ before = [c \in Calls |-> Recalls!Unread]
      /\ removed = [q \in RecallQueries |-> {}] /\ revivers = [q \in RecallQueries |-> {}]
  BY DEF Recalls!Init
<1>2. PICK already \in SUBSET RecallQueries :
          latest = [q \in RecallQueries |-> IF q \in already THEN Recalls!Earlier(rights) ELSE Absent]
  BY DEF Recalls!Init
<1>3. PICK crew \in RecallCrews : callPc = [c \in Calls |-> IF c \in crew THEN "new" ELSE "done"]
  BY DEF Recalls!Init
<1>4. /\ Recalls!Earlier(rights) \in Recalls!Snapshots /\ Recalls!Closed(Recalls!Earlier(rights).response)
      /\ Recalls!Earlier(rights).scope = rights
      /\ \A e \in Recalls!Earlier(rights).experiences : MadeUnder[e] = rights
  BY <1>1, EarlierIs
<1>5. Recalls!NoCache \in [experiences : SUBSET Experiences, retrieved : 0 .. MaxRecallChanges + 1]
  <2>1. 0 \in 0 .. MaxRecallChanges + 1
    BY RecallAssumption DEF Recalls!ContextAssumption
  <2> QED BY <2>1 DEF Recalls!NoCache
<1>6. Recalls!Unread \in [RecallQueries -> Recalls!Snapshots \cup {Absent}]
  BY DEF Recalls!Unread
<1>7. /\ catalog \in 1 .. MaxCatalogs /\ changes \in 0 .. MaxRecallChanges /\ day \in 1 .. MaxRecallChanges + 1
      /\ day <= changes + 1
  BY <1>1, RecallAssumption DEF Recalls!ContextAssumption, Recalls!ResourcesAssumption
<1>8. Recalls!TypeOK
  <2>1. latest \in [RecallQueries -> Recalls!Snapshots \cup {Absent}]
    BY <1>2, <1>4
  <2>2. /\ callPc \in [Calls -> {"new", "search", "look", "retrieve", "lock", "read", "commit", "done"}]
        /\ cache \in [Calls -> [experiences : SUBSET Experiences, retrieved : 0 .. MaxRecallChanges + 1]]
        /\ before \in [Calls -> [RecallQueries -> Recalls!Snapshots \cup {Absent}]]
    BY <1>1, <1>3, <1>5, <1>6
  <2> QED BY <1>1, <1>7, <2>1, <2>2 DEF Recalls!TypeOK
<1>9. \A c \in Calls : callPc[c] \in {"new", "done"} /\ cache[c] = Recalls!NoCache
  BY <1>1, <1>3
<1>10. Knows
  BY <1>9 DEF Knows, Begun, Kinds, HasFound, CacheIsOwn, HasRead, Recalls!NoCache
<1>11. Locked
  BY <1>1, <1>9, NoneIsApart, OnIs DEF Locked, HeldByWriters, WritersHoldAll, LockedInOrder
<1>12. Recalls!NothingIsLost /\ Remembered
  BY <1>9 DEF Recalls!NothingIsLost, Remembered
<1>13. Stored
  BY <1>2, <1>4 DEF Stored, Recalls!CachesKeepTheirScope, Recalls!SnapshotsAreClosed
<1>14. Recalls!DeletedStaysDeleted
  BY <1>1 DEF Recalls!DeletedStaysDeleted
<1> QED BY <1>7, <1>8, <1>10, <1>11, <1>12, <1>13, <1>14 DEF RecallInv

LEMMA RecallInvStep == RecallInv /\ [Recalls!Next]_(Recalls!vars) => RecallInv'
<1> SUFFICES ASSUME RecallInv, [Recalls!Next]_(Recalls!vars) PROVE RecallInv'
  OBVIOUS
<1>1. CASE Recalls!RightsChange \/ Recalls!CatalogChanges \/ Recalls!DayPasses \/ UNCHANGED Recalls!vars
  BY <1>1, ChangesKeep
<1>2. ASSUME NEW c \in Calls,
             \/ Recalls!Begin(c) \/ Recalls!Search(c) \/ Recalls!Look(c) \/ Recalls!Retrieve(c) \/ Recalls!Lock(c) \/ Recalls!ReadOnly(c)
             \/ Recalls!NotFound(c) \/ Recalls!Read(c) \/ Recalls!Record(c) \/ Recalls!Merge(c) \/ Recalls!Delete(c) \/ Recalls!Fail(c)
      PROVE  RecallInv'
  BY <1>2, BeginKeeps, SearchKeeps, LookKeeps, RetrieveKeeps, LockKeeps, ReadsKeep, ReadKeeps,
     RecordKeeps, MergeKeeps, DeleteKeeps
<1> QED BY <1>1, <1>2 DEF Recalls!Next

-----------------------------------------------------------------------------
(* One search of the metadata.                                             *)

LEMMA SearchCardinality == \A S : Search!Cardinality(S) = Cardinality(S)
BY DEF Search!Cardinality, Cardinality

LEMMA SearchFinite == \A S : Search!IsFiniteSet(S) <=> IsFiniteSet(S)
BY DEF Search!IsFiniteSet, IsFiniteSet

-----------------------------------------------------------------------------
(* One search.                                                             *)

(* The response to what is wanted of the columns a policy allows.          *)
LEMMA FoundIs ==
    ASSUME NEW p \in Search!Policies, NEW wanted \in SUBSET Search!AllowedColumns(p),
           NEW metrics \in SUBSET Search!AllowedMetrics(p), NEW values \in SUBSET KnownValues,
           \A v \in values : ColumnOf[v] \in wanted
    PROVE  LET r == Search!Response(p, 1, Search!InContext(Search!AllowedColumns(p), wanted), metrics, values, {})
           IN  /\ r \in Search!Responses /\ Search!Authorized(p, r) /\ Search!Closed(r)
               /\ wanted \subseteq Search!In(r.columns) /\ Search!In(r.metrics) = metrics
<1> DEFINE allowed == Search!AllowedColumns(p)
           near == Search!WithReferences(allowed, wanted)
           cols == Search!InContext(allowed, wanted)
           r == Search!Response(p, 1, cols, metrics, values, {})
<1>1. wanted \subseteq near /\ near \subseteq allowed
  BY DEF Search!WithReferences
<1>2. cols = near \cup {c \in KeyColumns \cap allowed : TableOf[c] \in Search!TablesOf(near)}
  BY DEF Search!InContext, Search!WithKeys
<1>3. \A t : t \in Search!TablesOf(cols) => t \in Search!TablesOf(near)
  BY <1>2 DEF Search!TablesOf
<1>4. /\ wanted \subseteq cols /\ cols \subseteq allowed
      /\ \A c \in KeyColumns \cap allowed : TableOf[c] \in Search!TablesOf(cols) => c \in cols
  BY <1>1, <1>2, <1>3
<1>5. allowed \subseteq Columns /\ \A c \in allowed : TableOf[c] \in Search!VisibleTables(p) /\ TableOf[c] \in Tables
  BY RecallAssumption DEF Search!SearchAssumption, Search!ResourcesAssumption, Search!Policies,
     Search!AllowedColumns, Search!VisibleTables
<1> HIDE DEF near, cols
<1>6. /\ r.columns = [c \in Columns |-> IF c \in cols THEN 1 ELSE 0]
      /\ r.shown = {c \in cols : Reference[c] \in allowed}
      /\ r.tables = [t \in Tables |-> IF t \in Search!TablesOf(cols) \cap Search!VisibleTables(p) THEN 1 ELSE 0]
      /\ r.keys = {c \in KeyColumns \cap allowed : TableOf[c] \in Search!TablesOf(cols)}
      /\ r.metrics = [m \in Metrics |-> IF m \in metrics THEN 1 ELSE 0]
      /\ r.values = values /\ r.failures = {}
      /\ r = [columns |-> r.columns, shown |-> r.shown, tables |-> r.tables, keys |-> r.keys,
              metrics |-> r.metrics, values |-> r.values, failures |-> r.failures]
  BY DEF Search!Response
<1>7. 1 \in Search!Versions /\ 0 \in Search!Versions
  <2>1. MaxCatalogs \in Nat \ {0}
    BY RecallAssumption DEF Search!SearchAssumption, Search!ResourcesAssumption
  <2> QED BY <2>1 DEF Search!Versions
<1>8. \A c \in cols : TableOf[c] \in Tables /\ TableOf[c] \in Search!VisibleTables(p) /\ TableOf[c] \in Search!TablesOf(cols)
  BY <1>4, <1>5 DEF Search!TablesOf
<1>9. metrics \subseteq Metrics
  BY DEF Search!AllowedMetrics
<1> HIDE DEF r, allowed
<1>10. Search!In(r.columns) = cols /\ Search!In(r.metrics) = metrics
  BY <1>4, <1>5, <1>6, <1>9 DEF Search!In
<1>11. (\A c \in cols : TableOf[c] \in Search!In(r.tables)) /\ Search!In(r.tables) \subseteq Search!VisibleTables(p)
  BY <1>6, <1>8 DEF Search!In
<1>12. r \in Search!Responses
  <2>1. r.columns \in [Columns -> Search!Versions] /\ r.tables \in [Tables -> Search!Versions]
        /\ r.metrics \in [Metrics -> Search!Versions]
    BY <1>6, <1>7
  <2>2. r.shown \subseteq Columns /\ r.keys \subseteq Columns
    BY <1>4, <1>5, <1>6
  <2> QED BY <1>6, <2>1, <2>2 DEF Search!Responses
<1>13. Search!Closed(r)
  <2>1. r.keys \subseteq cols /\ r.shown \subseteq cols /\ \A v \in r.values : ColumnOf[v] \in cols
    BY <1>4, <1>6 DEF allowed
  <2> QED BY <1>10, <1>11, <2>1 DEF Search!Closed, Search!TablesOf
<1>14. Search!Authorized(p, r)
  <2>1. /\ cols \subseteq Search!AllowedColumns(p) /\ r.keys \subseteq Search!AllowedColumns(p)
        /\ \A c \in r.shown : c \in Search!AllowedColumns(p) /\ Reference[c] \in Search!AllowedColumns(p)
        /\ \A v \in r.values : ColumnOf[v] \in Search!AllowedColumns(p)
    BY <1>4, <1>6 DEF allowed
  <2>2. \A m \in metrics : Needs[m] \subseteq Search!AllowedColumns(p) /\ (Needs[m] = {} => p.database)
    BY DEF Search!AllowedMetrics
  <2> QED BY <1>10, <1>11, <2>1, <2>2 DEF Search!Authorized
<1> QED BY <1>4, <1>10, <1>12, <1>13, <1>14 DEF r, cols, allowed

(* The best of an order are a sequence of what was found, no longer than   *)
(* the limit.                                                              *)
LEMMA FirstOfIs ==
    ASSUME NEW S, NEW n \in Nat, NEW order \in [1 .. n -> S]
    PROVE  /\ Search!FirstOf(order) \in Seq(S) /\ Len(Search!FirstOf(order)) <= Limit
           /\ Len(order) = n
<1>1. Limit \in Nat /\ Limit >= 1
  BY RecallAssumption DEF Search!SearchAssumption
<1>2. Len(order) = n
  OBVIOUS
<1>3. PICK k \in Nat : k = Search!Min({n, Limit}) /\ k <= n /\ k <= Limit
  <2> DEFINE least == IF n <= Limit THEN n ELSE Limit
  <2>1. \E x \in {n, Limit} : \A y \in {n, Limit} : x =< y
    <3>1. least \in {n, Limit} /\ \A y \in {n, Limit} : least =< y
      BY <1>1
    <3> QED BY <3>1
  <2>2. Search!Min({n, Limit}) \in {n, Limit} /\ \A y \in {n, Limit} : Search!Min({n, Limit}) =< y
    BY <2>1 DEF Search!Min
  <2> QED BY <1>1, <2>2
<1>4. Search!FirstOf(order) = [i \in 1 .. k |-> order[i]]
  BY <1>2, <1>3 DEF Search!FirstOf
<1>5. Search!FirstOf(order) \in [1 .. k -> S]
  BY <1>3, <1>4
<1> DEFINE best == Search!FirstOf(order)
<1>6. best \in [1 .. k -> S]
  BY <1>5
<1> HIDE DEF best
<1>7. best \in Seq(S) /\ Len(best) = k
  BY <1>6
<1> QED BY <1>2, <1>3, <1>7 DEF best

LEMMA OrdersAre ==
    ASSUME NEW answers, NEW known, IsFiniteSet(known), NEW order \in Search!Orders(answers, known)
    PROVE  \E n \in Nat : order \in [1 .. n -> known]
<1> DEFINE found == Search!Found(answers) \cap known
<1>1. order \in [1 .. Cardinality(found) -> found]
  BY SearchCardinality DEF Search!Orders
<1>2. Cardinality(found) \in Nat
  BY FS_Subset, FS_CardinalityType
<1> HIDE DEF found
<1>3. order \in [1 .. Cardinality(found) -> known]
  BY <1>1 DEF found
<1> QED BY <1>2, <1>3

Best == /\ ranked["column"] \in Seq(Search!AllowedColumns(policy))
        /\ ranked["metric"] \in Seq(Search!AllowedMetrics(policy))
        /\ ranked["value"] \in Seq(Search!Known["value"])

Past(type) ==
    \/ stage \in {"build", "done"}
    \/ stage = "value" /\ type \in {"column", "metric"}
    \/ stage = "metric" /\ type = "column"
Heard(type) ==
    Search!Searched(type) => /\ <<type, "fulltext">> \in failures \cup answered
                             /\ type # "value" => <<type, "vector">> \in failures \cup answered
Reported == /\ \A type \in {"column", "metric"} :
               (stage # "embed" /\ ~embedded /\ Search!Searched(type)) => <<type, "vector">> \in failures
        /\ \A type \in Search!Types : Past(type) => Heard(type)

IsUsable ==
    stage = "done" =>
        /\ response \in Search!Responses /\ Search!Authorized(policy, response) /\ Search!Closed(response)
        /\ clipped \/ \A m \in Search!In(response.metrics) : Needs[m] \subseteq Search!In(response.columns)

SearchInv == Search!TypeOK /\ Best /\ Reported /\ IsUsable

LEMMA SearchInitInv == Search!Init => SearchInv
<1> SUFFICES ASSUME Search!Init PROVE SearchInv
  OBVIOUS
<1>1. /\ policy \in Search!Policies /\ types \subseteq Search!Types /\ stage = "embed"
      /\ embedded = FALSE /\ clipped = FALSE /\ ranked = [t \in Search!Types |-> <<>>]
      /\ failures = {} /\ answered = {} /\ response = Absent
  BY DEF Search!Init
<1>2. \A t \in Search!Types : ranked[t] = <<>>
  BY <1>1
<1>3. Limit \in Nat
  BY RecallAssumption DEF Search!SearchAssumption
<1>4. Search!TypeOK
  <2>1. \A S : <<>> \in Seq(S)
    OBVIOUS
  <2>2. ranked \in [Search!Types -> Seq(Columns \cup Metrics \cup KnownValues)]
    BY <1>1, <2>1
  <2>3. \A t \in Search!Types : Len(ranked[t]) <= Limit
    BY <1>2, <1>3
  <2> QED BY <1>1, <2>2, <2>3 DEF Search!TypeOK
<1>5. Best
  <2>1. \A S : <<>> \in Seq(S)
    OBVIOUS
  <2>2. ranked["column"] = <<>> /\ ranked["metric"] = <<>> /\ ranked["value"] = <<>>
    BY <1>2 DEF Search!Types
  <2> QED BY <2>1, <2>2 DEF Best
<1>6. Reported /\ IsUsable
  BY <1>1 DEF Reported, Past, IsUsable
<1> QED BY <1>4, <1>5, <1>6 DEF SearchInv

LEMMA EmbedKeeps == SearchInv /\ Search!Embed => SearchInv'
<1> SUFFICES ASSUME SearchInv, Search!Embed PROVE SearchInv'
  OBVIOUS
<1> DEFINE wanted == {type \in {"column", "metric"} : Search!Searched(type)}
<1>1. /\ stage = "embed" /\ stage' = "column" /\ policy' = policy /\ types' = types
      /\ ranked' = ranked /\ clipped' = clipped /\ answered' = answered /\ response' = response
      /\ \/ embedded' = TRUE /\ failures' = failures
         \/ embedded' = FALSE /\ failures' = {<<type, "vector">> : type \in wanted}
  BY DEF Search!Embed
<1>2. Search!TypeOK
  BY DEF SearchInv
<1>3. embedded' \in BOOLEAN /\ failures' \subseteq Search!Types \X Search!Channels
  <2>1. {<<type, "vector">> : type \in wanted} \subseteq Search!Types \X Search!Channels
    BY DEF Search!Types, Search!Channels
  <2>2. failures \subseteq Search!Types \X Search!Channels
    BY <1>2 DEF Search!TypeOK
  <2> HIDE DEF wanted
  <2> QED BY <1>1, <2>1, <2>2
<1>4. Search!TypeOK'
  BY <1>1, <1>2, <1>3 DEF Search!TypeOK
<1>5. Best'
  BY <1>1 DEF SearchInv, Best, Search!Known
<1>6. Reported'
  <2>1. \A type \in Search!Types : ~Past(type)'
    BY <1>1 DEF Past
  <2>2. ASSUME NEW type \in {"column", "metric"}, ~embedded', Search!Searched(type)'
        PROVE  <<type, "vector">> \in failures'
    <3>1. Search!Searched(type)
      BY <1>1, <2>2 DEF Search!Searched, Search!Known
    <3>2. type \in wanted
      BY <3>1
    <3> QED BY <1>1, <2>2, <3>2
  <2> QED BY <2>1, <2>2 DEF Reported
<1>7. IsUsable'
  BY <1>1 DEF IsUsable
<1> QED BY <1>4, <1>5, <1>6, <1>7 DEF SearchInv

LEMMA CollectKeeps ==
    ASSUME SearchInv, NEW type \in Search!Types, NEW universe, NEW next \in {"metric", "value", "build"},
           type = "column" => next = "metric", type = "metric" => next = "value",
           type = "value" => next = "build", Search!Collect(type, universe, next)
    PROVE  SearchInv'
<1> DEFINE channels == IF type # "value" /\ embedded THEN Search!Channels ELSE {"fulltext"}
<1>1. /\ stage = type /\ stage' = next /\ policy' = policy /\ types' = types
      /\ embedded' = embedded /\ response' = response
  BY DEF Search!Collect
<1>2. Search!TypeOK /\ policy \in Search!Policies
  BY DEF SearchInv, Search!TypeOK
<1>3. \/ /\ ~Search!Searched(type) /\ failures' = failures /\ answered' = answered
         /\ ranked' = ranked /\ clipped' = clipped
      \/ \E lost \in SUBSET channels, best \in Seq(Search!Known[type]) :
             /\ Len(best) <= Limit
             /\ failures' = failures \cup ({type} \X lost)
             /\ answered' = answered \cup ({type} \X (channels \ lost))
             /\ ranked' = [ranked EXCEPT ![type] = best] /\ clipped' \in BOOLEAN
  <2>1. CASE ~Search!Searched(type)
    BY <2>1 DEF Search!Collect
  <2>2. CASE Search!Searched(type)
    <3>1. PICK lost, answers, order :
              /\ lost \in SUBSET channels
              /\ order \in Search!Orders(answers, Search!Known[type])
              /\ failures' = failures \cup ({type} \X lost)
              /\ answered' = answered \cup ({type} \X (channels \ lost))
              /\ ranked' = [ranked EXCEPT ![type] = Search!FirstOf(order)]
              /\ clipped' = (clipped \/ Len(order) > Limit)
      BY <2>2, Zenon DEF Search!Collect
    <3>2. IsFiniteSet(Search!Known[type])
      <4>1. IsFiniteSet(Columns) /\ IsFiniteSet(Metrics) /\ IsFiniteSet(KnownValues)
        BY RecallAssumption, SearchFinite DEF Search!SearchAssumption
      <4>2. Search!AllowedColumns(policy) \subseteq Columns
        BY <1>2 DEF Search!AllowedColumns, Search!Policies
      <4>3. Search!AllowedMetrics(policy) \subseteq Metrics
        BY DEF Search!AllowedMetrics
      <4>4. Search!Known["column"] \subseteq Columns /\ Search!Known["metric"] \subseteq Metrics /\ Search!Known["value"] \subseteq KnownValues
        BY <4>2, <4>3 DEF Search!Known
      <4>5. IsFiniteSet(Search!Known["column"]) /\ IsFiniteSet(Search!Known["metric"]) /\ IsFiniteSet(Search!Known["value"])
        BY <4>1, <4>4, FS_Subset
      <4> QED BY <4>5 DEF Search!Types
    <3>3. PICK n \in Nat : order \in [1 .. n -> Search!Known[type]]
      BY <3>1, <3>2, OrdersAre
    <3>4. Search!FirstOf(order) \in Seq(Search!Known[type]) /\ Len(Search!FirstOf(order)) <= Limit
      BY <3>3, FirstOfIs
    <3> HIDE DEF channels
    <3> QED BY <3>1, <3>4
  <2> QED BY <2>1, <2>2
<1>4. /\ failures \subseteq failures' /\ answered \subseteq answered'
      /\ failures' \subseteq Search!Types \X Search!Channels /\ answered' \subseteq Search!Types \X Search!Channels
      /\ clipped' \in BOOLEAN
  <2>1. channels \subseteq Search!Channels
    BY DEF Search!Channels
  <2>2. failures \subseteq Search!Types \X Search!Channels /\ answered \subseteq Search!Types \X Search!Channels /\ clipped \in BOOLEAN
    BY <1>2 DEF Search!TypeOK
  <2> HIDE DEF channels
  <2> QED BY <1>3, <2>1, <2>2
<1>5. /\ Search!Known["column"] = Search!AllowedColumns(policy) /\ Search!Known["metric"] = Search!AllowedMetrics(policy)
      /\ Search!Known["value"] \subseteq KnownValues
      /\ Search!AllowedColumns(policy) \subseteq Columns /\ Search!AllowedMetrics(policy) \subseteq Metrics
  BY <1>2 DEF Search!Known, Search!AllowedColumns, Search!AllowedMetrics, Search!Policies
<1>6. /\ ranked' \in [Search!Types -> Seq(Columns \cup Metrics \cup KnownValues)]
      /\ \A t \in Search!Types : Len(ranked'[t]) <= Limit
      /\ \A t \in Search!Types : ranked'[t] = ranked[t] \/ (t = type /\ ranked'[t] \in Seq(Search!Known[t]))
  <2>1. /\ ranked \in [Search!Types -> Seq(Columns \cup Metrics \cup KnownValues)]
        /\ \A t \in Search!Types : Len(ranked[t]) <= Limit
    BY <1>2 DEF Search!TypeOK
  <2>2. CASE ranked' = ranked
    BY <2>1, <2>2
  <2>3. ASSUME NEW best \in Seq(Search!Known[type]), Len(best) <= Limit, ranked' = [ranked EXCEPT ![type] = best]
        PROVE  <1>6!1 /\ <1>6!2 /\ <1>6!3
    <3>1. Search!Known[type] \subseteq Columns \cup Metrics \cup KnownValues
      BY <1>5 DEF Search!Types
    <3>2. best \in Seq(Columns \cup Metrics \cup KnownValues)
      BY <3>1
    <3>3. ranked'[type] = best /\ \A t \in Search!Types \ {type} : ranked'[t] = ranked[t]
      BY <2>1, <2>3
    <3>4. ranked' \in [Search!Types -> Seq(Columns \cup Metrics \cup KnownValues)]
      BY <2>1, <2>3, <3>2
    <3> QED BY <2>1, <2>3, <3>3, <3>4
  <2> QED BY <1>3, <2>2, <2>3
<1>7. Search!TypeOK'
  BY <1>1, <1>2, <1>4, <1>6 DEF Search!TypeOK
<1>8. Best'
  <2>1. Search!Known' = Search!Known
    BY <1>1 DEF Search!Known
  <2>2. "column" \in Search!Types /\ "metric" \in Search!Types /\ "value" \in Search!Types
    BY DEF Search!Types
  <2>3. Best
    BY DEF SearchInv
  <2> QED BY <1>1, <1>5, <1>6, <2>1, <2>2, <2>3 DEF Best
<1>9. Reported'
  <2>1. \A t \in Search!Types : Search!Searched(t)' <=> Search!Searched(t)
    BY <1>1 DEF Search!Searched, Search!Known
  <2>2. Reported
    BY DEF SearchInv
  <2>3. stage # "embed"
    BY <1>1 DEF Search!Types
  <2>4. ASSUME NEW t \in {"column", "metric"}, ~embedded, Search!Searched(t)
        PROVE  <<t, "vector">> \in failures
    BY <2>2, <2>3, <2>4 DEF Reported
  <2>5. ASSUME NEW t \in {"column", "metric"}, ~embedded', Search!Searched(t)'
        PROVE  <<t, "vector">> \in failures'
    BY <1>1, <1>4, <2>1, <2>4, <2>5 DEF Search!Types
  <2>6. ASSUME NEW t \in Search!Types, t # type, Past(t)' PROVE Heard(t)'
    <3>1. Past(t)
      BY <1>1, <2>6 DEF Past, Search!Types
    <3>2. Heard(t)
      BY <2>2, <3>1 DEF Reported
    <3> QED BY <1>4, <2>1, <3>2 DEF Heard
  <2>7. Heard(type)'
    <3> SUFFICES ASSUME Search!Searched(type)
                 PROVE  /\ <<type, "fulltext">> \in failures' \cup answered'
                        /\ type # "value" => <<type, "vector">> \in failures' \cup answered'
      BY <2>1 DEF Heard
    <3>1. PICK lost \in SUBSET channels :
              /\ failures' = failures \cup ({type} \X lost)
              /\ answered' = answered \cup ({type} \X (channels \ lost))
      BY <1>3
    <3>2. "fulltext" \in channels
      BY DEF Search!Channels
    <3>3. type # "value" /\ embedded => "vector" \in channels
      BY DEF Search!Channels
    <3>4. type # "value" /\ ~embedded => <<type, "vector">> \in failures
      BY <2>4 DEF Search!Types
    <3> HIDE DEF channels
    <3>5. \A ch \in channels : <<type, ch>> \in failures' \cup answered'
      BY <3>1
    <3> QED BY <1>2, <1>4, <3>2, <3>3, <3>4, <3>5
  <2> QED BY <2>5, <2>6, <2>7 DEF Reported
<1>10. IsUsable'
  BY <1>1 DEF IsUsable
<1> QED BY <1>7, <1>8, <1>9, <1>10 DEF SearchInv

LEMMA BuildKeeps == SearchInv /\ Search!Build => SearchInv'
<1> SUFFICES ASSUME SearchInv, Search!Build PROVE SearchInv'
  OBVIOUS
<1> DEFINE wanted == Search!Fitting \cup Search!Owning
           metrics == Search!ToSet(ranked.metric)
           values == Search!ToSet(ranked.value)
<1>1. /\ stage = "build" /\ stage' = "done" /\ policy' = policy /\ types' = types
      /\ embedded' = embedded /\ ranked' = ranked /\ failures' = failures /\ answered' = answered
      /\ clipped' = (clipped \/ Search!Fitting # Search!Wanted)
      /\ response' = Search!Response(policy, 1, Search!InContext(Search!AllowedColumns(policy), wanted), metrics, values, {})
  BY DEF Search!Build
<1>2. Search!TypeOK /\ policy \in Search!Policies
  BY DEF SearchInv, Search!TypeOK
<1>3. /\ \A i \in DOMAIN ranked.column : ranked.column[i] \in Search!AllowedColumns(policy)
      /\ \A i \in DOMAIN ranked.metric : ranked.metric[i] \in Search!AllowedMetrics(policy)
      /\ \A i \in DOMAIN ranked.value : ranked.value[i] \in Search!Known["value"]
  BY DEF SearchInv, Best
<1>4. \A m \in Search!AllowedMetrics(policy) : Needs[m] \subseteq Search!AllowedColumns(policy)
  BY DEF Search!AllowedMetrics
<1>5. Search!Known["value"] \subseteq KnownValues /\ \A v \in Search!Known["value"] : ColumnOf[v] \in Search!AllowedColumns(policy)
  BY DEF Search!Known
<1>6. Search!Fitting \subseteq Search!AllowedColumns(policy)
  BY <1>3, <1>4 DEF Search!Fitting, Search!Matched
<1>7. Search!Owning \subseteq Search!AllowedColumns(policy)
  BY <1>3, <1>5 DEF Search!Owning
<1>8. /\ metrics \subseteq Search!AllowedMetrics(policy) /\ values \subseteq KnownValues
      /\ \A v \in values : ColumnOf[v] \in Search!Owning
  BY <1>3, <1>5 DEF Search!ToSet, Search!Owning
<1>9. Search!Fitting = Search!Wanted => \A m \in metrics : Needs[m] \subseteq wanted
  BY DEF Search!Wanted, Search!Needed, Search!ToSet
<1> HIDE DEF wanted, metrics, values
<1>10. /\ response' \in Search!Responses /\ Search!Authorized(policy, response') /\ Search!Closed(response')
       /\ wanted \subseteq Search!In(response'.columns) /\ Search!In(response'.metrics) = metrics
  <2>1. wanted \in SUBSET Search!AllowedColumns(policy) /\ \A v \in values : ColumnOf[v] \in wanted
    BY <1>6, <1>7, <1>8 DEF wanted
  <2> QED BY <1>1, <1>2, <1>8, <2>1, FoundIs
<1>11. IsUsable'
  <2>1. clipped' \/ \A m \in Search!In(response'.metrics) : Needs[m] \subseteq Search!In(response'.columns)
    BY <1>1, <1>9, <1>10
  <2> QED BY <1>1, <1>10, <2>1 DEF IsUsable
<1>12. Search!TypeOK'
  <2>1. clipped' \in BOOLEAN
    BY <1>1, <1>2 DEF Search!TypeOK
  <2> QED BY <1>1, <1>2, <1>10, <2>1 DEF Search!TypeOK
<1>13. Best'
  BY <1>1 DEF SearchInv, Best, Search!Known
<1>14. Reported'
  <2>1. \A t \in Search!Types : Past(t) /\ (Search!Searched(t)' <=> Search!Searched(t))
    BY <1>1 DEF Past, Search!Searched, Search!Known
  <2>2. Reported
    BY DEF SearchInv
  <2> QED BY <1>1, <2>1, <2>2 DEF Reported, Heard, Search!Types
<1> QED BY <1>11, <1>12, <1>13, <1>14 DEF SearchInv

LEMMA SearchInvStep == SearchInv /\ [Search!Next]_(Search!vars) => SearchInv'
<1> SUFFICES ASSUME SearchInv, [Search!Next]_(Search!vars) PROVE SearchInv'
  OBVIOUS
<1>1. CASE UNCHANGED Search!vars
  BY <1>1 DEF Search!vars, SearchInv, Search!TypeOK, Best, Reported, IsUsable, Past, Heard,
     Search!Searched, Search!Known
<1>0. "column" \in Search!Types /\ "metric" \in Search!Types /\ "value" \in Search!Types
  BY DEF Search!Types
<1>2. CASE Search!Collect("column", Columns, "metric")
  BY <1>0, <1>2, CollectKeeps
<1>3. CASE Search!Collect("metric", Metrics, "value")
  BY <1>0, <1>3, CollectKeeps
<1>4. CASE Search!Collect("value", KnownValues, "build")
  BY <1>0, <1>4, CollectKeeps
<1> QED BY <1>1, <1>2, <1>3, <1>4, EmbedKeeps, BuildKeeps DEF Search!Next

LEMMA SearchesAreSound == SearchInv => Search!SearchIsSound
<1> SUFFICES ASSUME SearchInv PROVE Search!SearchIsSound
  OBVIOUS
<1>1. Search!AnswersAreAuthorized /\ Search!AnswersAreUsable
  BY DEF SearchInv, IsUsable, Search!AnswersAreAuthorized, Search!AnswersAreUsable
<1>2. Search!FailuresAreTold
  <2> SUFFICES ASSUME stage = "done", NEW type \in Search!Types, NEW channel \in Search!Channels, Search!Searched(type),
                      type = "value" => channel = "fulltext"
               PROVE  <<type, channel>> \in failures \cup answered
    BY DEF Search!FailuresAreTold
  <2>1. Heard(type)
    BY DEF SearchInv, Reported, Past
  <2> QED BY <2>1 DEF Heard, Search!Channels
<1> QED BY <1>1, <1>2 DEF Search!SearchIsSound

-----------------------------------------------------------------------------
(* The three parts.  Each keeps its invariant whichever part moves.        *)

MetadataInv == CatalogInv /\ IndexInv /\ SyncInv

LEMMA MetadataInvInit == MetadataInit => MetadataInv
BY CatalogInvInit, IndexInit, SyncInit DEF MetadataInit, MetadataInv

LEMMA MetadataInvNext == MetadataInv /\ [MetadataNext]_metadataVars => MetadataInv'
<1> SUFFICES ASSUME MetadataInv, [MetadataNext]_metadataVars PROVE MetadataInv'
  OBVIOUS
<1>1. /\ [Catalog!Next]_(Catalog!catalogVars) /\ [Entries!Next]_(Entries!indexVars)
      /\ [Sync!Next]_(Sync!vars)
  <2>1. UNCHANGED catalogVars => UNCHANGED Catalog!catalogVars
    BY DEF catalogVars, Catalog!catalogVars
  <2>2. UNCHANGED entryVars => UNCHANGED Entries!indexVars
    BY DEF entryVars, Entries!indexVars
  <2>3. UNCHANGED valueVars => UNCHANGED Sync!vars
    BY DEF valueVars, Sync!vars, Sync!catalogVars
  <2>4. CASE UNCHANGED metadataVars
    BY <2>1, <2>2, <2>3, <2>4 DEF metadataVars
  <2>5. CASE CatalogStep
    BY <2>2, <2>3, <2>5 DEF CatalogStep
  <2>6. CASE EntryStep
    BY <2>1, <2>3, <2>6 DEF EntryStep
  <2>7. CASE ValueStep
    BY <2>1, <2>2, <2>7 DEF ValueStep
  <2> QED BY <2>4, <2>5, <2>6, <2>7 DEF MetadataNext
<1>2. CatalogInv'
  BY <1>1, CatalogInvStep DEF MetadataInv
<1>3. IndexInv'
  BY <1>1, IndexStep DEF MetadataInv
<1>4. SyncInv'
  BY <1>1, SyncStep DEF MetadataInv
<1> QED BY <1>2, <1>3, <1>4 DEF MetadataInv

LEMMA MetadataInvHolds == MetadataSpec => []MetadataInv
BY MetadataInvInit, MetadataInvNext, PTL DEF MetadataSpec

(* Every variable of the part that moves has its type.                     *)
THEOREM MetadataTypesKept == MetadataSpec => []MetadataTypes
<1>1. MetadataInv => MetadataTypes
  BY DEF MetadataInv, CatalogInv, IndexInv, SyncInv, MetadataTypes
<1> QED BY <1>1, MetadataInvHolds, PTL

(* Whatever administrators do at the same time, the foreign keys of the    *)
(* catalogue hold, a cascade goes no further than the check of a deletion  *)
(* saw, an import that nobody overtook takes effect, and what is exported  *)
(* can be imported again.  When every task has run, the documents of an    *)
(* entry are those of its row, unless a notification was lost or a         *)
(* deletion met a task that writes.  A committed cursor has left no value  *)
(* behind that is not indexed, but for what a clear or a run without the   *)
(* row took away.                                                          *)
THEOREM MetadataStaysKept == MetadataSpec => []MetadataIsKept
<1>1. MetadataInv => MetadataIsKept
  BY CatalogIsSafe, IndexIsCurrent, CommittedIsIndexed DEF MetadataInv, MetadataIsKept
<1> QED BY <1>1, MetadataInvHolds, PTL

-----------------------------------------------------------------------------
(* A search beside the recalls of a conversation.                          *)

RecallingInv == SearchInv /\ RecallInv

LEMMA RecallingInvInit == RecallInit => RecallingInv
BY SearchInitInv, RecallInitInv DEF RecallInit, RecallingInv

LEMMA RecallingInvNext == RecallingInv /\ [RecallNext]_recallingVars => RecallingInv'
<1> SUFFICES ASSUME RecallingInv, [RecallNext]_recallingVars PROVE RecallingInv'
  OBVIOUS
<1>1. CASE UNCHANGED <<searchVars, recallVars>>
  <2>1. UNCHANGED Search!vars /\ UNCHANGED Recalls!vars
    BY <1>1 DEF searchVars, recallVars, Search!vars, Recalls!vars
  <2> QED BY <2>1, SearchInvStep, RecallInvStep DEF RecallingInv
<1>2. CASE SearchStep
  <2>1. Search!Next /\ UNCHANGED Recalls!vars
    BY <1>2 DEF SearchStep, recallVars, Recalls!vars
  <2> QED BY <2>1, SearchInvStep, RecallInvStep DEF RecallingInv
<1>3. CASE RecallStep
  <2>1. Recalls!Next /\ UNCHANGED Search!vars
    BY <1>3 DEF RecallStep, searchVars, Search!vars
  <2> QED BY <2>1, SearchInvStep, RecallInvStep DEF RecallingInv
<1> QED BY <1>1, <1>2, <1>3 DEF RecallNext, recallingVars

LEMMA RecallingInvHolds == RecallSpec => []RecallingInv
<1> QED BY RecallingInvInit, RecallingInvNext, PTL DEF RecallSpec

(* The types of a search and of the recalls of a conversation: the ranking *)
(* of a search keeps to its limit, whatever the indexes answer; a snapshot *)
(* is made of what the catalogue has, and the readers and writers of a     *)
(* query hold what they may.                                               *)
THEOREM RecallTypesKept == RecallSpec => []RecallTypes
<1>1. RecallingInv => RecallTypes
  BY DEF RecallingInv, SearchInv, RecallInv, RecallTypes
<1> QED BY <1>1, RecallingInvHolds, PTL

(* Whatever the indexes answer, in whatever order and whichever of them    *)
(* fail, a search returns only what the policy allows, complete enough to  *)
(* be used, and tells each channel it did not hear. Whatever recalls, merges *)
(* and deletions do at the same time, a conversation answers only what the *)
(* policy of the call allows, keeps snapshots whose parts belong together, *)
(* tells its readers every change, loses no recall to another, revives no  *)
(* experience that was deleted, and has no circle of calls each waiting    *)
(* for the next.                                                           *)
THEOREM RecallsStaySafe == RecallSpec => []RecallsAreSafe
<1>1. RecallingInv => RecallsAreSafe
  BY SearchesAreSound, RecallsAreSound DEF RecallingInv, RecallsAreSafe
<1> QED BY <1>1, RecallingInvHolds, PTL
===============================================================================
