----------------------------- MODULE QueryResults -----------------------------
(***************************************************************************)
(* Reading the result of a query: batches from a server-side cursor are    *)
(* written to a temporary file row by row, while the schema, the time      *)
(* range and a sample are kept for the answer; the file becomes an         *)
(* artifact when all rows are in it.  One column stands for all of them,   *)
(* since each has statistics of its own.                                   *)
(***************************************************************************)
EXTENDS Naturals, Sequences, FiniteSets, FiniteSetsExt

CONSTANTS
    MaxRows,      \* bound on the rows of a result
    SampleRows    \* sample_rows

ResultsAssumption == MaxRows \in Nat /\ SampleRows \in Nat

Numbers == {"integer", "decimal"}
Dates == {"date", "datetime"}

(* A value is of a type; a date and a time on day 1 or 2 also has a place  *)
(* in the order of their isoformat texts, where a day precedes its times.  *)
Null == [type |-> "null", at |-> 0]
Values ==
    {Null} \cup [type : Numbers \cup {"string"}, at : {0}]
    \cup [type : {"date"}, at : {2, 4}] \cup [type : {"datetime"}, at : {3, 5}]

Places == {0} \cup {v.at : v \in Values}

VARIABLES
    phase,      \* "connecting", "batch", "reading", "summed", "done" or "failed"
    inferred, nullable, start, end,    \* _ColumnStats
    sample, count,
    written,    \* rows in the temporary file, without the header
    artifact,   \* rows of the artifact, if there is one
    rows        \* history: the rows of the result

statVars == <<inferred, nullable, start, end>>
resultVars == <<phase, statVars, sample, count, written, artifact, rows>>

NoArtifact == [stored |-> FALSE, rows |-> <<>>]

Init ==
    /\ phase = "connecting"
    /\ inferred = "none" /\ nullable = FALSE /\ start = 0 /\ end = 0
    /\ sample = <<>> /\ count = 0 /\ written = <<>>
    /\ artifact = NoArtifact /\ rows = <<>>

(* A batch arrives.  The first one defines the columns; the repository     *)
(* yields an empty one if there is no row.                                 *)
ReceivesBatch ==
    /\ phase \in {"connecting", "batch"} /\ phase' = "reading"
    /\ UNCHANGED <<statVars, sample, count, written, artifact, rows>>

(* Names that are empty, repeated or different from the first batch's, a   *)
(* row of another width, an error of Doris or a timeout.                   *)
Fails ==
    /\ phase \notin {"done", "failed"} /\ phase' = "failed"
    /\ UNCHANGED <<statVars, sample, count, written, artifact, rows>>

Merged(current, observed) ==
    IF current \in {"none", observed} THEN observed
    ELSE IF {current, observed} \subseteq Numbers \cup {"number"} THEN "number"
    ELSE IF {current, observed} \subseteq Dates THEN "datetime"
    ELSE "mixed"

Observe(v) ==
    IF v = Null THEN nullable' = TRUE /\ UNCHANGED <<inferred, start, end>>
    ELSE /\ inferred' = Merged(inferred, v.type)
         /\ start' = IF v.type \in Dates /\ (start = 0 \/ v.at < start) THEN v.at ELSE start
         /\ end' = IF v.type \in Dates /\ (end = 0 \/ v.at > end) THEN v.at ELSE end
         /\ UNCHANGED nullable

ReadsRow(v) ==
    /\ phase = "reading" /\ count < MaxRows
    /\ Observe(v)
    /\ written' = Append(written, v)
    /\ sample' = IF Len(sample) < SampleRows THEN Append(sample, v) ELSE sample
    /\ count' = count + 1
    /\ rows' = Append(rows, v)
    /\ UNCHANGED <<phase, artifact>>

(* The batch ends; another follows or the cursor is exhausted.             *)
EndsBatch ==
    /\ phase = "reading" /\ phase' \in {"batch", "summed"}
    /\ phase' = "batch" => count > 0
    /\ UNCHANGED <<statVars, sample, count, written, artifact, rows>>

Exhausted ==
    /\ phase = "batch" /\ phase' = "summed"
    /\ UNCHANGED <<statVars, sample, count, written, artifact, rows>>

StoresArtifact ==
    /\ phase = "summed" /\ phase' = "done"
    /\ artifact' = [stored |-> TRUE, rows |-> written]
    /\ UNCHANGED <<statVars, sample, count, written, rows>>

Next ==
    \/ ReceivesBatch \/ EndsBatch \/ Exhausted \/ StoresArtifact \/ Fails
    \/ \E v \in Values : ReadsRow(v)

Spec == Init /\ [][Next]_resultVars

(* What the answer says of the column: an empty result may have nulls, too. *)
MayBeNull == nullable \/ count = 0

-----------------------------------------------------------------------------
(* Properties.                                                             *)

TypeOK ==
    /\ phase \in {"connecting", "batch", "reading", "summed", "done", "failed"}
    /\ inferred \in {"none", "number", "mixed", "string"} \cup Numbers \cup Dates
    /\ nullable \in BOOLEAN /\ count \in 0 .. MaxRows
    /\ start \in Places /\ end \in Places
    /\ rows \in Seq(Values) /\ sample \in Seq(Values) /\ written \in Seq(Values)
    /\ artifact.stored \in BOOLEAN /\ artifact.rows \in Seq(Values)

Seen == {rows[i] : i \in DOMAIN rows}
Types == {v.type : v \in Seen \ {Null}}
Stamps == {v.at : v \in {w \in Seen : w.type \in Dates}}

(* The type of a column is a matter of the set of its values' types.       *)
TypeOfSet(T) ==
    IF T = {} THEN "none"
    ELSE IF Cardinality(T) = 1 THEN CHOOSE t \in T : TRUE
    ELSE IF T \subseteq Numbers THEN "number"
    ELSE IF T \subseteq Dates THEN "datetime" ELSE "mixed"

(* The summary an answer carries describes the file it names, in whatever  *)
(* order and in whatever batches the rows came, and a query that failed    *)
(* leaves no artifact.  A column is called nullable if a null was seen in  *)
(* it, and also if the result has no row.                                  *)
SummariesMatchFiles ==
    /\ artifact.stored <=> phase = "done"
    /\ phase = "done" =>
         /\ artifact.rows = rows /\ count = Len(rows)
         /\ inferred = TypeOfSet(Types)
         /\ MayBeNull <=> Null \in Seen \/ rows = <<>>
         /\ start = (IF Stamps = {} THEN 0 ELSE Min(Stamps))
         /\ end = (IF Stamps = {} THEN 0 ELSE Max(Stamps))
         /\ sample = SubSeq(rows, 1, Min({SampleRows, Len(rows)}))

=============================================================================
