----------------------------- MODULE SandboxFiles -----------------------------
(***************************************************************************)
(* File tools on one file of a workspace.  Calls run side by side, each    *)
(* under an operation lease of its own; new contents go through a staging  *)
(* file and replace the target at once, edits rewrite the target in place  *)
(* with a script that has a time limit.                                    *)
(***************************************************************************)
EXTENDS Naturals, Sequences, FiniteSets

CONSTANTS
    Calls,
    Tool,       \* tool of each call
    MaxSize,    \* max_file_bytes, in pieces of content
    Absent

Tools == {"write", "upload", "edit"}
FilesAssumption == Tool \in [Calls -> Tools] /\ MaxSize \in Nat \ {0}

VARIABLES
    step,      \* phase of each call
    content,   \* the file: the calls whose text it holds, or Absent
    inode,     \* the call whose upload became the file
    partial,   \* the file may hold less or more than one call's result
    staged,    \* calls with a file in the staging directory
    scratch,   \* calls with .old and .new files in the workspace
    base,      \* what an edit has read
    opened,    \* the file an edit has opened for writing
    overlaps,  \* edits that met another one in the same file
    answer,    \* what each call answers
    stranded   \* history: calls whose clean-up failed as well

fileVars == <<content, inode, partial>>
editVars == <<scratch, base, opened, overlaps>>
vars == <<step, fileVars, staged, editVars, answer, stranded>>

Init ==
    /\ step = [c \in Calls |-> "new"]
    /\ content = Absent /\ inode = Absent
    /\ partial = FALSE
    /\ staged = {} /\ scratch = {}
    /\ base = [c \in Calls |-> <<>>] /\ opened = [c \in Calls |-> Absent]
    /\ overlaps = {}
    /\ answer = [c \in Calls |-> "none"]
    /\ stranded = {}

At(c, s) == step[c] = s
Goes(c, s) == step' = [step EXCEPT ![c] = s]
Answers(c, a) == answer' = [answer EXCEPT ![c] = a]

-----------------------------------------------------------------------------
(* write() and upload_fileobj().                                           *)

(* write() looks whether the file exists before it uploads.                *)
Checks(c) ==
    /\ At(c, "new") /\ Tool[c] # "edit"
    /\ IF Tool[c] = "write" /\ content # Absent
       THEN Goes(c, "done") /\ Answers(c, "error")
       ELSE Goes(c, "staging") /\ UNCHANGED answer
    /\ UNCHANGED <<fileVars, staged, editVars, stranded>>

Stages(c) ==
    /\ At(c, "staging")
    /\ \/ staged' = staged \cup {c} /\ Goes(c, "committing") /\ UNCHANGED answer
       \/ staged' \in {staged, staged \cup {c}} /\ Goes(c, "clearing") /\ Answers(c, "error")
    /\ UNCHANGED <<fileVars, editVars, stranded>>

(* The script checks the directories and replaces the target.              *)
Commits(c) ==
    /\ At(c, "committing")
    /\ \/ /\ content' = <<c>> /\ inode' = c /\ partial' = FALSE
          /\ staged' = staged \ {c} /\ Answers(c, "ok")
       \/ Answers(c, "error") /\ UNCHANGED <<fileVars, staged>>
    /\ Goes(c, "clearing")
    /\ UNCHANGED <<editVars, stranded>>

(* The staging file is removed in any case; when that fails the answer is  *)
(* an error even for a file that was replaced.                             *)
Clears(c) ==
    /\ At(c, "clearing")
    /\ \/ staged' = staged \ {c} /\ UNCHANGED <<answer, stranded>>
       \/ stranded' = stranded \cup {c} /\ Answers(c, "error") /\ UNCHANGED staged
    /\ Goes(c, "done")
    /\ UNCHANGED <<fileVars, editVars>>

-----------------------------------------------------------------------------
(* edit()                                                                  *)

(* Both texts are uploaded first; what an incomplete upload left behind is *)
(* removed.                                                                *)
Scratches(c) ==
    /\ At(c, "new") /\ Tool[c] = "edit"
    /\ scratch' = scratch \cup {c}
    /\ Goes(c, "reading") \/ Goes(c, "sweeping")
    /\ UNCHANGED <<fileVars, staged, base, opened, overlaps, answer, stranded>>

(* The script reads the target.  It gives up on a missing file, a text     *)
(* that does not occur or occurs too often, and a result that is too large;*)
(* what another edit is writing may hold the text already.                 *)
ReadsTarget(c) ==
    /\ At(c, "reading")
    /\ \/ /\ content # Absent /\ Len(content) < MaxSize
          /\ base' = [base EXCEPT ![c] = content]
          /\ overlaps' = IF partial THEN overlaps \cup {c} ELSE overlaps
          /\ Goes(c, "opening") /\ UNCHANGED <<scratch, answer>>
       \/ /\ scratch' = scratch \ {c}
          /\ Goes(c, "done") /\ Answers(c, "error") /\ UNCHANGED <<base, overlaps>>
    /\ UNCHANGED <<fileVars, staged, opened, stranded>>

Truncates(c) ==
    /\ At(c, "opening")
    /\ content' = <<>> /\ partial' = TRUE
    /\ opened' = [opened EXCEPT ![c] = inode]
    /\ LET met == {d \in Calls : At(d, "rewriting") /\ opened[d] = inode} IN
           overlaps' = IF met = {} THEN overlaps ELSE overlaps \cup met \cup {c}
    /\ Goes(c, "rewriting")
    /\ UNCHANGED <<inode, staged, scratch, base, answer, stranded>>

(* A file that was replaced meanwhile is not the one that is written.      *)
Rewrites(c) ==
    /\ At(c, "rewriting")
    /\ IF opened[c] = inode
       THEN /\ content' = Append(base[c], c)
            /\ partial' \in IF c \in overlaps THEN BOOLEAN ELSE {FALSE}
       ELSE UNCHANGED <<content, partial>>
    /\ scratch' = scratch \ {c}
    /\ Goes(c, "done") /\ Answers(c, "ok")
    /\ UNCHANGED <<inode, staged, base, opened, overlaps, stranded>>

(* The time limit kills the script, whose output is then no answer.        *)
Killed(c) ==
    /\ step[c] \in {"reading", "opening", "rewriting"}
    /\ Goes(c, "sweeping")
    /\ UNCHANGED <<fileVars, staged, editVars, answer, stranded>>

Sweeps(c) ==
    /\ At(c, "sweeping")
    /\ \/ scratch' = scratch \ {c} /\ UNCHANGED stranded
       \/ stranded' = stranded \cup {c} /\ UNCHANGED scratch
    /\ Goes(c, "swept") /\ Answers(c, "error")
    /\ UNCHANGED <<fileVars, staged, base, opened, overlaps>>

Next ==
    \E c \in Calls :
        \/ Checks(c) \/ Stages(c) \/ Commits(c) \/ Clears(c)
        \/ Scratches(c) \/ ReadsTarget(c) \/ Truncates(c) \/ Rewrites(c)
        \/ Killed(c) \/ Sweeps(c)

Spec == Init /\ [][Next]_vars

-----------------------------------------------------------------------------
(* Properties.                                                             *)

Ended == {"done", "swept"}

TypeOK ==
    /\ step \in [Calls -> Ended \cup {"new", "staging", "committing", "clearing", "reading",
                                      "opening", "rewriting", "sweeping"}]
    /\ content \in Seq(Calls) \cup {Absent}
    /\ inode \in Calls \cup {Absent} /\ partial \in BOOLEAN
    /\ staged \subseteq Calls /\ scratch \subseteq Calls /\ stranded \subseteq Calls
    /\ base \in [Calls -> Seq(Calls)] /\ opened \in [Calls -> Calls \cup {Absent}]
    /\ overlaps \subseteq Calls
    /\ answer \in [Calls -> {"none", "ok", "error"}]

(* A file that does not hold the result of one call was left so by an edit *)
(* that is writing it, was killed at it or met another edit of the file;   *)
(* uploads never do that.  A whole file stays below the limit.             *)
FilesAreWhole ==
    /\ partial => \E c \in Calls :
           /\ Tool[c] = "edit"
           /\ step[c] \in {"rewriting", "sweeping", "swept"} \/ c \in overlaps
    /\ content # Absent /\ ~partial => Len(content) \in 1 .. MaxSize

(* Neither staging files nor scratch files outlive the call they belong to *)
(* unless their removal failed.                                            *)
NothingIsLeft ==
    \A c \in Calls : step[c] \in Ended /\ c \notin stranded => c \notin staged \cup scratch

FilesAreSound == FilesAreWhole /\ NothingIsLeft
=============================================================================
