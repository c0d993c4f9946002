----------------------------- MODULE SandboxPaths -----------------------------
(***************************************************************************)
(* How the paths that agents and users write are resolved.  A path is its  *)
(* leading slashes and its components; the model asks for one path after   *)
(* the other.                                                              *)
(***************************************************************************)
EXTENDS Naturals, Sequences, SequencesExt

CONSTANTS
    Names,     \* components of a path, "." and ".." among them
    Hidden,    \* those that start with a dot and are names
    Depth,     \* bound on the components of a written path
    Root,      \* conversation_workspace_path(), as components
    Session    \* workspace of an agent session below it

Plain == Names \ {".", ".."}
PathsAssumption ==
    /\ "uploads" \in Names /\ Root \in Seq(Plain) /\ Session \in Seq(Plain)
    /\ IsPrefix(Root, Session) /\ \A i \in DOMAIN Root : Root[i] \notin Hidden

Slashes == {"", "/", "//"}
Path(lead, parts) == [lead |-> lead, parts |-> parts]
Written == [lead : Slashes, parts : SeqOf(Names, Depth)]
Refused == Path("refused", <<>>)
Absolute(parts) == Path("/", parts)

(* posixpath.normpath(): ".." takes back a component and stays at the root.*)
Tread(done, name) ==
    CASE name = "." -> done
      [] name = ".." -> IF done = <<>> THEN <<>> ELSE Front(done)
      [] OTHER -> Append(done, name)
Walked(parts) ==
    LET after[i \in 0 .. Len(parts)] ==
            IF i = 0 THEN <<>> ELSE Tread(after[i - 1], parts[i])
    IN  after
Normalized(path) == Path(path.lead, Walked(path.parts)[Len(path.parts)])

Joined(dir, path) == IF path.lead = "" THEN Absolute(dir \o path.parts) ELSE path

(* PurePosixPath.is_relative_to()                                          *)
Under(path, dir) == path.lead = "/" /\ IsPrefix(dir, path.parts)

(* resolve_sandbox_path() with a root it must stay in.                     *)
Resolve(path, dir, allowed) ==
    LET resolved == Normalized(Joined(dir, path)) IN
    IF path = Path("", <<>>) \/ ~Under(resolved, allowed) THEN Refused ELSE resolved

Uploads == Append(Root, "uploads")

(* PurePosixPath.parts drops "." but keeps "..".                           *)
PureParts(path) == SelectSeq(path.parts, LAMBDA name : name # ".")
NamesUploads(path) ==
    /\ path.lead = "" /\ PureParts(path) # <<>>
    /\ Head(PureParts(path)) = "uploads"

NotItself(resolved, dir) == IF resolved = Absolute(dir) THEN Refused ELSE resolved

(* resolve_attachment_path(): a relative path of an upload starts at the   *)
(* uploads or, when it names them, at the conversation.                    *)
Attachment(path, writable) ==
    IF writable
    THEN NotItself(Resolve(path, IF NamesUploads(path) THEN Root ELSE Uploads, Uploads), Uploads)
    ELSE NotItself(Resolve(path, Root, Root), Root)

Relative(resolved) == Path("", SubSeq(resolved.parts, Len(Root) + 1, Len(resolved.parts)))

(* resolve_artifact_path()                                                 *)
Public(resolved) ==
    LET parts == Relative(resolved).parts IN
    /\ parts # <<>> /\ Head(parts) \in {"sessions", "uploads"}
    /\ \A i \in DOMAIN parts : parts[i] \notin Hidden
Artifact(path, dir) ==
    LET resolved == NotItself(Resolve(path, dir, dir), dir) IN
    IF resolved # Refused /\ Public(resolved) THEN resolved ELSE Refused

-----------------------------------------------------------------------------
VARIABLES asked, attached, found, artifact

pathVars == <<asked, attached, found, artifact>>

Init ==
    /\ asked \in Written
    /\ attached = Refused /\ found = Refused /\ artifact = Refused

(* upload_user_attachment() answers with the relative path, which is later *)
(* handed to download_file().                                              *)
Uploaded == attached # Refused
Upload ==
    /\ attached = Refused
    /\ attached' = Attachment(asked, TRUE)
    /\ attached' # Refused
    /\ UNCHANGED <<asked, found, artifact>>

Download ==
    /\ Uploaded
    /\ found' = Attachment(Relative(attached), FALSE)
    /\ UNCHANGED <<asked, attached, artifact>>

Offer ==
    /\ \E dir \in {Root, Session} : artifact' = Artifact(asked, dir)
    /\ artifact' # Refused
    /\ UNCHANGED <<asked, attached, found>>

Next == Upload \/ Download \/ Offer
Spec == Init /\ [][Next]_pathVars

-----------------------------------------------------------------------------
(* Properties.                                                             *)

(* Where a path leads, found by walking it: the components that no later   *)
(* ".." takes back.                                                        *)
Depths(parts) == [i \in 0 .. Len(parts) |-> Len(Walked(parts)[i])]
Kept(parts) ==
    {i \in 1 .. Len(parts) :
        /\ parts[i] \notin {".", ".."}
        /\ \A j \in i .. Len(parts) : Depths(parts)[j] >= Depths(parts)[i]}

Goes(parts, resolved) ==
    /\ Len(resolved) = Depths(parts)[Len(parts)]
    /\ \A i \in Kept(parts) : resolved[Depths(parts)[i]] = parts[i]

(* What was uploaded is what the answered path finds again, it lies in the *)
(* uploads of this conversation, and it is where the written path leads;   *)
(* an artifact lies in the public part of its directory, and none of its   *)
(* components is hidden or a step back.                                    *)
PathsLeadHome ==
    /\ Uploaded =>
           /\ IsStrictPrefix(Uploads, attached.parts) /\ attached.lead = "/"
           /\ Goes(Joined(IF NamesUploads(asked) THEN Root ELSE Uploads, asked).parts,
                   attached.parts)
    /\ found # Refused => found = attached
    /\ artifact # Refused =>
           /\ IsStrictPrefix(Root, artifact.parts)
           /\ \A i \in DOMAIN artifact.parts : artifact.parts[i] \notin Hidden \cup {".", ".."}
=============================================================================
