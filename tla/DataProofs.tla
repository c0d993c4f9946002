------------------------------ MODULE DataProofs ------------------------------
(***************************************************************************)
(* The areas around the assistant side by side: every behaviour of the     *)
(* whole is, seen by the variables of an area, a behaviour of the area.    *)
(* So what is proved of each of them holds of all of them together.        *)
(***************************************************************************)
EXTENDS MCDataComponents, AccessProofs, SandboxProofs, MetadataProofs, TLAPS

LEMMA AccessIsAPart == Spec => AccessSpec
<1>1. Init => AccessInit
  BY DEF Init
<1>2. [Next]_vars => [AccessNext]_accessVars
  BY DEF Next, vars, SandboxMoves, AccessMoves, MetadataMoves, RecallMoves, AnswerMoves
<1> QED BY <1>1, <1>2, PTL DEF Spec, AccessSpec

LEMMA SandboxIsAPart == Spec => SandboxSpec
<1>1. Init => SandboxInit
  BY DEF Init
<1>2. [Next]_vars => [SandboxNext]_sandboxVars
  BY DEF Next, vars, SandboxMoves, AccessMoves, MetadataMoves, RecallMoves, AnswerMoves
<1> QED BY <1>1, <1>2, PTL DEF Spec, SandboxSpec

LEMMA MetadataIsAPart == Spec => MetadataSpec
<1>1. Init => MetadataInit
  BY DEF Init
<1>2. [Next]_vars => [MetadataNext]_metadataVars
  BY DEF Next, vars, SandboxMoves, AccessMoves, MetadataMoves, RecallMoves, AnswerMoves
<1> QED BY <1>1, <1>2, PTL DEF Spec, MetadataSpec

LEMMA RecallIsAPart == Spec => RecallSpec
<1>1. Init => RecallInit
  BY DEF Init
<1>2. [Next]_vars => [RecallNext]_recallingVars
  BY DEF Next, vars, SandboxMoves, AccessMoves, MetadataMoves, RecallMoves, AnswerMoves
<1> QED BY <1>1, <1>2, PTL DEF Spec, RecallSpec

LEMMA AnswersAreAPart == Spec => AnswersSpec
<1>1. Init => AnswersInit
  BY DEF Init
<1>2. [Next]_vars => [AnswersNext]_answerVars
  BY DEF Next, vars, SandboxMoves, AccessMoves, MetadataMoves, RecallMoves, AnswerMoves
<1> QED BY <1>1, <1>2, PTL DEF Spec, AnswersSpec

(* Whatever part moves, each of its variables keeps its type.              *)
THEOREM DataTypesKept == Spec => []TypeOK
<1>1. Spec => [](AccessTypes /\ SandboxTypes /\ MetadataTypes /\ RecallTypes /\ AnswerTypes)
  BY AccessIsAPart, SandboxIsAPart, MetadataIsAPart, RecallIsAPart, AnswersAreAPart,
     AccessTypesKept, SandboxTypesKept, MetadataTypesKept, RecallTypesKept, AnswerTypesKept, PTL
<1>2. AccessTypes /\ SandboxTypes /\ MetadataTypes /\ RecallTypes /\ AnswerTypes => TypeOK
  BY DEF TypeOK
<1> QED BY <1>1, <1>2, PTL

(* Whatever part moves, it is safe: no promise of an area depends on what  *)
(* the others do.                                                          *)
THEOREM DataStaySafe ==
    Spec => [](SandboxesAreSafe /\ MetadataIsKept /\ AccessIsSafe /\ RecallsAreSafe /\ AnswersAreSafe)
BY AccessIsAPart, SandboxIsAPart, MetadataIsAPart, RecallIsAPart, AnswersAreAPart,
   AccessStaysSafe, SandboxesStaySafe, MetadataStaysKept, RecallsStaySafe, AnswersStaySafe, PTL

===============================================================================
