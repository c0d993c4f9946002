------------------------------- MODULE Answers -------------------------------
(***************************************************************************)
(* How a query is checked, how its result is read, and how the queries of  *)
(* a role run share no state: one of them moves, or a component that is    *)
(* not here.                                                               *)
(***************************************************************************)
EXTENDS Naturals, FiniteSets, Sequences, Parts

CONSTANT MaxJoins
VARIABLES kind, flaws, left, joins, issues, verdict
Guard == INSTANCE QueryGuard
guardVars == <<kind, flaws, left, joins, issues, verdict>>

CONSTANTS MaxRows, SampleRows
VARIABLES phase, inferred, nullable, start, end, sample, count, written, stored, rows
Results == INSTANCE QueryResults WITH artifact <- stored
resultVars == <<phase, inferred, nullable, start, end, sample, count, written, stored, rows>>

CONSTANTS Statements, Servers, ServerOf, MaxGenerations, MaxQueryFaults
VARIABLES generation, identity, retiring, pools, closed, pooled, popped, step, principal, pool,
          replaced, outcome, record, lost, excused, queryFaults
Execution == INSTANCE QueryExecution WITH
                 Queries <- Statements, Processes <- Servers, Home <- ServerOf,
                 MaxFaults <- MaxQueryFaults, registry <- pooled, stale <- replaced,
                 faults <- queryFaults
executionVars == <<generation, identity, retiring, pools, closed, pooled, popped, step, principal,
                   pool, replaced, outcome, record, lost, excused, queryFaults>>

ASSUME AnswersAssumption ==
    Guard!GuardAssumption /\ Results!ResultsAssumption /\ Execution!QueriesAssumption

answerVars == <<part, guardVars, resultVars, executionVars>>

AnswersInit == Guard!Init /\ Results!Init /\ Execution!Init

GuardMoves == part = "guard" /\ Guard!Next /\ UNCHANGED <<part, resultVars, executionVars>>
ResultMoves == part = "results" /\ Results!Next /\ UNCHANGED <<part, guardVars, executionVars>>
QueryMoves == part = "execution" /\ Execution!Next /\ UNCHANGED <<part, guardVars, resultVars>>

AnswersNext == GuardMoves \/ ResultMoves \/ QueryMoves

AnswersSpec == AnswersInit /\ [][AnswersNext]_answerVars

(* Every variable of the part that moves has its type.                     *)
AnswerTypes ==
    /\ part = "guard" => Guard!TypeOK
    /\ part = "results" => Results!TypeOK
    /\ part = "execution" => Execution!TypeOK

(* What is executed, under which credentials, and what is said of it.      *)
AnswersAreSafe ==
    /\ part = "guard" => Guard!JoinsAreChecked
    /\ part = "results" => Results!SummariesMatchFiles
    /\ part = "execution" => Execution!QueriesAreSafe

=============================================================================
