------------------------- MODULE MCQueryExperiences -------------------------
EXTENDS QueryExperiences, TLC

CONSTANT w1

(* Two bounds on one instance: all workers race while the metadata stay as *)
(* they are, or one worker is alone while they change.                     *)
VARIABLE racing

BoundedInit == Init /\ racing \in BOOLEAN

Quiet == UNCHANGED racing
BoundedNext ==
    \/ \E q \in Recorders : RecorderNext(q) /\ Quiet
    \/ \E a \in Recallers : RecallerNext(a) /\ Quiet
    \/ \E w \in IF racing THEN Workers ELSE {w1} : WorkerNext(w) /\ Quiet
    \/ \E e \in Experiences :
           (DisableManually(e) \/ RequestDeletion(e) \/ ForgetVersion(e)) /\ Quiet
    \/ ~racing /\ MetadataNext /\ Quiet
    \/ RepairIndexes /\ Quiet

BoundedSpec == BoundedInit /\ [][BoundedNext]_<<vars, racing>> /\ Fairness

=============================================================================
