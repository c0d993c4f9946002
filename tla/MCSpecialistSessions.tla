------------------------ MODULE MCSpecialistSessions ------------------------
EXTENDS SpecialistSessions, TLC

CONSTANTS s1, s2, s3, c1, c2, c3, d1

(* Two delegations of different sessions and a deletion of the first.      *)
DeletedTarget == c1 :> s1 @@ c2 :> s2 @@ d1 :> s1

(* Two delegations of one session.                                         *)
SharedTarget == c1 :> s1 @@ c2 :> s1

(* Every delegation creates a session of its own.                          *)
OwnTarget == c1 :> s1 @@ c2 :> s2 @@ c3 :> s3

=============================================================================
