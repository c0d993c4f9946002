--------------------------- MODULE MCUserDeletion ---------------------------
EXTENDS UserDeletion, TLC

CONSTANTS w1, w2, r1, c1, c2

=============================================================================
