----------------------- MODULE MCConversationLifecycle -----------------------
EXTENDS ConversationLifecycle

CONSTANTS r3, q2, p1, p2

(* The third Run and the second request live in a process of their own.    *)
MCHome == [a \in Local |-> IF a \in {r3, q2} THEN p2 ELSE p1]

=============================================================================
