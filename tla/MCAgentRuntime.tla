--------------------------- MODULE MCAgentRuntime --------------------------
(* Two Runs of a conversation; three turns of two conversations.           *)
EXTENDS AgentRuntime, TLC

CONSTANTS r1, r2, k1, k2, u1, u2, u3

EventsOf == r1 :> 2 @@ r2 :> 1
ChatOf == u1 :> k1 @@ u2 :> k2 @@ u3 :> k1

=============================================================================
