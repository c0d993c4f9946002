-------------------------------- MODULE Parts --------------------------------
(* What the compositions of components that share no state have in common. *)
CONSTANTS Nobody, Absent
VARIABLE part    \* the component that moves
=============================================================================
