---------------------------- MODULE SealedStores ----------------------------
(***************************************************************************)
(* What the deletion of something that lives in several independent stores *)
(* promises.  A store is closed for good before it is emptied, data enters *)
(* only open stores of a thing that exists, and the thing itself vanishes  *)
(* last, when every store is closed and empty.                             *)
(***************************************************************************)
CONSTANTS Things, Stores

VARIABLES
    life,    \* "none", "live" or "gone", per thing
    sealed,  \* <<thing, store>> pairs that accept no data any more
    held     \* <<thing, store>> pairs that have data

vars == <<life, sealed, held>>

Init ==
    /\ life = [t \in Things |-> "none"]
    /\ sealed = {} /\ held = {}

Create(t) ==
    /\ life[t] = "none"
    /\ life' = [life EXCEPT ![t] = "live"]
    /\ UNCHANGED <<sealed, held>>

Put(t, s) ==
    /\ life[t] = "live" /\ <<t, s>> \notin sealed
    /\ held' = held \cup {<<t, s>>}
    /\ UNCHANGED <<life, sealed>>

Seal(t, S) ==
    /\ life[t] = "live"
    /\ sealed' = sealed \cup ({t} \X S)
    /\ UNCHANGED <<life, held>>

Drop(t, s) ==
    /\ <<t, s>> \in sealed
    /\ held' = held \ {<<t, s>>}
    /\ UNCHANGED <<life, sealed>>

Vanish(t) ==
    /\ life[t] = "live"
    /\ \A s \in Stores : <<t, s>> \in sealed /\ <<t, s>> \notin held
    /\ life' = [life EXCEPT ![t] = "gone"]
    /\ UNCHANGED <<sealed, held>>

Next ==
    \E t \in Things :
        \/ Create(t) \/ Vanish(t)
        \/ \E s \in Stores : Put(t, s) \/ Drop(t, s)
        \/ \E S \in SUBSET Stores : Seal(t, S)

Spec == Init /\ [][Next]_vars

=============================================================================
