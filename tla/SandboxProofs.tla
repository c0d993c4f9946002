---------------------------- MODULE SandboxProofs ----------------------------
(***************************************************************************)
(* Proofs about containers, volumes, files and paths of the sandbox, for   *)
(* any number of users, conversations and actors and any capacity, any     *)
(* range of uids, any calls on a file and any paths.                       *)
(***************************************************************************)
EXTENDS Sandboxes, FiniteSetTheorems, SequenceTheorems, NaturalsInduction, WellFoundedInduction,
        TLAPS

(* The least of a set of numbers, which the library gives by well-founded  *)
(* induction.                                                              *)
LEMMA LeastOfSet ==
    ASSUME NEW S \in SUBSET Nat, S # {}
    PROVE  \E x \in S : \A y \in S : x <= y
<1> DEFINE R == {ss \in Nat \X Nat : ss[1] < ss[2]}
<1>1. OpToRel(<, Nat) = R
  BY DEF OpToRel
<1>2. IsWellFoundedOn(R, Nat)
  BY <1>1, NatLessThanWellFounded, Zenon
<1>3. PICK x \in S : \A y \in S : ~(<<y, x>> \in R)
  <2> HIDE DEF R
  <2> QED BY <1>2, WFMin
<1>4. ASSUME NEW y \in S PROVE x <= y
  <2>1. <<y, x>> \in Nat \X Nat /\ <<y, x>>[1] = y /\ <<y, x>>[2] = x
    OBVIOUS
  <2>2. ~(y < x)
    BY <1>3, <2>1
  <2> QED BY <2>2
<1> QED BY <1>4

-----------------------------------------------------------------------------
(* Ownership.                                                              *)

LEMMA OwnCardinality == \A S : Own!Cardinality(S) = Cardinality(S)
BY DEF Own!Cardinality, Cardinality

LEMMA OwnFinite == \A S : Own!IsFiniteSet(S) <=> IsFiniteSet(S)
BY DEF Own!IsFiniteSet, IsFiniteSet

Phases == {"absent", "new", "failed", "done", "chat idle", "user idle", "victim idle", "gated",
           "seeking", "wants 1", "wants 2", "wants 3", "wants storage", "first look",
           "second look", "last look", "running", "preparing", "filling", "deleting",
           "marking", "erasing", "cleaning"}
Outside == {"absent", "new", "failed", "done"}
Starting == {"wants 1", "first look", "seeking", "victim idle", "wants 2", "second look",
             "wants 3", "last look"}
OfUser == {"removeUser", "clean"}
OfChat == {"prepare", "removeChat", "tidy"}

(* Which phases each kind of work goes through.                            *)
PhasesOf(kind) ==
    Outside \cup
    (CASE kind = "operate" -> Starting \cup {"running"}
       [] kind = "prepare" -> {"chat idle", "wants storage", "preparing", "filling"}
       [] kind = "removeUser" -> {"user idle", "wants 2", "wants storage", "marking", "erasing"}
       [] kind = "clean" -> {"user idle", "wants 2", "cleaning"}
       [] OTHER -> Starting \cup {"chat idle", "gated", "wants storage", "deleting"})
PhasesByKind == \A a \in Workers : ownerPc[a] \in PhasesOf(WorkerKind[a])

(* Maintenance holds its gate from the first wait to its end.              *)
GatesAreHeld ==
    \A a \in Workers :
        ownerPc[a] \notin Outside =>
            /\ WorkerKind[a] \in OfUser => lock[Own!UserGate(WorkerUser[a])] = a
            /\ WorkerKind[a] \in OfChat => lock[Own!ChatGate(WorkerChat[a])] = a

(* Nobody is registered for a user once maintenance has found it idle.     *)
UsersAreIdle ==
    \A a \in Workers :
        WorkerKind[a] \in OfUser /\ ownerPc[a] \notin Outside \cup {"user idle"} =>
            \A o \in leases : WorkerUser[o] # WorkerUser[a]

(* A lease that is lost was not renewed.                                   *)
LostLeasesAreKnown ==
    \A o \in Own!Operations : ownerPc[o] \notin Outside => o \in leases \cup unrenewed

(* A disturbed operation still runs and knows, or has failed.              *)
DisturbedKnow ==
    \A o \in disturbed : ownerPc[o] = "failed" \/ (ownerPc[o] = "running" /\ o \in unrenewed)

(* Files are in volumes, and containers have one.                          *)
FilesHaveVolumes ==
    /\ \A u \in SandboxUsers : container[u] # "none" => u \in volumes
    /\ \A a \in Workers : WorkerChat[a] \in workspaces => WorkerUser[a] \in volumes

(* What a deletion has marked stays marked, and nobody who fills a         *)
(* workspace has overlooked it.                                            *)
Marked(a) == CASE WorkerKind[a] = "removeChat" -> ownerPc[a] \notin {"absent", "new", "failed", "chat idle", "gated"}
               [] WorkerKind[a] = "removeUser" -> ownerPc[a] \in {"erasing", "done"}
               [] OTHER -> FALSE
DeletionsAreMarked ==
    \A a \in Workers :
        /\ Marked(a) => (IF WorkerKind[a] = "removeChat" THEN WorkerChat[a] ELSE WorkerUser[a]) \in deleted
        /\ ownerPc[a] = "filling" => WorkerChat[a] \notin deleted
        /\ ownerPc[a] = "done" /\ WorkerKind[a] = "removeChat" => WorkerChat[a] \notin workspaces
        /\ ownerPc[a] = "done" /\ WorkerKind[a] = "removeUser" =>
              WorkerUser[a] \notin volumes /\ container[WorkerUser[a]] = "none"

WorkInv == /\ Own!TypeOK /\ ownerPc \in [Workers -> Phases]
           /\ PhasesByKind /\ GatesAreHeld /\ UsersAreIdle /\ LostLeasesAreKnown
OwnInv == WorkInv /\ DisturbedKnow /\ FilesHaveVolumes /\ DeletionsAreMarked

USE DEF Own!Operations, Own!storeVars, Own!Moves

-----------------------------------------------------------------------------
(* Locks.                                                                  *)

(* No gate is another lock.                                                *)
LEMMA LocksDiffer ==
    /\ \A u \in SandboxUsers : Own!UserGate(u) \in Own!Locks /\ Own!Mutation(u) \in Own!Locks
    /\ \A k \in SandboxChats : Own!ChatGate(k) \in Own!Locks
    /\ Own!Capacity \in Own!Locks
    /\ \A u, v, k :
         /\ Own!UserGate(u) # Own!ChatGate(k) /\ Own!UserGate(u) # Own!Capacity /\ Own!ChatGate(k) # Own!Capacity
         /\ Own!UserGate(u) # Own!Mutation(v) /\ Own!ChatGate(k) # Own!Mutation(v)
BY DEF Own!UserGate, Own!ChatGate, Own!Mutation, Own!Capacity, Own!Locks

(* A step of an actor takes no lock from another, and gives none to it.    *)
OthersKeep(a) == /\ lock' \in [Own!Locks -> Workers \cup {Nobody}]
                 /\ \A l \in Own!Locks, b \in Workers \ {a} : lock[l] = b => lock'[l] = b

LEMMA FreedLocks ==
    ASSUME Own!OwnershipAssumption, lock \in [Own!Locks -> Workers \cup {Nobody}],
           NEW a \in Workers, NEW S, lock' = Own!Freed(a, S)
    PROVE  OthersKeep(a) /\ \A l \in Own!Locks \ S : lock'[l] = lock[l]
<1>1. \A l \in Own!Locks : lock'[l] = IF l \in S /\ lock[l] = a THEN Nobody ELSE lock[l]
  BY DEF Own!Freed
<1>2. lock' \in [Own!Locks -> Workers \cup {Nobody}]
  BY DEF Own!Freed
<1> QED BY <1>1, <1>2 DEF OthersKeep

(* Each actor's part of the invariants.                                    *)
GateHeld(a, p) ==
    p \notin Outside =>
        /\ WorkerKind[a] \in OfUser => lock'[Own!UserGate(WorkerUser[a])] = a
        /\ WorkerKind[a] \in OfChat => lock'[Own!ChatGate(WorkerChat[a])] = a

(* What a step owes to the invariants of the protocol: only the actor's own *)
(* part of them.                                                            *)
LEMMA OwnerWorks ==
    ASSUME Own!OwnershipAssumption, WorkInv, Own!TypeOK', NEW a \in Workers, NEW p \in Phases,
           ownerPc' = [ownerPc EXCEPT ![a] = p], p \in PhasesOf(WorkerKind[a]),
           OthersKeep(a), GateHeld(a, p),
           \A o \in leases' \ leases : o = a /\ lock[Own!UserGate(WorkerUser[a])] = Nobody,
           WorkerKind[a] \in OfUser /\ p \notin Outside \cup {"user idle"} =>
               \A o \in leases' : WorkerUser[o] # WorkerUser[a],
           leases \ {a} \subseteq leases' \cup unrenewed', unrenewed \ {a} \subseteq unrenewed',
           WorkerKind[a] = "operate" /\ p \notin Outside => a \in leases' \cup unrenewed'
    PROVE  WorkInv'
<1>1. \A b \in Workers : ownerPc'[b] = IF b = a THEN p ELSE ownerPc[b]
  BY DEF WorkInv
<1>2. ownerPc' \in [Workers -> Phases] /\ PhasesByKind'
  BY <1>1 DEF WorkInv, PhasesByKind
<1>3. \A b \in Workers : /\ Own!UserGate(WorkerUser[b]) \in Own!Locks /\ Own!ChatGate(WorkerChat[b]) \in Own!Locks
                         /\ WorkerKind[b] \in Own!Kinds
  BY LocksDiffer, OwnFinite DEF Own!OwnershipAssumption
<1>4. GatesAreHeld'
  <2> SUFFICES ASSUME NEW b \in Workers, ownerPc'[b] \notin Outside
               PROVE  /\ WorkerKind[b] \in OfUser => lock'[Own!UserGate(WorkerUser[b])] = b
                      /\ WorkerKind[b] \in OfChat => lock'[Own!ChatGate(WorkerChat[b])] = b
    BY DEF GatesAreHeld
  <2>1. CASE b = a
    BY <2>1, <1>1 DEF GateHeld
  <2>2. CASE b # a
    <3>1. /\ WorkerKind[b] \in OfUser => lock[Own!UserGate(WorkerUser[b])] = b
          /\ WorkerKind[b] \in OfChat => lock[Own!ChatGate(WorkerChat[b])] = b
      BY <1>1, <2>2 DEF WorkInv, GatesAreHeld
    <3> QED BY <3>1, <2>2, <1>3 DEF OthersKeep
  <2> QED BY <2>1, <2>2
<1>5. UsersAreIdle'
  <2> SUFFICES ASSUME NEW b \in Workers, WorkerKind[b] \in OfUser,
                      ownerPc'[b] \notin Outside \cup {"user idle"}, NEW o \in leases'
               PROVE  WorkerUser[o] # WorkerUser[b]
    BY DEF UsersAreIdle
  <2>1. CASE b = a
    BY <2>1, <1>1
  <2>2. CASE b # a
    <3>1. lock[Own!UserGate(WorkerUser[b])] = b /\ \A x \in leases : WorkerUser[x] # WorkerUser[b]
      BY <1>1, <2>2 DEF WorkInv, GatesAreHeld, UsersAreIdle
    <3>2. CASE o \in leases
      BY <3>1, <3>2
    <3>3. CASE o \notin leases
      <4>1. o = a /\ lock[Own!UserGate(WorkerUser[a])] = Nobody
        BY <3>3
      <4>2. b # Nobody
        BY OwnFinite DEF Own!OwnershipAssumption
      <4> QED BY <4>1, <4>2, <3>1
    <3> QED BY <3>2, <3>3
  <2> QED BY <2>1, <2>2
<1>6. LostLeasesAreKnown'
  BY <1>1 DEF WorkInv, LostLeasesAreKnown
<1> QED BY <1>2, <1>4, <1>5, <1>6 DEF WorkInv

(* Whose container may be stopped or removed: a running operation that is  *)
(* not registered any more, and knows.                                     *)
LEMMA DisturbingStep ==
    ASSUME WorkInv, DisturbedKnow, NEW a \in Workers, NEW p, ownerPc' = [ownerPc EXCEPT ![a] = p],
           unrenewed \ {a} \subseteq unrenewed', disturbed \subseteq Own!Operations,
           a \in disturbed => p = "failed" \/ (p = "running" /\ a \in unrenewed'),
           \A o \in disturbed' \ disturbed :
               o # a /\ o \in Own!Operations /\ ownerPc[o] = "running" /\ o \notin leases
    PROVE  DisturbedKnow'
<1>1. \A b \in Workers : ownerPc'[b] = IF b = a THEN p ELSE ownerPc[b]
  BY DEF WorkInv
<1>2. \A o \in disturbed' \ disturbed : o \in unrenewed
  BY DEF WorkInv, LostLeasesAreKnown, Outside
<1> QED BY <1>1, <1>2 DEF DisturbedKnow

(* What the actor itself has marked, once it is in phase p.                *)
OwnDeletion(a, p) ==
    /\ WorkerKind[a] = "removeChat" /\ p \notin {"absent", "new", "failed", "chat idle", "gated"} =>
          WorkerChat[a] \in deleted'
    /\ WorkerKind[a] = "removeUser" /\ p \in {"erasing", "done"} => WorkerUser[a] \in deleted'
    /\ p = "filling" => WorkerChat[a] \notin deleted'
    /\ WorkerKind[a] = "removeChat" /\ p = "done" => WorkerChat[a] \notin workspaces'
    /\ WorkerKind[a] = "removeUser" /\ p = "done" =>
          WorkerUser[a] \notin volumes' /\ container'[WorkerUser[a]] = "none"

(* Marks are for good and set under the gate, and only what is not marked  *)
(* is created.                                                             *)
LEMMA DeletionStep ==
    ASSUME Own!OwnershipAssumption, WorkInv, DeletionsAreMarked,
           NEW a \in Workers, NEW p \in Phases, ownerPc' = [ownerPc EXCEPT ![a] = p],
           deleted \subseteq deleted',
           \A x \in deleted' \ deleted : x \in SandboxUsers \/ lock[Own!ChatGate(x)] = a,
           \A k \in workspaces' \ workspaces : k \notin deleted,
           \A u \in volumes' \ volumes : u \notin deleted,
           \A u \in SandboxUsers : container[u] = "none" /\ container'[u] # "none" => u \notin deleted,
           OwnDeletion(a, p)
    PROVE  DeletionsAreMarked'
<1>1. \A b \in Workers : ownerPc'[b] = IF b = a THEN p ELSE ownerPc[b]
  BY DEF WorkInv
<1> SUFFICES ASSUME NEW b \in Workers
             PROVE  /\ Marked(b)' => (IF WorkerKind[b] = "removeChat" THEN WorkerChat[b] ELSE WorkerUser[b]) \in deleted'
                    /\ ownerPc'[b] = "filling" => WorkerChat[b] \notin deleted'
                    /\ ownerPc'[b] = "done" /\ WorkerKind[b] = "removeChat" => WorkerChat[b] \notin workspaces'
                    /\ ownerPc'[b] = "done" /\ WorkerKind[b] = "removeUser" =>
                          WorkerUser[b] \notin volumes' /\ container'[WorkerUser[b]] = "none"
  BY DEF DeletionsAreMarked
<1>2. CASE b = a
  <2>1. ownerPc'[a] = p
    BY <1>1
  <2>2. Marked(a)' => (IF WorkerKind[a] = "removeChat" THEN WorkerChat[a] ELSE WorkerUser[a]) \in deleted'
    BY <2>1 DEF OwnDeletion, Marked
  <2>3. /\ p = "filling" => WorkerChat[a] \notin deleted'
        /\ p = "done" /\ WorkerKind[a] = "removeChat" => WorkerChat[a] \notin workspaces'
        /\ p = "done" /\ WorkerKind[a] = "removeUser" =>
              WorkerUser[a] \notin volumes' /\ container'[WorkerUser[a]] = "none"
    BY DEF OwnDeletion
  <2> QED BY <1>2, <2>1, <2>2, <2>3
<1>3. CASE b # a
  <2>1. ownerPc'[b] = ownerPc[b]
    BY <1>1, <1>3
  <2>2. /\ Marked(b) => (IF WorkerKind[b] = "removeChat" THEN WorkerChat[b] ELSE WorkerUser[b]) \in deleted
        /\ ownerPc[b] = "filling" => WorkerChat[b] \notin deleted
        /\ ownerPc[b] = "done" /\ WorkerKind[b] = "removeChat" => WorkerChat[b] \notin workspaces
        /\ ownerPc[b] = "done" /\ WorkerKind[b] = "removeUser" =>
              WorkerUser[b] \notin volumes /\ container[WorkerUser[b]] = "none"
    BY DEF DeletionsAreMarked
  <2>3. Marked(b)' => (IF WorkerKind[b] = "removeChat" THEN WorkerChat[b] ELSE WorkerUser[b]) \in deleted'
    BY <2>1, <2>2 DEF Marked
  <2>4. ownerPc'[b] = "filling" => WorkerChat[b] \notin deleted'
    <3> SUFFICES ASSUME ownerPc[b] = "filling", WorkerChat[b] \in deleted' PROVE FALSE
      BY <2>1
    <3>1. WorkerKind[b] = "prepare"
      BY DEF WorkInv, PhasesByKind, PhasesOf, Outside, Starting
    <3>2. lock[Own!ChatGate(WorkerChat[b])] = b
      BY <3>1 DEF WorkInv, GatesAreHeld, Outside, OfChat
    <3>3. WorkerChat[b] \notin SandboxUsers
      BY OwnFinite DEF Own!OwnershipAssumption
    <3> QED BY <2>2, <3>2, <3>3, <1>3
  <2>5. ownerPc'[b] = "done" /\ WorkerKind[b] = "removeChat" => WorkerChat[b] \notin workspaces'
    <3>1. ownerPc[b] = "done" /\ WorkerKind[b] = "removeChat" => WorkerChat[b] \in deleted
      BY <2>2 DEF Marked
    <3> QED BY <2>1, <2>2, <3>1
  <2>6. ownerPc'[b] = "done" /\ WorkerKind[b] = "removeUser" =>
            WorkerUser[b] \notin volumes' /\ container'[WorkerUser[b]] = "none"
    <3>1. ownerPc[b] = "done" /\ WorkerKind[b] = "removeUser" => WorkerUser[b] \in deleted
      BY <2>2 DEF Marked
    <3>2. WorkerUser[b] \in SandboxUsers
      BY OwnFinite DEF Own!OwnershipAssumption
    <3> QED BY <2>1, <2>2, <3>1, <3>2
  <2> QED BY <2>3, <2>4, <2>5, <2>6
<1> QED BY <1>2, <1>3

(* A step that changes neither storage nor marks.                          *)
LEMMA OwnerIsQuiet ==
    ASSUME Own!OwnershipAssumption, WorkInv, DeletionsAreMarked, FilesHaveVolumes,
           NEW a \in Workers, NEW p \in Phases, ownerPc' = [ownerPc EXCEPT ![a] = p],
           UNCHANGED <<Own!storeVars, deleted>>, OwnDeletion(a, p)
    PROVE  DeletionsAreMarked' /\ FilesHaveVolumes'
<1>1. DeletionsAreMarked'
  <2>1. /\ deleted' = deleted /\ workspaces' = workspaces
        /\ volumes' = volumes /\ container' = container
    OBVIOUS
  <2> QED BY <2>1, DeletionStep
<1>2. FilesHaveVolumes'
  BY DEF FilesHaveVolumes
<1> QED BY <1>1, <1>2

-----------------------------------------------------------------------------
(* Steps that go on, steps that leave.                                     *)

(* From one phase to the next, the gate kept.                              *)
LEMMA OwnerGoesOn ==
    ASSUME Own!OwnershipAssumption, WorkInv, Own!TypeOK', NEW a \in Workers, NEW p \in PhasesOf(WorkerKind[a]),
           p \in Phases, ownerPc' = [ownerPc EXCEPT ![a] = p], ownerPc[a] \notin Outside \cup {"user idle"},
           OthersKeep(a),
           WorkerKind[a] \in OfUser => lock'[Own!UserGate(WorkerUser[a])] = lock[Own!UserGate(WorkerUser[a])],
           WorkerKind[a] \in OfChat => lock'[Own!ChatGate(WorkerChat[a])] = lock[Own!ChatGate(WorkerChat[a])],
           leases' = leases, unrenewed' = unrenewed
    PROVE  WorkInv'
<1>1. GateHeld(a, p)
  BY DEF WorkInv, GatesAreHeld, GateHeld
<1>2. WorkerKind[a] \in OfUser => \A o \in leases' : WorkerUser[o] # WorkerUser[a]
  BY DEF WorkInv, UsersAreIdle
<1>3. WorkerKind[a] = "operate" => a \in leases' \cup unrenewed'
  BY DEF WorkInv, LostLeasesAreKnown
<1> QED BY <1>1, <1>2, <1>3, OwnerWorks

(* Out of the protocol, with everything released.                          *)
LEMMA Leaving ==
    ASSUME Own!OwnershipAssumption, WorkInv, Own!TypeOK', NEW a \in Workers, NEW p \in Outside,
           ownerPc' = [ownerPc EXCEPT ![a] = p], OthersKeep(a), leases' \subseteq leases,
           leases \ {a} \subseteq leases', unrenewed \ {a} \subseteq unrenewed'
    PROVE  WorkInv'
<1>1. p \in Phases /\ p \in PhasesOf(WorkerKind[a])
  BY DEF Outside, Phases, PhasesOf
<1>2. GateHeld(a, p)
  BY DEF GateHeld
<1> QED BY <1>1, <1>2, OwnerWorks

(* Leaving by an exception, with nothing else done.                        *)
LEMMA Failing ==
    ASSUME Own!OwnershipAssumption, OwnInv, NEW a \in Workers, Own!Fails(a),
           UNCHANGED <<Own!storeVars, candidates, victim>>
    PROVE  OwnInv'
<1>1. /\ lock' = Own!Freed(a, Own!Locks) /\ leases' = leases \ {a} /\ unrenewed' = unrenewed \ {a}
      /\ ownerPc' = [ownerPc EXCEPT ![a] = "failed"] /\ deleted' = deleted /\ disturbed' = disturbed
  BY DEF Own!Fails, Own!FreedAll
<1>2. OthersKeep(a)
  BY <1>1, FreedLocks DEF OwnInv, WorkInv, Own!TypeOK
<1>3. Own!TypeOK'
  BY <1>1, <1>2 DEF OwnInv, WorkInv, Own!TypeOK, OthersKeep
<1>4. WorkInv'
  BY <1>1, <1>2, <1>3, Leaving DEF OwnInv, Outside
<1>5. DisturbedKnow'
  BY <1>1, DisturbingStep DEF OwnInv, WorkInv, Own!TypeOK
<1>6. DeletionsAreMarked' /\ FilesHaveVolumes'
  <2>1. OwnDeletion(a, "failed") /\ "failed" \in Phases
    BY DEF OwnDeletion, Phases
  <2> QED BY <1>1, <2>1, OwnerIsQuiet DEF OwnInv
<1> QED BY <1>4, <1>5, <1>6 DEF OwnInv

-----------------------------------------------------------------------------
(* The protocol's steps.                                                   *)

LEMMA AcquireKeeps ==
    ASSUME Own!OwnershipAssumption, OwnInv, NEW a \in Workers, Own!Acquire(a)
    PROVE  OwnInv'
<1> DEFINE p == Own!AfterLock(a)
<1>1. PICK l \in Own!Wants(a) : lock[l] = Nobody /\ lock' = [lock EXCEPT ![l] = a]
  BY DEF Own!Acquire
<1>2. /\ ownerPc' = [ownerPc EXCEPT ![a] = p] /\ leases' = leases /\ unrenewed' = unrenewed
      /\ deleted' = deleted /\ disturbed' = disturbed /\ candidates' = candidates
      /\ victim' = victim /\ container' = container /\ volumes' = volumes
      /\ workspaces' = workspaces
  BY DEF Own!Acquire
<1>3. ownerPc[a] \in PhasesOf(WorkerKind[a]) /\ WorkerKind[a] \in Own!Kinds
  BY OwnFinite DEF OwnInv, WorkInv, PhasesByKind, Own!OwnershipAssumption
<1>4. ownerPc[a] \in {"new", "seeking", "wants 1", "wants 2", "wants 3", "wants storage"}
  BY <1>1 DEF Own!Wants
<1>5. p \in PhasesOf(WorkerKind[a]) /\ p \in Phases
  <2>1. ownerPc[a] = "new" => WorkerKind[a] \in OfUser \cup OfChat
    BY <1>1 DEF Own!Wants, OfUser, OfChat
  <2> QED BY <1>3, <1>4, <2>1
      DEF Own!AfterLock, PhasesOf, Own!Kinds, Phases, Outside, Starting, OfUser, OfChat
<1>6. l \in Own!Locks
  <2>1. victim[a] \in SandboxUsers /\ WorkerUser[a] \in SandboxUsers /\ WorkerChat[a] \in SandboxChats
    BY OwnFinite DEF Own!OwnershipAssumption, OwnInv, WorkInv, Own!TypeOK
  <2>2. l \in {Own!ChatGate(WorkerChat[a]), Own!UserGate(WorkerUser[a]), Own!UserGate(victim[a]), Own!Capacity,
               Own!Mutation(WorkerUser[a])}
    BY <1>1 DEF Own!Wants
  <2> HIDE DEF p
  <2> QED BY <2>1, <2>2, LocksDiffer
<1>7. OthersKeep(a)
  <2>1. \A b \in Workers : b # Nobody
    BY OwnFinite DEF Own!OwnershipAssumption
  <2> QED BY <1>1, <1>6, <2>1 DEF OwnInv, WorkInv, Own!TypeOK, OthersKeep
<1>8. Own!TypeOK'
  BY <1>2, <1>7 DEF OwnInv, WorkInv, Own!TypeOK, OthersKeep
<1>9. WorkInv'
  <2>1. CASE ownerPc[a] = "new"
    <3>1. p \in {"user idle", "chat idle"} /\ WorkerKind[a] \in OfUser \cup OfChat
          /\ (p = "user idle" <=> WorkerKind[a] \in OfUser)
      BY <2>1, <1>1 DEF Own!Wants, Own!AfterLock, OfUser, OfChat
    <3>2. GateHeld(a, p)
      <4>1. WorkerKind[a] \in OfUser => l = Own!UserGate(WorkerUser[a])
        BY <2>1, <1>1 DEF Own!Wants, OfUser
      <4>2. WorkerKind[a] \in OfChat => l = Own!ChatGate(WorkerChat[a])
        BY <2>1, <1>1 DEF Own!Wants, OfChat
      <4>3. lock'[l] = a
        BY <1>1, <1>6 DEF OwnInv, WorkInv, Own!TypeOK
      <4> QED BY <4>1, <4>2, <4>3 DEF GateHeld
    <3>3. WorkerKind[a] # "operate"
      BY <3>1 DEF OfUser, OfChat
    <3> QED BY <1>2, <1>5, <1>7, <1>8, <3>1, <3>2, <3>3, OwnerWorks DEF OwnInv
  <2>2. CASE ownerPc[a] # "new"
    <3>1. ownerPc[a] \notin Outside \cup {"user idle"}
      BY <2>2, <1>4 DEF Outside
    <3>2. /\ WorkerKind[a] \in OfUser => lock[Own!UserGate(WorkerUser[a])] = a
          /\ WorkerKind[a] \in OfChat => lock[Own!ChatGate(WorkerChat[a])] = a
      BY <3>1 DEF OwnInv, WorkInv, GatesAreHeld
    <3>3. a # Nobody /\ Own!UserGate(WorkerUser[a]) \in Own!Locks /\ Own!ChatGate(WorkerChat[a]) \in Own!Locks
      BY LocksDiffer, OwnFinite DEF Own!OwnershipAssumption
    <3>4. /\ WorkerKind[a] \in OfUser => lock'[Own!UserGate(WorkerUser[a])] = lock[Own!UserGate(WorkerUser[a])]
          /\ WorkerKind[a] \in OfChat => lock'[Own!ChatGate(WorkerChat[a])] = lock[Own!ChatGate(WorkerChat[a])]
      BY <1>1, <1>6, <3>2, <3>3 DEF OwnInv, WorkInv, Own!TypeOK
    <3> QED BY <1>2, <1>5, <1>7, <1>8, <3>1, <3>4, OwnerGoesOn DEF OwnInv
  <2> QED BY <2>1, <2>2
<1>10. DisturbedKnow'
  <2>1. a \notin disturbed
    BY <1>4 DEF OwnInv, DisturbedKnow
  <2> QED BY <1>2, <2>1, DisturbingStep DEF OwnInv, WorkInv, Own!TypeOK
<1>11. DeletionsAreMarked' /\ FilesHaveVolumes'
  <2>1. OwnDeletion(a, p)
    <3>1. Marked(a) => (IF WorkerKind[a] = "removeChat" THEN WorkerChat[a] ELSE WorkerUser[a]) \in deleted
      BY DEF OwnInv, DeletionsAreMarked
    <3>2. p \notin {"done", "filling", "erasing"}
      BY <1>4 DEF Own!AfterLock
    <3>3. WorkerKind[a] = "removeChat" /\ p \notin {"failed", "chat idle"} => Marked(a)
      BY <1>4 DEF Own!AfterLock, Marked
    <3> QED BY <1>2, <3>1, <3>2, <3>3 DEF OwnDeletion
  <2> QED BY <1>2, <1>5, <2>1, OwnerIsQuiet DEF OwnInv
<1> QED BY <1>9, <1>10, <1>11 DEF OwnInv

LEMMA FindsIdleKeeps ==
    ASSUME Own!OwnershipAssumption, OwnInv, NEW a \in Workers, Own!FindsIdle(a)
    PROVE  OwnInv'
<1> DEFINE p == Own!AfterIdle(a)
<1>1. /\ ownerPc' = [ownerPc EXCEPT ![a] = p] /\ lock' = lock /\ leases' = leases
      /\ unrenewed' = unrenewed /\ deleted' = deleted /\ disturbed' = disturbed
      /\ candidates' = candidates /\ victim' = victim /\ container' = container
      /\ volumes' = volumes /\ workspaces' = workspaces
      /\ ownerPc[a] \in {"chat idle", "user idle", "victim idle"} /\ Own!Ahead(a) = {}
  BY DEF Own!FindsIdle
<1>2. ownerPc[a] \in PhasesOf(WorkerKind[a]) /\ WorkerKind[a] \in Own!Kinds
  BY OwnFinite DEF OwnInv, WorkInv, PhasesByKind, Own!OwnershipAssumption
<1>3. p \in PhasesOf(WorkerKind[a]) /\ p \in Phases
  BY <1>1, <1>2 DEF Own!AfterIdle, PhasesOf, Own!Kinds, Phases, Outside, Starting
<1>4. Own!TypeOK' /\ OthersKeep(a)
  BY <1>1 DEF OwnInv, WorkInv, Own!TypeOK, OthersKeep
<1>5. WorkInv'
  <2>1. GateHeld(a, p)
    BY <1>1 DEF OwnInv, WorkInv, GatesAreHeld, GateHeld, Outside
  <2>2. WorkerKind[a] \in OfUser /\ p \notin Outside \cup {"user idle"} =>
            \A o \in leases' : WorkerUser[o] # WorkerUser[a]
    <3>1. WorkerKind[a] \in OfUser => ownerPc[a] = "user idle"
      BY <1>1, <1>2 DEF PhasesOf, OfUser, Outside
    <3> QED BY <1>1, <3>1 DEF Own!Ahead
  <2>3. WorkerKind[a] = "operate" => a \in leases' \cup unrenewed'
    BY <1>1 DEF OwnInv, WorkInv, LostLeasesAreKnown, Outside
  <2> QED BY <1>1, <1>3, <1>4, <2>1, <2>2, <2>3, OwnerWorks DEF OwnInv
<1>6. DisturbedKnow'
  <2>1. a \notin disturbed
    BY <1>1 DEF OwnInv, DisturbedKnow
  <2> QED BY <1>1, <2>1, DisturbingStep DEF OwnInv, WorkInv, Own!TypeOK
<1>7. DeletionsAreMarked' /\ FilesHaveVolumes'
  <2>1. OwnDeletion(a, p)
    <3>1. Marked(a) => (IF WorkerKind[a] = "removeChat" THEN WorkerChat[a] ELSE WorkerUser[a]) \in deleted
      BY DEF OwnInv, DeletionsAreMarked
    <3>2. p \notin {"done", "filling", "erasing"}
      BY DEF Own!AfterIdle
    <3>3. WorkerKind[a] = "removeChat" /\ p # "gated" => Marked(a)
      BY <1>1, <1>2 DEF Own!AfterIdle, Marked, PhasesOf, Outside, Starting
    <3> QED BY <1>1, <3>1, <3>2, <3>3 DEF OwnDeletion
  <2> QED BY <1>1, <1>3, <2>1, OwnerIsQuiet DEF OwnInv
<1> QED BY <1>5, <1>6, <1>7 DEF OwnInv

LEMMA RegisterKeeps ==
    ASSUME Own!OwnershipAssumption, OwnInv, NEW a \in Workers, Own!Register(a)
    PROVE  OwnInv'
<1> DEFINE p == IF Own!Available(a) THEN "wants 1" ELSE "failed"
<1>1. /\ ownerPc' = [ownerPc EXCEPT ![a] = p] /\ lock' = lock
      /\ leases' = (IF Own!Available(a) THEN leases \cup {a} ELSE leases)
      /\ unrenewed' = unrenewed /\ deleted' = deleted /\ disturbed' = disturbed
      /\ candidates' = candidates /\ victim' = victim /\ container' = container
      /\ volumes' = volumes /\ workspaces' = workspaces
      /\ ownerPc[a] = "new" /\ WorkerKind[a] = "operate" /\ (Own!Available(a) => ~Own!Blocked(a))
  BY DEF Own!Register
<1>2. p \in PhasesOf(WorkerKind[a]) /\ p \in Phases
  BY <1>1 DEF PhasesOf, Phases, Outside, Starting
<1>3. Own!TypeOK' /\ OthersKeep(a)
  BY <1>1 DEF OwnInv, WorkInv, Own!TypeOK, OthersKeep
<1>4. WorkInv'
  <2>1. GateHeld(a, p)
    BY <1>1 DEF GateHeld, OfUser, OfChat
  <2>2. \A o \in leases' \ leases : o = a /\ lock[Own!UserGate(WorkerUser[a])] = Nobody
    BY <1>1 DEF Own!Blocked
  <2>3. WorkerKind[a] \notin OfUser
    BY <1>1 DEF OfUser
  <2>4. p \notin Outside => a \in leases'
    BY <1>1 DEF Outside
  <2> QED BY <1>1, <1>2, <1>3, <2>1, <2>2, <2>3, <2>4, OwnerWorks DEF OwnInv
<1>5. DisturbedKnow'
  <2>1. a \notin disturbed
    BY <1>1 DEF OwnInv, DisturbedKnow
  <2> QED BY <1>1, <2>1, DisturbingStep DEF OwnInv, WorkInv, Own!TypeOK
<1>6. DeletionsAreMarked' /\ FilesHaveVolumes'
  <2>1. OwnDeletion(a, p)
    BY <1>1 DEF OwnDeletion
  <2> QED BY <1>1, <1>2, <2>1, OwnerIsQuiet DEF OwnInv
<1> QED BY <1>4, <1>5, <1>6 DEF OwnInv

LEMMA RetriesKeeps ==
    ASSUME Own!OwnershipAssumption, OwnInv, NEW a \in Workers, Own!Retries(a)
    PROVE  OwnInv'
<1>1. /\ ownerPc' = [ownerPc EXCEPT ![a] = "new"] /\ lock' = lock /\ leases' = leases
      /\ unrenewed' = unrenewed /\ deleted' = deleted /\ disturbed' = disturbed
      /\ candidates' = candidates /\ container' = container
      /\ volumes' = volumes /\ workspaces' = workspaces
      /\ victim' = [victim EXCEPT ![a] = WorkerUser[a]] /\ WorkerUser[a] \in SandboxUsers
      /\ ownerPc[a] = "failed" /\ WorkerKind[a] # "operate"
  BY OwnFinite DEF Own!Retries, Own!OwnershipAssumption
<1>2. Own!TypeOK' /\ OthersKeep(a)
  BY <1>1 DEF OwnInv, WorkInv, Own!TypeOK, OthersKeep
<1>3. WorkInv'
  BY <1>1, <1>2, Leaving DEF OwnInv, Outside
<1>4. DisturbedKnow'
  <2>1. a \notin disturbed
    BY <1>1 DEF OwnInv, WorkInv, Own!TypeOK
  <2> QED BY <1>1, <2>1, DisturbingStep DEF OwnInv, WorkInv, Own!TypeOK
<1>5. DeletionsAreMarked' /\ FilesHaveVolumes'
  <2>1. OwnDeletion(a, "new") /\ "new" \in Phases
    BY DEF OwnDeletion, Phases
  <2> QED BY <1>1, <2>1, OwnerIsQuiet DEF OwnInv
<1> QED BY <1>3, <1>4, <1>5 DEF OwnInv

(* A lease that is not renewed, and one that has expired.                  *)
LEMMA LeaseKeeps ==
    ASSUME Own!OwnershipAssumption, OwnInv, NEW a \in Workers, Own!RenewalFails(a) \/ Own!LeaseExpires(a)
    PROVE  OwnInv'
<1>1. /\ ownerPc' = ownerPc /\ lock' = lock /\ deleted' = deleted /\ disturbed' = disturbed
      /\ candidates' = candidates /\ victim' = victim /\ container' = container
      /\ volumes' = volumes /\ workspaces' = workspaces
      /\ leases' \subseteq leases /\ unrenewed \subseteq unrenewed'
      /\ leases \subseteq leases' \cup unrenewed' /\ unrenewed' \subseteq unrenewed \cup leases
  BY DEF Own!RenewalFails, Own!LeaseExpires
<1>2. Own!TypeOK'
  BY <1>1 DEF OwnInv, WorkInv, Own!TypeOK
<1>3. GatesAreHeld' /\ PhasesByKind'
  BY <1>1 DEF OwnInv, WorkInv, GatesAreHeld, PhasesByKind
<1>4. UsersAreIdle'
  BY <1>1 DEF OwnInv, WorkInv, UsersAreIdle
<1>5. LostLeasesAreKnown'
  BY <1>1 DEF OwnInv, WorkInv, LostLeasesAreKnown
<1>6. DisturbedKnow'
  BY <1>1 DEF OwnInv, DisturbedKnow
<1>7. DeletionsAreMarked' /\ FilesHaveVolumes'
  BY <1>1 DEF OwnInv, DeletionsAreMarked, FilesHaveVolumes, Marked
<1> QED BY <1>1, <1>2, <1>3, <1>4, <1>5, <1>6, <1>7 DEF OwnInv, WorkInv

-----------------------------------------------------------------------------
(* Starting a container, and stopping an idle one for it.                  *)

(* What starts has a volume, and only what is not deleted starts.          *)
LEMMA StartsStorage ==
    ASSUME Own!OwnershipAssumption, OwnInv, NEW a \in Workers, NEW s \in {"stopped", "running"},
           Own!Starts(a, s), WorkerUser[a] \notin deleted
    PROVE  /\ FilesHaveVolumes'
           /\ container' \in [SandboxUsers -> {"none", "stopped", "running"}]
           /\ volumes' \subseteq SandboxUsers /\ workspaces' = workspaces
           /\ \A u \in volumes' \ volumes : u \notin deleted
           /\ \A u \in SandboxUsers : container[u] = "none" /\ container'[u] # "none" => u \notin deleted
<1>1. /\ container' = [container EXCEPT ![WorkerUser[a]] = s]
      /\ volumes' = volumes \cup {WorkerUser[a]} /\ workspaces' = workspaces
  BY DEF Own!Starts
<1>2. WorkerUser[a] \in SandboxUsers /\ container \in [SandboxUsers -> {"none", "stopped", "running"}]
      /\ volumes \subseteq SandboxUsers
  BY OwnFinite DEF Own!OwnershipAssumption, OwnInv, WorkInv, Own!TypeOK
<1>3. \A u \in SandboxUsers : container'[u] = IF u = WorkerUser[a] THEN s ELSE container[u]
  BY <1>1, <1>2
<1>4. FilesHaveVolumes'
  BY <1>1, <1>2, <1>3 DEF OwnInv, FilesHaveVolumes
<1> QED BY <1>1, <1>2, <1>3, <1>4

(* Who looks for room: an operation, or a deletion in a conversation; its  *)
(* gate, if it holds one, is none of the locks given back.                 *)
LEMMA Lookers ==
    ASSUME Own!OwnershipAssumption, OwnInv, NEW a \in Workers, ownerPc[a] \in Starting, ownerPc[a] # "wants 2"
    PROVE  /\ WorkerKind[a] \in {"operate", "removeChat", "tidy"}
           /\ ownerPc[a] \notin Outside \cup {"user idle"}
           /\ a \notin disturbed
           /\ WorkerKind[a] = "removeChat" => WorkerChat[a] \in deleted
<1>1. ownerPc[a] \in PhasesOf(WorkerKind[a]) /\ WorkerKind[a] \in Own!Kinds
  BY OwnFinite DEF OwnInv, WorkInv, PhasesByKind, Own!OwnershipAssumption
<1>2. WorkerKind[a] \in {"operate", "removeChat", "tidy"} /\ ownerPc[a] \notin Outside \cup {"user idle"}
  BY <1>1 DEF PhasesOf, Own!Kinds, Outside, Starting
<1>3. a \notin disturbed
  BY DEF OwnInv, DisturbedKnow, Starting
<1>4. WorkerKind[a] = "removeChat" => WorkerChat[a] \in deleted
  BY <1>2 DEF OwnInv, DeletionsAreMarked, Marked, Starting
<1> QED BY <1>2, <1>3, <1>4

(* What the looks at the containers have in common.                        *)
LEMMA Looking ==
    ASSUME Own!OwnershipAssumption, OwnInv, NEW a \in Workers, Own!TypeOK',
           ownerPc[a] \in Starting, ownerPc[a] # "wants 2", NEW p \in {"running", "wants storage", "seeking", "wants 3"},
           ownerPc' = [ownerPc EXCEPT ![a] = p], p = "running" => WorkerKind[a] = "operate",
           p = "wants storage" => WorkerKind[a] # "operate", NEW S, lock' = Own!Freed(a, S),
           \A k \in SandboxChats : Own!ChatGate(k) \notin S, leases' = leases, unrenewed' = unrenewed,
           deleted' = deleted
    PROVE  WorkInv' /\ OwnDeletion(a, p)
<1>1. /\ WorkerKind[a] \in {"operate", "removeChat", "tidy"} /\ ownerPc[a] \notin Outside \cup {"user idle"}
      /\ (WorkerKind[a] = "removeChat" => WorkerChat[a] \in deleted)
  BY Lookers
<1>2. p \in PhasesOf(WorkerKind[a]) /\ p \in Phases
  BY <1>1 DEF PhasesOf, Phases, Starting, Outside
<1>3. OthersKeep(a) /\ \A l \in Own!Locks \ S : lock'[l] = lock[l]
  BY FreedLocks DEF OwnInv, WorkInv, Own!TypeOK
<1>4. WorkerKind[a] \in OfChat => lock'[Own!ChatGate(WorkerChat[a])] = lock[Own!ChatGate(WorkerChat[a])]
  <2>1. WorkerChat[a] \in SandboxChats
    BY OwnFinite DEF Own!OwnershipAssumption
  <2> QED BY <1>3, <2>1, LocksDiffer
<1>5. WorkerKind[a] \notin OfUser
  BY <1>1 DEF OfUser
<1>6. WorkInv'
  BY <1>1, <1>2, <1>3, <1>4, <1>5, OwnerGoesOn DEF OwnInv
<1>7. OwnDeletion(a, p)
  BY <1>1 DEF OwnDeletion
<1> QED BY <1>6, <1>7

LEMMA FirstLookKeeps ==
    ASSUME Own!OwnershipAssumption, OwnInv, NEW a \in Workers, Own!FirstLook(a)
    PROVE  OwnInv'
<1> DEFINE p == IF Own!CanStart(a) THEN Own!Running(a) ELSE "seeking"
           s == IF Own!CanStart(a) THEN "running" ELSE Own!Created(WorkerUser[a])
<1>1. /\ ownerPc[a] = "first look" /\ WorkerUser[a] \notin deleted /\ Own!Starts(a, s)
      /\ candidates' = [candidates EXCEPT ![a] =
             IF Own!CanStart(a) THEN {} ELSE Own!RunningContainers \ {WorkerUser[a]}]
      /\ lock' = Own!Freed(a, {Own!Capacity}) /\ ownerPc' = [ownerPc EXCEPT ![a] = p]
      /\ leases' = leases /\ unrenewed' = unrenewed /\ deleted' = deleted
      /\ victim' = victim /\ disturbed' = disturbed
  BY DEF Own!FirstLook
<1>2. s \in {"stopped", "running"}
  BY OwnFinite DEF Own!Created, Own!OwnershipAssumption, OwnInv, WorkInv, Own!TypeOK
<1>3. p \in {"running", "wants storage", "seeking"} /\ (p = "running" => WorkerKind[a] = "operate")
      /\ (p = "wants storage" => WorkerKind[a] # "operate")
  BY DEF Own!Running
<1> HIDE DEF p, s
<1>4. /\ FilesHaveVolumes' /\ container' \in [SandboxUsers -> {"none", "stopped", "running"}]
      /\ volumes' \subseteq SandboxUsers /\ workspaces' = workspaces
      /\ \A u \in volumes' \ volumes : u \notin deleted
      /\ \A u \in SandboxUsers : container[u] = "none" /\ container'[u] # "none" => u \notin deleted
  BY <1>1, <1>2, StartsStorage
<1>5. Own!TypeOK'
  <2>1. lock' \in [Own!Locks -> Workers \cup {Nobody}]
    BY <1>1, FreedLocks DEF OthersKeep, OwnInv, WorkInv, Own!TypeOK
  <2>2. candidates' \in [Workers -> SUBSET SandboxUsers]
    BY <1>1 DEF OwnInv, WorkInv, Own!TypeOK, Own!RunningContainers
  <2> QED BY <1>1, <1>4, <2>1, <2>2 DEF OwnInv, WorkInv, Own!TypeOK
<1>6. WorkInv' /\ OwnDeletion(a, p)
  <2>1. \A k \in SandboxChats : Own!ChatGate(k) \notin {Own!Capacity}
    BY LocksDiffer
  <2> QED BY <1>1, <1>3, <1>5, <2>1, Looking DEF Starting
<1>7. DisturbedKnow'
  <2>1. a \notin disturbed
    BY <1>1, Lookers DEF Starting
  <2> QED BY <1>1, <2>1, DisturbingStep DEF OwnInv, WorkInv, Own!TypeOK
<1>8. DeletionsAreMarked'
  <2>1. p \in Phases
    BY <1>3 DEF Phases
  <2> QED BY <1>1, <1>4, <1>6, <2>1, DeletionStep DEF OwnInv
<1> QED BY <1>4, <1>6, <1>7, <1>8 DEF OwnInv

LEMMA SeekKeeps ==
    ASSUME Own!OwnershipAssumption, OwnInv, NEW a \in Workers, Own!Seek(a)
    PROVE  OwnInv'
<1>1. /\ ownerPc' = ownerPc /\ lock' = lock /\ deleted' = deleted /\ disturbed' = disturbed
      /\ leases' = leases /\ unrenewed' = unrenewed /\ container' = container
      /\ volumes' = volumes /\ workspaces' = workspaces
  BY DEF Own!Seek
<1>2. candidates' \in [Workers -> SUBSET SandboxUsers] /\ victim' \in [Workers -> SandboxUsers]
  <2>1. PICK u \in candidates[a] : /\ candidates' = [candidates EXCEPT ![a] = @ \ {u}]
                                   /\ victim' = [victim EXCEPT ![a] = IF Own!Active(u) THEN @ ELSE u]
    BY DEF Own!Seek
  <2>2. candidates[a] \subseteq SandboxUsers /\ u \in SandboxUsers
    BY <2>1 DEF OwnInv, WorkInv, Own!TypeOK
  <2> QED BY <2>1, <2>2 DEF OwnInv, WorkInv, Own!TypeOK
<1>3. WorkInv'
  BY <1>1, <1>2 DEF OwnInv, WorkInv, Own!TypeOK, PhasesByKind, GatesAreHeld, UsersAreIdle,
                    LostLeasesAreKnown
<1> QED BY <1>1, <1>3 DEF OwnInv, DisturbedKnow, FilesHaveVolumes, DeletionsAreMarked, Marked

(* Stopping or removing a container that nobody is registered for.         *)
LEMMA StopsSafely ==
    ASSUME Own!OwnershipAssumption, OwnInv, NEW a \in Workers, NEW p, ownerPc' = [ownerPc EXCEPT ![a] = p],
           p # "running", ownerPc[a] # "running", ownerPc[a] \notin {"new", "failed"}, NEW u \in SandboxUsers,
           NEW s \in {"none", "stopped"}, Own!Stops(u, s), \A o \in leases : WorkerUser[o] # u,
           unrenewed' = unrenewed
    PROVE  /\ DisturbedKnow' /\ disturbed' \subseteq Own!Operations
           /\ container' \in [SandboxUsers -> {"none", "stopped", "running"}]
           /\ \A v \in SandboxUsers : container'[v] = IF v = u THEN s ELSE container[v]
<1>1. /\ container' = [container EXCEPT ![u] = s]
      /\ disturbed' = disturbed \cup {o \in Own!Operations : WorkerUser[o] = u /\ ownerPc[o] = "running"}
  BY DEF Own!Stops
<1>2. /\ container' \in [SandboxUsers -> {"none", "stopped", "running"}]
      /\ \A v \in SandboxUsers : container'[v] = IF v = u THEN s ELSE container[v]
      /\ disturbed' \subseteq Own!Operations /\ disturbed \subseteq Own!Operations
  BY <1>1 DEF OwnInv, WorkInv, Own!TypeOK
<1>3. a \notin disturbed
  BY DEF OwnInv, DisturbedKnow
<1>4. \A o \in disturbed' \ disturbed :
          o # a /\ o \in Own!Operations /\ ownerPc[o] = "running" /\ o \notin leases
  BY <1>1
<1>5. DisturbedKnow'
  BY <1>2, <1>3, <1>4, DisturbingStep DEF OwnInv
<1> QED BY <1>2, <1>5

LEMMA SecondLookKeeps ==
    ASSUME Own!OwnershipAssumption, OwnInv, NEW a \in Workers, Own!SecondLook(a)
    PROVE  OwnInv'
<1> DEFINE S == {Own!Capacity, Own!UserGate(victim[a])}
<1>1. PICK p \in {"seeking", "wants 3"} :
          /\ ownerPc[a] = "second look" /\ ownerPc' = [ownerPc EXCEPT ![a] = p] /\ lock' = Own!Freed(a, S)
          /\ victim' = [victim EXCEPT ![a] = WorkerUser[a]] /\ candidates' = candidates
          /\ leases' = leases /\ unrenewed' = unrenewed /\ deleted' = deleted
          /\ volumes' = volumes /\ workspaces' = workspaces
          /\ \/ container' = container /\ disturbed' = disturbed
             \/ ~Own!Active(victim[a]) /\ Own!Stops(victim[a], "stopped") /\ container[victim[a]] = "running"
  BY DEF Own!SecondLook, Own!Gives
<1>2. victim[a] \in SandboxUsers /\ WorkerUser[a] \in SandboxUsers
  BY OwnFinite DEF Own!OwnershipAssumption, OwnInv, WorkInv, Own!TypeOK
<1>3. /\ DisturbedKnow' /\ disturbed' \subseteq Own!Operations
      /\ container' \in [SandboxUsers -> {"none", "stopped", "running"}]
      /\ \A v \in SandboxUsers : container'[v] = "none" <=> container[v] = "none"
  <2>1. CASE container' = container /\ disturbed' = disturbed
    <3>1. a \notin disturbed
      BY <1>1, Lookers DEF Starting
    <3>2. DisturbedKnow'
      BY <1>1, <2>1, <3>1, DisturbingStep DEF OwnInv, WorkInv, Own!TypeOK
    <3> QED BY <2>1, <3>2 DEF OwnInv, WorkInv, Own!TypeOK
  <2>2. CASE ~Own!Active(victim[a]) /\ Own!Stops(victim[a], "stopped") /\ container[victim[a]] = "running"
    <3>1. \A o \in leases : WorkerUser[o] # victim[a]
      BY <2>2 DEF Own!Active
    <3>2. /\ ownerPc' = [ownerPc EXCEPT ![a] = p] /\ ownerPc[a] = "second look" /\ unrenewed' = unrenewed
          /\ p # "running"
      BY <1>1
    <3>3. Own!Stops(victim[a], "stopped")
      BY <2>2
    <3>4. /\ DisturbedKnow' /\ disturbed' \subseteq Own!Operations
          /\ container' \in [SandboxUsers -> {"none", "stopped", "running"}]
          /\ \A v \in SandboxUsers : container'[v] = IF v = victim[a] THEN "stopped" ELSE container[v]
      BY <1>2, <3>1, <3>2, <3>3, StopsSafely
    <3> QED BY <2>2, <3>4
  <2> QED BY <1>1, <2>1, <2>2
<1>4. Own!TypeOK'
  <2>1. lock' \in [Own!Locks -> Workers \cup {Nobody}]
    BY <1>1, FreedLocks DEF OthersKeep, OwnInv, WorkInv, Own!TypeOK
  <2>2. victim' \in [Workers -> SandboxUsers]
    BY <1>1, <1>2 DEF OwnInv, WorkInv, Own!TypeOK
  <2> QED BY <1>1, <1>3, <2>1, <2>2 DEF OwnInv, WorkInv, Own!TypeOK
<1>5. WorkInv' /\ OwnDeletion(a, p)
  <2>1. \A k \in SandboxChats : Own!ChatGate(k) \notin S
    BY <1>2, LocksDiffer
  <2> HIDE DEF S
  <2> QED BY <1>1, <1>4, <2>1, Looking DEF Starting
<1>6. DeletionsAreMarked'
  <2>1. p \in Phases
    BY DEF Phases
  <2>2. \A u \in SandboxUsers : container[u] = "none" /\ container'[u] # "none" => u \notin deleted
    BY <1>3
  <2>3. /\ deleted \subseteq deleted' /\ \A x \in deleted' \ deleted : x \in SandboxUsers \/ lock[Own!ChatGate(x)] = a
        /\ \A k \in workspaces' \ workspaces : k \notin deleted
        /\ \A u \in volumes' \ volumes : u \notin deleted
    BY <1>1
  <2> QED BY <1>1, <1>5, <2>1, <2>2, <2>3, DeletionStep DEF OwnInv
<1>7. FilesHaveVolumes'
  BY <1>1, <1>3 DEF OwnInv, FilesHaveVolumes
<1> QED BY <1>3, <1>5, <1>6, <1>7 DEF OwnInv

LEMMA LastLookKeeps ==
    ASSUME Own!OwnershipAssumption, OwnInv, NEW a \in Workers, Own!LastLook(a)
    PROVE  OwnInv'
<1> DEFINE s == IF Own!CanStart(a) THEN "running" ELSE Own!Created(WorkerUser[a])
<1>1. /\ ownerPc[a] = "last look" /\ WorkerUser[a] \notin deleted /\ Own!Starts(a, s)
      /\ candidates' = candidates /\ victim' = victim
      /\ deleted' = deleted /\ disturbed' = disturbed
  BY DEF Own!LastLook, Own!Fails
<1>2. s \in {"stopped", "running"}
  BY OwnFinite DEF Own!Created, Own!OwnershipAssumption, OwnInv, WorkInv, Own!TypeOK
<1>3. \/ /\ lock' = Own!Freed(a, {Own!Capacity}) /\ ownerPc' = [ownerPc EXCEPT ![a] = Own!Running(a)]
         /\ leases' = leases /\ unrenewed' = unrenewed
      \/ Own!Fails(a)
  BY DEF Own!LastLook
<1> HIDE DEF s
<1>4. /\ FilesHaveVolumes' /\ container' \in [SandboxUsers -> {"none", "stopped", "running"}]
      /\ volumes' \subseteq SandboxUsers /\ workspaces' = workspaces
      /\ \A u \in volumes' \ volumes : u \notin deleted
      /\ \A u \in SandboxUsers : container[u] = "none" /\ container'[u] # "none" => u \notin deleted
  BY <1>1, <1>2, StartsStorage
<1>5. a \notin disturbed
  BY <1>1, Lookers DEF Starting
<1>6. CASE /\ lock' = Own!Freed(a, {Own!Capacity}) /\ ownerPc' = [ownerPc EXCEPT ![a] = Own!Running(a)]
           /\ leases' = leases /\ unrenewed' = unrenewed
  <2> DEFINE p == Own!Running(a)
  <2>1. p \in {"running", "wants storage", "seeking"} /\ (p = "running" => WorkerKind[a] = "operate")
        /\ (p = "wants storage" => WorkerKind[a] # "operate")
    BY DEF Own!Running
  <2>2. ownerPc' = [ownerPc EXCEPT ![a] = p]
    BY <1>6
  <2> HIDE DEF p
  <2>3. lock' \in [Own!Locks -> Workers \cup {Nobody}]
    BY <1>6, FreedLocks DEF OthersKeep, OwnInv, WorkInv, Own!TypeOK
  <2>4. Own!TypeOK'
    BY <1>1, <1>4, <1>6, <2>3 DEF OwnInv, WorkInv, Own!TypeOK
  <2>5. \A k \in SandboxChats : Own!ChatGate(k) \notin {Own!Capacity}
    BY LocksDiffer
  <2>6. WorkInv' /\ OwnDeletion(a, p)
    BY <1>1, <1>6, <2>1, <2>2, <2>4, <2>5, Looking DEF Starting
  <2>7. DisturbedKnow'
    BY <1>1, <1>5, <1>6, <2>2, DisturbingStep DEF OwnInv, WorkInv, Own!TypeOK
  <2>8. DeletionsAreMarked'
    <3>1. p \in Phases
      BY <2>1 DEF Phases
    <3> QED BY <1>1, <1>4, <2>2, <2>6, <3>1, DeletionStep DEF OwnInv
  <2> QED BY <1>4, <2>6, <2>7, <2>8 DEF OwnInv
<1>7. CASE Own!Fails(a)
  <2>1. /\ lock' = Own!Freed(a, Own!Locks) /\ leases' = leases \ {a} /\ unrenewed' = unrenewed \ {a}
        /\ ownerPc' = [ownerPc EXCEPT ![a] = "failed"]
    BY <1>7 DEF Own!Fails, Own!FreedAll
  <2>2. OthersKeep(a)
    BY <2>1, FreedLocks DEF OwnInv, WorkInv, Own!TypeOK
  <2>3. Own!TypeOK'
    BY <1>1, <1>4, <2>1, <2>2 DEF OwnInv, WorkInv, Own!TypeOK, OthersKeep
  <2>4. WorkInv'
    BY <2>1, <2>2, <2>3, Leaving DEF OwnInv, Outside
  <2>5. DisturbedKnow'
    BY <1>1, <1>5, <2>1, DisturbingStep DEF OwnInv, WorkInv, Own!TypeOK
  <2>6. DeletionsAreMarked'
    <3>1. OwnDeletion(a, "failed") /\ "failed" \in Phases
      BY DEF OwnDeletion, Phases
    <3> QED BY <1>1, <1>4, <2>1, <3>1, DeletionStep DEF OwnInv
  <2> QED BY <1>4, <2>4, <2>5, <2>6 DEF OwnInv
<1> QED BY <1>3, <1>6, <1>7

-----------------------------------------------------------------------------
(* The work itself.                                                        *)

LEMMA OperationEndsKeeps ==
    ASSUME Own!OwnershipAssumption, OwnInv, NEW a \in Workers, Own!OperationEnds(a)
    PROVE  OwnInv'
<1> DEFINE p == IF a \in unrenewed THEN "failed" ELSE "done"
<1>1. /\ WorkerKind[a] = "operate" /\ ownerPc[a] = "running" /\ ownerPc' = [ownerPc EXCEPT ![a] = p]
      /\ leases' = leases \ {a} /\ unrenewed' = unrenewed \ {a} /\ lock' = lock
      /\ deleted' = deleted /\ disturbed' = disturbed /\ candidates' = candidates
      /\ victim' = victim /\ container' = container /\ volumes' = volumes
      /\ workspaces' = workspaces
  BY DEF Own!OperationEnds
<1>2. Own!TypeOK' /\ OthersKeep(a)
  BY <1>1 DEF OwnInv, WorkInv, Own!TypeOK, OthersKeep
<1>3. p \in Outside /\ p \in Phases
  BY DEF Outside, Phases
<1>4. WorkInv'
  BY <1>1, <1>2, <1>3, Leaving DEF OwnInv
<1>5. DisturbedKnow'
  <2>1. a \in disturbed => p = "failed"
    BY <1>1 DEF OwnInv, DisturbedKnow
  <2> QED BY <1>1, <2>1, DisturbingStep DEF OwnInv, WorkInv, Own!TypeOK
<1>6. DeletionsAreMarked' /\ FilesHaveVolumes'
  <2>1. OwnDeletion(a, p)
    BY <1>1 DEF OwnDeletion
  <2> QED BY <1>1, <1>3, <2>1, OwnerIsQuiet DEF OwnInv
<1> QED BY <1>4, <1>5, <1>6 DEF OwnInv

(* Ending with everything released: the storage is what the step says.     *)
LEMMA Ending ==
    ASSUME Own!OwnershipAssumption, OwnInv, NEW a \in Workers, NEW p \in Outside, Own!Ends(a, p),
           deleted' \subseteq SandboxUsers \cup SandboxChats, disturbed' \subseteq Own!Operations,
           container' \in [SandboxUsers -> {"none", "stopped", "running"}],
           volumes' \subseteq SandboxUsers, workspaces' \subseteq SandboxChats
    PROVE  WorkInv' /\ p \in Phases /\ ownerPc' = [ownerPc EXCEPT ![a] = p] /\ unrenewed' = unrenewed
<1>1. /\ lock' = Own!Freed(a, Own!Locks) /\ leases' = leases /\ unrenewed' = unrenewed
      /\ ownerPc' = [ownerPc EXCEPT ![a] = p] /\ candidates' = candidates /\ victim' = victim
  BY DEF Own!Ends, Own!FreedAll
<1>2. OthersKeep(a)
  BY <1>1, FreedLocks DEF OwnInv, WorkInv, Own!TypeOK
<1>3. Own!TypeOK'
  BY <1>1, <1>2 DEF OwnInv, WorkInv, Own!TypeOK, OthersKeep
<1>4. WorkInv'
  BY <1>1, <1>2, <1>3, Leaving DEF OwnInv
<1> QED BY <1>1, <1>4 DEF Outside, Phases

LEMMA PreparesKeeps ==
    ASSUME Own!OwnershipAssumption, OwnInv, NEW a \in Workers, Own!Prepares(a)
    PROVE  OwnInv'
<1>1. CASE Own!Available(a)
  <2> DEFINE s == Own!Created(WorkerUser[a])
  <2>1. /\ ownerPc[a] = "preparing" /\ Own!Starts(a, s) /\ ownerPc' = [ownerPc EXCEPT ![a] = "filling"]
        /\ lock' = lock /\ leases' = leases /\ unrenewed' = unrenewed /\ deleted' = deleted
        /\ disturbed' = disturbed /\ candidates' = candidates /\ victim' = victim
    BY <1>1 DEF Own!Prepares, Own!Starts
  <2>2. s \in {"stopped", "running"}
    BY OwnFinite DEF Own!Created, Own!OwnershipAssumption, OwnInv, WorkInv, Own!TypeOK
  <2>3. WorkerUser[a] \notin deleted /\ WorkerChat[a] \notin deleted
    BY <1>1 DEF Own!Available
  <2> HIDE DEF s
  <2>4. /\ FilesHaveVolumes' /\ container' \in [SandboxUsers -> {"none", "stopped", "running"}]
        /\ volumes' \subseteq SandboxUsers /\ workspaces' = workspaces
        /\ \A u \in volumes' \ volumes : u \notin deleted
        /\ \A u \in SandboxUsers : container[u] = "none" /\ container'[u] # "none" => u \notin deleted
    BY <2>1, <2>2, <2>3, StartsStorage
  <2>5. Own!TypeOK' /\ OthersKeep(a)
    BY <2>1, <2>4 DEF OwnInv, WorkInv, Own!TypeOK, OthersKeep
  <2>6. WorkerKind[a] = "prepare"
    BY <2>1 DEF OwnInv, WorkInv, PhasesByKind, PhasesOf, Outside, Starting
  <2>7. "filling" \in PhasesOf(WorkerKind[a]) /\ "filling" \in Phases
        /\ ownerPc[a] \notin Outside \cup {"user idle"}
    BY <2>1, <2>6 DEF PhasesOf, Phases, Outside
  <2>8. WorkInv'
    BY <2>1, <2>5, <2>7, OwnerGoesOn DEF OwnInv
  <2>9. DisturbedKnow'
    <3>1. a \notin disturbed
      BY <2>1 DEF OwnInv, DisturbedKnow
    <3> QED BY <2>1, <3>1, DisturbingStep DEF OwnInv, WorkInv, Own!TypeOK
  <2>10. DeletionsAreMarked'
    <3>1. OwnDeletion(a, "filling")
      BY <2>1, <2>3, <2>6 DEF OwnDeletion
    <3> QED BY <2>1, <2>4, <2>7, <3>1, DeletionStep DEF OwnInv
  <2> QED BY <2>4, <2>8, <2>9, <2>10 DEF OwnInv
<1>2. CASE ~Own!Available(a)
  BY <1>2, Failing DEF Own!Prepares
<1> QED BY <1>1, <1>2

LEMMA FillsKeeps ==
    ASSUME Own!OwnershipAssumption, OwnInv, NEW a \in Workers, Own!Fills(a)
    PROVE  OwnInv'
<1>1. CASE container[WorkerUser[a]] = "none"
  BY <1>1, Failing DEF Own!Fills
<1>2. CASE container[WorkerUser[a]] # "none"
  <2>1. /\ ownerPc[a] = "filling" /\ workspaces' = workspaces \cup {WorkerChat[a]} /\ Own!Ends(a, "done")
        /\ deleted' = deleted /\ container' = container /\ volumes' = volumes
        /\ disturbed' = disturbed
    BY <1>2 DEF Own!Fills
  <2>2. WorkerKind[a] = "prepare"
    BY <2>1 DEF OwnInv, WorkInv, PhasesByKind, PhasesOf, Outside, Starting
  <2>3. WorkerChat[a] \in SandboxChats /\ WorkerUser[a] \in SandboxUsers
    BY OwnFinite DEF Own!OwnershipAssumption
  <2>4. WorkInv' /\ "done" \in Phases /\ ownerPc' = [ownerPc EXCEPT ![a] = "done"] /\ unrenewed' = unrenewed
    <3>1. workspaces' \subseteq SandboxChats
      BY <2>1, <2>3 DEF OwnInv, WorkInv, Own!TypeOK
    <3> QED BY <2>1, <3>1, Ending DEF OwnInv, WorkInv, Own!TypeOK, Outside
  <2>5. DisturbedKnow'
    <3>1. a \notin disturbed
      BY <2>1 DEF OwnInv, DisturbedKnow
    <3> QED BY <2>1, <2>4, <3>1, DisturbingStep DEF OwnInv, WorkInv, Own!TypeOK
  <2>6. DeletionsAreMarked'
    <3>1. OwnDeletion(a, "done")
      BY <2>2 DEF OwnDeletion
    <3>2. WorkerChat[a] \notin deleted
      BY <2>1 DEF OwnInv, DeletionsAreMarked
    <3> QED BY <2>1, <2>4, <3>1, <3>2, DeletionStep DEF OwnInv
  <2>7. FilesHaveVolumes'
    <3>1. \A b \in Workers : WorkerChat[b] = WorkerChat[a] => WorkerUser[b] = WorkerUser[a]
      BY OwnFinite DEF Own!OwnershipAssumption
    <3>2. WorkerUser[a] \in volumes
      BY <1>2, <2>3 DEF OwnInv, FilesHaveVolumes
    <3> QED BY <2>1, <3>1, <3>2 DEF OwnInv, FilesHaveVolumes
  <2> QED BY <2>4, <2>5, <2>6, <2>7 DEF OwnInv
<1> QED BY <1>1, <1>2

LEMMA GatedKeeps ==
    ASSUME Own!OwnershipAssumption, OwnInv, NEW a \in Workers, Own!Gated(a)
    PROVE  OwnInv'
<1>1. CASE WorkerKind[a] = "tidy" /\ ~Own!Available(a)
  BY <1>1, Failing DEF Own!Gated
<1>2. CASE ~(WorkerKind[a] = "tidy" /\ ~Own!Available(a))
  <2>1. /\ ownerPc[a] = "gated" /\ container' = container /\ volumes' = volumes
        /\ workspaces' = workspaces /\ disturbed' = disturbed
        /\ deleted' = IF WorkerKind[a] = "removeChat" THEN deleted \cup {WorkerChat[a]} ELSE deleted
        /\ \/ WorkerUser[a] \notin volumes /\ Own!Ends(a, "done")
           \/ /\ ownerPc' = [ownerPc EXCEPT ![a] = "wants 1"] /\ lock' = lock /\ leases' = leases
              /\ unrenewed' = unrenewed /\ candidates' = candidates /\ victim' = victim
    BY <1>2 DEF Own!Gated
  <2>2. WorkerChat[a] \in SandboxChats /\ WorkerUser[a] \in SandboxUsers /\ WorkerKind[a] \in Own!Kinds
    BY OwnFinite DEF Own!OwnershipAssumption
  <2>3. WorkerKind[a] \in {"removeChat", "tidy"}
    BY <2>1, <2>2 DEF OwnInv, WorkInv, PhasesByKind, PhasesOf, Outside, Starting, Own!Kinds
  <2>4. lock[Own!ChatGate(WorkerChat[a])] = a
    BY <2>1, <2>3 DEF OwnInv, WorkInv, GatesAreHeld, Outside, OfChat
  <2>5. deleted' \subseteq SandboxUsers \cup SandboxChats
    BY <2>1, <2>2 DEF OwnInv, WorkInv, Own!TypeOK
  <2>6. a \notin disturbed
    BY <2>1 DEF OwnInv, DisturbedKnow
  <2>7. FilesHaveVolumes'
    BY <2>1 DEF OwnInv, FilesHaveVolumes
  <2>8. CASE WorkerUser[a] \notin volumes /\ Own!Ends(a, "done")
    <3>1. WorkInv' /\ "done" \in Phases /\ ownerPc' = [ownerPc EXCEPT ![a] = "done"] /\ unrenewed' = unrenewed
      BY <2>1, <2>5, <2>8, Ending DEF OwnInv, WorkInv, Own!TypeOK, Outside
    <3>2. DisturbedKnow'
      BY <2>1, <2>6, <3>1, DisturbingStep DEF OwnInv, WorkInv, Own!TypeOK
    <3>3. OwnDeletion(a, "done")
      BY <2>1, <2>3, <2>8 DEF OwnDeletion, OwnInv, FilesHaveVolumes
    <3>4. DeletionsAreMarked'
      BY <2>1, <2>4, <3>1, <3>3, DeletionStep DEF OwnInv
    <3> QED BY <2>7, <3>1, <3>2, <3>4 DEF OwnInv
  <2>9. CASE /\ ownerPc' = [ownerPc EXCEPT ![a] = "wants 1"] /\ lock' = lock /\ leases' = leases
             /\ unrenewed' = unrenewed /\ candidates' = candidates /\ victim' = victim
    <3>1. Own!TypeOK' /\ OthersKeep(a)
      BY <2>1, <2>5, <2>9 DEF OwnInv, WorkInv, Own!TypeOK, OthersKeep
    <3>2. "wants 1" \in PhasesOf(WorkerKind[a]) /\ "wants 1" \in Phases
          /\ ownerPc[a] \notin Outside \cup {"user idle"}
      BY <2>1, <2>3 DEF PhasesOf, Phases, Outside, Starting
    <3>3. WorkInv'
      BY <2>9, <3>1, <3>2, OwnerGoesOn DEF OwnInv
    <3>4. DisturbedKnow'
      BY <2>1, <2>6, <2>9, DisturbingStep DEF OwnInv, WorkInv, Own!TypeOK
    <3>5. OwnDeletion(a, "wants 1")
      BY <2>1, <2>3 DEF OwnDeletion
    <3>6. DeletionsAreMarked'
      BY <2>1, <2>4, <2>9, <3>2, <3>5, DeletionStep DEF OwnInv
    <3> QED BY <2>7, <3>3, <3>4, <3>6 DEF OwnInv
  <2> QED BY <2>1, <2>8, <2>9
<1> QED BY <1>1, <1>2

LEMMA DeletesKeeps ==
    ASSUME Own!OwnershipAssumption, OwnInv, NEW a \in Workers, Own!Deletes(a)
    PROVE  OwnInv'
<1>1. CASE container[WorkerUser[a]] # "running"
  BY <1>1, Failing DEF Own!Deletes
<1>2. CASE container[WorkerUser[a]] = "running"
  <2>1. /\ ownerPc[a] = "deleting" /\ Own!Ends(a, "done") /\ deleted' = deleted
        /\ container' = container /\ volumes' = volumes /\ disturbed' = disturbed
        /\ workspaces' = IF WorkerKind[a] = "removeChat" THEN workspaces \ {WorkerChat[a]} ELSE workspaces
    BY <1>2 DEF Own!Deletes
  <2>2. WorkerKind[a] \in {"removeChat", "tidy"}
    <3>1. WorkerKind[a] \in Own!Kinds
      BY OwnFinite DEF Own!OwnershipAssumption
    <3>2. ownerPc[a] \in PhasesOf(WorkerKind[a])
      BY DEF OwnInv, WorkInv, PhasesByKind
    <3> QED BY <2>1, <3>1, <3>2 DEF PhasesOf, Outside, Starting, Own!Kinds
  <2>3. WorkInv' /\ "done" \in Phases /\ ownerPc' = [ownerPc EXCEPT ![a] = "done"] /\ unrenewed' = unrenewed
    BY <2>1, Ending DEF OwnInv, WorkInv, Own!TypeOK, Outside
  <2>4. DisturbedKnow'
    <3>1. a \notin disturbed
      BY <2>1 DEF OwnInv, DisturbedKnow
    <3> QED BY <2>1, <2>3, <3>1, DisturbingStep DEF OwnInv, WorkInv, Own!TypeOK
  <2>5. OwnDeletion(a, "done")
    <3>1. WorkerKind[a] = "removeChat" => WorkerChat[a] \in deleted
      BY <2>1 DEF OwnInv, DeletionsAreMarked, Marked
    <3> QED BY <2>1, <2>2, <3>1 DEF OwnDeletion
  <2>6. DeletionsAreMarked'
    BY <2>1, <2>3, <2>5, DeletionStep DEF OwnInv
  <2>7. FilesHaveVolumes'
    BY <2>1 DEF OwnInv, FilesHaveVolumes
  <2> QED BY <2>3, <2>4, <2>6, <2>7 DEF OwnInv
<1> QED BY <1>1, <1>2

LEMMA MarksUserKeeps ==
    ASSUME Own!OwnershipAssumption, OwnInv, NEW a \in Workers, Own!MarksUser(a)
    PROVE  OwnInv'
<1>1. /\ ownerPc[a] = "marking" /\ ownerPc' = [ownerPc EXCEPT ![a] = "erasing"] /\ lock' = lock
      /\ leases' = leases /\ unrenewed' = unrenewed /\ deleted' = deleted \cup {WorkerUser[a]}
      /\ disturbed' = disturbed /\ candidates' = candidates /\ victim' = victim
      /\ container' = container /\ volumes' = volumes /\ workspaces' = workspaces
  BY DEF Own!MarksUser
<1>2. WorkerUser[a] \in SandboxUsers
  BY OwnFinite DEF Own!OwnershipAssumption
<1>3. WorkerKind[a] = "removeUser"
  BY <1>1 DEF OwnInv, WorkInv, PhasesByKind, PhasesOf, Outside, Starting
<1>4. Own!TypeOK' /\ OthersKeep(a)
  BY <1>1, <1>2 DEF OwnInv, WorkInv, Own!TypeOK, OthersKeep
<1>5. "erasing" \in PhasesOf(WorkerKind[a]) /\ "erasing" \in Phases
      /\ ownerPc[a] \notin Outside \cup {"user idle"}
  BY <1>1, <1>3 DEF PhasesOf, Phases, Outside
<1>6. WorkInv'
  BY <1>1, <1>4, <1>5, OwnerGoesOn DEF OwnInv
<1>7. DisturbedKnow'
  <2>1. a \notin disturbed
    BY <1>1 DEF OwnInv, DisturbedKnow
  <2> QED BY <1>1, <2>1, DisturbingStep DEF OwnInv, WorkInv, Own!TypeOK
<1>8. DeletionsAreMarked'
  <2>1. OwnDeletion(a, "erasing")
    BY <1>1, <1>3 DEF OwnDeletion
  <2> QED BY <1>1, <1>2, <1>5, <2>1, DeletionStep DEF OwnInv
<1>9. FilesHaveVolumes'
  BY <1>1 DEF OwnInv, FilesHaveVolumes
<1> QED BY <1>6, <1>7, <1>8, <1>9 DEF OwnInv

(* Maintenance with its user's gate: the user is idle.                     *)
LEMMA ErasesKeeps ==
    ASSUME Own!OwnershipAssumption, OwnInv, NEW a \in Workers, Own!Erases(a) \/ Own!EraseFails(a)
    PROVE  OwnInv'
<1>1. /\ ownerPc[a] = "erasing" /\ Own!Stops(WorkerUser[a], "none") /\ deleted' = deleted
      /\ volumes' \subseteq volumes /\ workspaces' \subseteq workspaces
  BY DEF Own!Erases, Own!EraseFails
<1>2. \/ /\ Own!Ends(a, "done") /\ volumes' = volumes \ {WorkerUser[a]}
         /\ \A b \in Workers : WorkerUser[b] = WorkerUser[a] => WorkerChat[b] \notin workspaces'
      \/ Own!Ends(a, "failed") /\ volumes' = volumes /\ workspaces' = workspaces
  BY DEF Own!Erases, Own!EraseFails
<1>3. PICK q \in {"done", "failed"} :
          /\ Own!Ends(a, q)
          /\ q = "done" => WorkerUser[a] \notin volumes'
          /\ \/ volumes' = volumes
             \/ /\ volumes' = volumes \ {WorkerUser[a]}
                /\ \A b \in Workers : WorkerUser[b] = WorkerUser[a] => WorkerChat[b] \notin workspaces'
  BY <1>2
<1>4. WorkerUser[a] \in SandboxUsers /\ WorkerKind[a] \in Own!Kinds
  BY OwnFinite DEF Own!OwnershipAssumption
<1>5. WorkerKind[a] = "removeUser"
  BY <1>1 DEF OwnInv, WorkInv, PhasesByKind, PhasesOf, Outside, Starting
<1>6. \A o \in leases : WorkerUser[o] # WorkerUser[a]
  BY <1>1, <1>5 DEF OwnInv, WorkInv, UsersAreIdle, OfUser, Outside
<1>7. ownerPc' = [ownerPc EXCEPT ![a] = q] /\ unrenewed' = unrenewed
  BY <1>3 DEF Own!Ends
<1>8. /\ DisturbedKnow' /\ disturbed' \subseteq Own!Operations
      /\ container' \in [SandboxUsers -> {"none", "stopped", "running"}]
      /\ \A v \in SandboxUsers : container'[v] = IF v = WorkerUser[a] THEN "none" ELSE container[v]
  BY <1>1, <1>4, <1>6, <1>7, StopsSafely
<1>9. WorkInv' /\ q \in Phases
  BY <1>1, <1>3, <1>8, Ending DEF OwnInv, WorkInv, Own!TypeOK, Outside
<1>10. DeletionsAreMarked'
  <2>1. OwnDeletion(a, q)
    <3>1. WorkerUser[a] \in deleted
      BY <1>1, <1>5 DEF OwnInv, DeletionsAreMarked, Marked
    <3> QED BY <1>1, <1>3, <1>4, <1>5, <1>8, <3>1 DEF OwnDeletion
  <2> QED BY <1>1, <1>7, <1>8, <1>9, <2>1, DeletionStep DEF OwnInv
<1>11. FilesHaveVolumes'
  BY <1>1, <1>3, <1>4, <1>8 DEF OwnInv, FilesHaveVolumes
<1> QED BY <1>8, <1>9, <1>10, <1>11 DEF OwnInv

LEMMA CleansKeeps ==
    ASSUME Own!OwnershipAssumption, OwnInv, NEW a \in Workers, Own!Cleans(a)
    PROVE  OwnInv'
<1>1. /\ ownerPc[a] = "cleaning" /\ Own!Ends(a, "new") /\ deleted' = deleted
      /\ volumes' = volumes /\ workspaces' = workspaces
      /\ \/ container' = container /\ disturbed' = disturbed
         \/ \E s \in {"none", "stopped"} :
               Own!Stops(WorkerUser[a], s) /\ container[WorkerUser[a]] # "none"
  BY DEF Own!Cleans
<1>2. WorkerUser[a] \in SandboxUsers
  BY OwnFinite DEF Own!OwnershipAssumption
<1>3. WorkerKind[a] = "clean"
  BY <1>1 DEF OwnInv, WorkInv, PhasesByKind, PhasesOf, Outside, Starting
<1>4. \A o \in leases : WorkerUser[o] # WorkerUser[a]
  BY <1>1, <1>3 DEF OwnInv, WorkInv, UsersAreIdle, OfUser, Outside
<1>5. ownerPc' = [ownerPc EXCEPT ![a] = "new"] /\ unrenewed' = unrenewed
  BY <1>1 DEF Own!Ends
<1>6. /\ DisturbedKnow' /\ disturbed' \subseteq Own!Operations
      /\ container' \in [SandboxUsers -> {"none", "stopped", "running"}]
      /\ \A v \in SandboxUsers : container'[v] # "none" => container[v] # "none"
  <2>1. CASE container' = container /\ disturbed' = disturbed
    <3>1. a \notin disturbed
      BY <1>1 DEF OwnInv, DisturbedKnow
    <3>2. DisturbedKnow'
      BY <1>5, <2>1, <3>1, DisturbingStep DEF OwnInv, WorkInv, Own!TypeOK
    <3> QED BY <2>1, <3>2 DEF OwnInv, WorkInv, Own!TypeOK
  <2>2. CASE \E s \in {"none", "stopped"} :
                 Own!Stops(WorkerUser[a], s) /\ container[WorkerUser[a]] # "none"
    <3>1. PICK s \in {"none", "stopped"} : Own!Stops(WorkerUser[a], s) /\ container[WorkerUser[a]] # "none"
      BY <2>2
    <3>2. /\ DisturbedKnow' /\ disturbed' \subseteq Own!Operations
          /\ container' \in [SandboxUsers -> {"none", "stopped", "running"}]
          /\ \A v \in SandboxUsers : container'[v] = IF v = WorkerUser[a] THEN s ELSE container[v]
      <4>1. ownerPc[a] = "cleaning"
        BY <1>1
      <4> QED BY <1>2, <1>4, <1>5, <3>1, <4>1, StopsSafely
    <3> QED BY <3>1, <3>2
  <2> QED BY <1>1, <2>1, <2>2
<1>7. WorkInv' /\ "new" \in Phases
  BY <1>1, <1>6, Ending DEF OwnInv, WorkInv, Own!TypeOK, Outside
<1>8. DeletionsAreMarked'
  <2>1. OwnDeletion(a, "new")
    BY <1>3 DEF OwnDeletion
  <2> QED BY <1>1, <1>5, <1>6, <1>7, <2>1, DeletionStep DEF OwnInv
<1>9. FilesHaveVolumes'
  BY <1>1, <1>6 DEF OwnInv, FilesHaveVolumes
<1> QED BY <1>6, <1>7, <1>8, <1>9 DEF OwnInv

-----------------------------------------------------------------------------
(* The number of running containers.                                       *)

(* A container that was not running starts only when there is room.        *)
LEMMA StartsInRoom ==
    ASSUME Own!TypeOK, NEW u \in SandboxUsers, NEW s, container' = [container EXCEPT ![u] = s],
           s = "running" => container[u] = "running" \/ Own!Room, Own!OwnershipAssumption, Own!CapacityIsKept
    PROVE  Own!CapacityIsKept'
<1> DEFINE R == Own!RunningContainers
           S == Own!RunningContainers'
<1>1. \A v \in SandboxUsers : container'[v] = IF v = u THEN s ELSE container[v]
  BY DEF Own!TypeOK
<1>2. S \subseteq R \/ (S \subseteq R \cup {u} /\ Own!Room)
  BY <1>1 DEF Own!RunningContainers
<1>3. IsFiniteSet(R)
  <2>1. R \subseteq SandboxUsers
    BY DEF Own!RunningContainers
  <2> QED BY <2>1, FS_Subset, OwnFinite DEF Own!OwnershipAssumption
<1>4. Cardinality(R) \in Nat /\ Cardinality(R) <= MaxRunning /\ MaxRunning \in Nat
  <2>1. Cardinality(R) \in Nat
    BY <1>3, FS_CardinalityType
  <2> QED BY <2>1, OwnCardinality, OwnFinite DEF Own!CapacityIsKept, Own!OwnershipAssumption
<1>5. CASE S \subseteq R
  <2> HIDE DEF R, S
  <2>1. Cardinality(S) \in Nat /\ Cardinality(S) <= Cardinality(R)
    <3>1. IsFiniteSet(S) /\ Cardinality(S) <= Cardinality(R)
      BY <1>3, <1>5, FS_Subset
    <3> QED BY <3>1, FS_CardinalityType
  <2>2. Cardinality(S) <= MaxRunning
    BY <1>4, <2>1
  <2> QED BY <2>2, OwnCardinality DEF Own!CapacityIsKept, S
<1>6. CASE S \subseteq R \cup {u} /\ Own!Room
  <2>1. Cardinality(R) < MaxRunning
    BY <1>6, OwnCardinality DEF Own!Room
  <2> HIDE DEF R, S
  <2>2. IsFiniteSet(R \cup {u}) /\ Cardinality(R \cup {u}) <= Cardinality(R) + 1
    <3>1. IsFiniteSet(R \cup {u})
          /\ Cardinality(R \cup {u}) = IF u \in R THEN Cardinality(R) ELSE Cardinality(R) + 1
      BY <1>3, FS_AddElement
    <3> QED BY <1>4, <3>1
  <2>3. IsFiniteSet(S) /\ Cardinality(S) <= Cardinality(R \cup {u})
    BY <1>6, <2>2, FS_Subset
  <2>4. Cardinality(S) \in Nat /\ Cardinality(R \cup {u}) \in Nat
    BY <2>2, <2>3, FS_CardinalityType
  <2>5. Cardinality(S) <= MaxRunning
    BY <1>4, <2>1, <2>2, <2>3, <2>4
  <2> QED BY <2>5, OwnCardinality DEF Own!CapacityIsKept, S
<1> QED BY <1>2, <1>5, <1>6

LEMMA CapacityStep ==
    ASSUME Own!OwnershipAssumption, OwnInv, Own!CapacityIsKept, [Own!Next]_(Own!vars)
    PROVE  Own!CapacityIsKept'
<1>1. \/ container' = container
      \/ \E u \in SandboxUsers, s \in {"none", "stopped", "running"} :
            /\ container' = [container EXCEPT ![u] = s]
            /\ s = "running" => container[u] = "running" \/ Own!Room
  <2>1. CASE UNCHANGED Own!vars
    BY <2>1 DEF Own!vars
  <2>2. CASE Own!Next
    <3>1. PICK a \in Workers :
              Own!Acquire(a) \/ Own!FindsIdle(a) \/ Own!Register(a) \/ Own!TimesOut(a) \/ Own!Retries(a)
              \/ Own!RenewalFails(a) \/ Own!LeaseExpires(a) \/ Own!GetRunning(a) \/ Own!Work(a)
      BY <2>2 DEF Own!Next
    <3>2. WorkerUser[a] \in SandboxUsers /\ victim[a] \in SandboxUsers
          /\ container[WorkerUser[a]] \in {"none", "stopped", "running"}
      BY OwnFinite DEF Own!OwnershipAssumption, OwnInv, WorkInv, Own!TypeOK
    <3>3. CASE Own!Acquire(a) \/ Own!FindsIdle(a) \/ Own!Register(a) \/ Own!TimesOut(a) \/ Own!Retries(a)
               \/ Own!RenewalFails(a) \/ Own!LeaseExpires(a)
      BY <3>3 DEF Own!Acquire, Own!FindsIdle, Own!Register, Own!TimesOut, Own!Retries, Own!RenewalFails, Own!LeaseExpires
    <3>4. CASE Own!FirstLook(a) \/ Own!LastLook(a)
      <4>1. \E s \in {"stopped", "running"} :
                /\ Own!Starts(a, s) /\ (s = "running" => container[WorkerUser[a]] = "running" \/ Own!Room)
        BY <3>2, <3>4 DEF Own!FirstLook, Own!LastLook, Own!CanStart, Own!Created
      <4> QED BY <3>2, <4>1 DEF Own!Starts
    <3>5. CASE Own!FindsDeleted(a) \/ Own!Seek(a) \/ Own!NoCandidate(a)
      BY <3>5 DEF Own!FindsDeleted, Own!Seek, Own!NoCandidate
    <3>6. CASE Own!SecondLook(a)
      BY <3>2, <3>6 DEF Own!SecondLook, Own!Gives, Own!Stops
    <3>7. CASE Own!OperationEnds(a) \/ Own!Fills(a) \/ Own!Gated(a) \/ Own!Deletes(a) \/ Own!MarksUser(a)
      BY <3>7 DEF Own!OperationEnds, Own!Fills, Own!Gated, Own!Deletes, Own!MarksUser
    <3>8. CASE Own!Prepares(a)
      BY <3>2, <3>8 DEF Own!Prepares, Own!Created
    <3>9. CASE Own!Erases(a) \/ Own!EraseFails(a) \/ Own!Cleans(a)
      BY <3>2, <3>9 DEF Own!Erases, Own!EraseFails, Own!Cleans, Own!Stops
    <3> QED BY <3>1, <3>3, <3>4, <3>5, <3>6, <3>7, <3>8, <3>9 DEF Own!GetRunning, Own!Work
  <2> QED BY <2>1, <2>2
<1>2. CASE container' = container
  BY <1>2, OwnCardinality DEF Own!CapacityIsKept, Own!RunningContainers
<1>3. CASE \E u \in SandboxUsers, s \in {"none", "stopped", "running"} :
               /\ container' = [container EXCEPT ![u] = s]
               /\ s = "running" => container[u] = "running" \/ Own!Room
  BY <1>3, StartsInRoom DEF OwnInv, WorkInv
<1> QED BY <1>1, <1>2, <1>3

-----------------------------------------------------------------------------
(* Who waits for whom.                                                     *)

(* In which phases an actor that looks for victim v holds a lock.          *)
HeldBy(a, l, p, v) ==
    \/ l = Own!Capacity /\ p \in {"first look", "second look", "last look", "marking", "erasing",
                                  "cleaning"}
    \/ l = Own!Capacity /\ p = "wants storage" /\ WorkerKind[a] = "removeUser"
    \/ l = Own!Mutation(WorkerUser[a])
          /\ p \in {"preparing", "filling", "deleting", "marking", "erasing"}
    \/ l = Own!ChatGate(WorkerChat[a]) /\ WorkerKind[a] \in OfChat /\ p \notin Outside
    \/ l = Own!UserGate(WorkerUser[a]) /\ WorkerKind[a] \in OfUser
          /\ p \in {"user idle", "wants 2", "wants storage", "marking", "erasing", "cleaning"}
    \/ l = Own!UserGate(v) /\ v # WorkerUser[a] /\ p \in {"victim idle", "wants 2", "second look"}
LocksInUse ==
    \A l \in Own!Locks, a \in Workers : lock[l] = a => HeldBy(a, l, ownerPc[a], victim[a])

(* Who has chosen another user's container.                                *)
Choosing(a, p, v) ==
    /\ v # WorkerUser[a] =>
          WorkerKind[a] \notin OfUser
          /\ p \in {"seeking", "victim idle", "wants 2", "second look", "failed"}
    /\ p = "victim idle" => v # WorkerUser[a]
VictimsInUse == \A a \in Workers : Choosing(a, ownerPc[a], victim[a])

LeasesInUse == \A o \in leases : ownerPc[o] \notin Outside

(* Registrations can be numbered such that whoever waits for the           *)
(* operations of another user has a smaller number than each of them.      *)
Chases(a, p, v) == p \in {"seeking", "victim idle"} /\ v # WorkerUser[a]
LeasesAreOrdered ==
    \E n \in Nat : \E f \in [Workers -> 0 .. n] :
        \A a \in Workers, o \in leases :
            Chases(a, ownerPc[a], victim[a]) /\ WorkerUser[o] = victim[a] => f[a] < f[o]

WaitInv == LocksInUse /\ VictimsInUse /\ LeasesInUse /\ LeasesAreOrdered

(* What a step owes to them.                                               *)
LEMMA WaitStep ==
    ASSUME Own!OwnershipAssumption, OwnInv, OwnInv', WaitInv, NEW a \in Workers, NEW p,
           \A b \in Workers : ownerPc'[b] = IF b = a THEN p ELSE ownerPc[b],
           \A l \in Own!Locks : lock'[l] = a => HeldBy(a, l, p, victim'[a]),
           \A l \in Own!Locks, b \in Workers \ {a} : lock'[l] = b => lock[l] = b,
           \A b \in Workers \ {a} : victim'[b] = victim[b],
           Choosing(a, p, victim'[a]),
           leases' \subseteq leases \/ (leases' = leases \cup {a} /\ ~Chases(a, p, victim'[a])),
           a \in leases' => p \notin Outside,
           Chases(a, p, victim'[a]) =>
               \/ Chases(a, ownerPc[a], victim[a]) /\ victim'[a] = victim[a]
               \/ \A o \in leases' : WorkerUser[o] # victim'[a]
    PROVE  WaitInv'
<1>1. LocksInUse'
  <2> SUFFICES ASSUME NEW l \in Own!Locks, NEW b \in Workers, lock'[l] = b
               PROVE  HeldBy(b, l, ownerPc'[b], victim'[b])
    BY DEF LocksInUse, HeldBy
  <2>1. CASE b = a
    BY <2>1
  <2>2. CASE b # a
    <3>1. lock[l] = b /\ ownerPc'[b] = ownerPc[b] /\ victim'[b] = victim[b]
      BY <2>2
    <3>2. HeldBy(b, l, ownerPc[b], victim[b])
      BY <3>1 DEF WaitInv, LocksInUse
    <3> QED BY <3>1, <3>2
  <2> QED BY <2>1, <2>2
<1>2. VictimsInUse'
  <2> SUFFICES ASSUME NEW b \in Workers PROVE Choosing(b, ownerPc'[b], victim'[b])
    BY DEF VictimsInUse, Choosing
  <2>1. CASE b = a
    BY <2>1
  <2>2. CASE b # a
    <3>1. Choosing(b, ownerPc[b], victim[b])
      BY DEF WaitInv, VictimsInUse
    <3> QED BY <2>2, <3>1
  <2> QED BY <2>1, <2>2
<1>3. LeasesInUse'
  <2>1. leases \subseteq Workers /\ leases' \subseteq Workers
    BY DEF OwnInv, WorkInv, Own!TypeOK
  <2> QED BY <2>1 DEF WaitInv, LeasesInUse
<1>4. LeasesAreOrdered'
  <2>0. PICK n \in Nat : \E f \in [Workers -> 0 .. n] :
            \A b \in Workers, o \in leases :
                Chases(b, ownerPc[b], victim[b]) /\ WorkerUser[o] = victim[b] => f[b] < f[o]
    BY DEF WaitInv, LeasesAreOrdered
  <2>1. PICK f \in [Workers -> 0 .. n] :
            \A b \in Workers, o \in leases :
                Chases(b, ownerPc[b], victim[b]) /\ WorkerUser[o] = victim[b] => f[b] < f[o]
    BY <2>0
  <2>2. leases \subseteq Workers /\ leases' \subseteq Workers
    BY DEF OwnInv, WorkInv, Own!TypeOK
  <2>3. CASE leases' \subseteq leases
    <3>1. ASSUME NEW b \in Workers, NEW o \in leases', Chases(b, ownerPc'[b], victim'[b]),
                 WorkerUser[o] = victim'[b]
          PROVE  f[b] < f[o]
      <4>1. Chases(b, ownerPc[b], victim[b]) /\ victim'[b] = victim[b]
        BY <3>1
      <4> QED BY <2>1, <2>3, <3>1, <4>1
    <3> QED BY <3>1 DEF LeasesAreOrdered, Chases
  <2>4. CASE leases' = leases \cup {a} /\ ~Chases(a, p, victim'[a])
    <3> DEFINE g == [f EXCEPT ![a] = n + 1]
    <3>1. g \in [Workers -> 0 .. n + 1] /\ n + 1 \in Nat
      BY <2>1
    <3>2. \A b \in Workers : g[b] = (IF b = a THEN n + 1 ELSE f[b]) /\ f[b] \in 0 .. n
      BY <2>1
    <3> HIDE DEF g
    <3>3. ASSUME NEW b \in Workers, NEW o \in leases', Chases(b, ownerPc'[b], victim'[b]),
                 WorkerUser[o] = victim'[b]
          PROVE  g[b] < g[o]
      <4>1. b # a
        BY <2>4, <3>3
      <4>2. ownerPc'[b] = ownerPc[b] /\ victim'[b] = victim[b]
        BY <4>1
      <4>3. CASE o = a
        BY <2>1, <3>2, <4>1, <4>3
      <4>4. CASE o # a
        <5>1. f[b] < f[o] /\ o \in Workers
          BY <2>1, <2>2, <2>4, <3>3, <4>2, <4>4
        <5> QED BY <3>2, <4>1, <4>4, <5>1
      <4> QED BY <4>3, <4>4
    <3>4. \A b \in Workers, o \in leases' :
              Chases(b, ownerPc'[b], victim'[b]) /\ WorkerUser[o] = victim'[b] => g[b] < g[o]
      BY <3>3
    <3> QED BY <3>1, <3>4 DEF LeasesAreOrdered, Chases
  <2> QED BY <2>3, <2>4
<1> QED BY <1>1, <1>2, <1>3, <1>4 DEF WaitInv

(* A step of an actor that takes no lock and no victim, is registered in   *)
(* no new operation, and gives back the locks in S.                        *)
LEMMA GivesBack ==
    ASSUME Own!OwnershipAssumption, OwnInv, OwnInv', WaitInv, NEW a \in Workers, NEW p, NEW S,
           ownerPc' = [ownerPc EXCEPT ![a] = p], lock' = Own!Freed(a, S),
           \A l \in Own!Locks \ S : HeldBy(a, l, ownerPc[a], victim[a]) => HeldBy(a, l, p, victim'[a]),
           victim' = victim \/ victim' = [victim EXCEPT ![a] = WorkerUser[a]],
           Choosing(a, p, victim'[a]), leases' \subseteq leases,
           a \in leases' => p \notin Outside,
           Chases(a, p, victim'[a]) => Chases(a, ownerPc[a], victim[a]) /\ victim'[a] = victim[a]
    PROVE  WaitInv'
<1>1. \A b \in Workers : ownerPc'[b] = IF b = a THEN p ELSE ownerPc[b]
  BY DEF OwnInv, WorkInv
<1>2. \A b \in Workers \ {a} : victim'[b] = victim[b]
  BY DEF OwnInv, WorkInv, Own!TypeOK
<1>3. \A l \in Own!Locks : lock'[l] = IF l \in S /\ lock[l] = a THEN Nobody ELSE lock[l]
  BY DEF Own!Freed
<1>4. \A b \in Workers : b # Nobody
  BY OwnFinite DEF Own!OwnershipAssumption
<1>5. \A l \in Own!Locks : lock'[l] = a => HeldBy(a, l, p, victim'[a])
  <2> SUFFICES ASSUME NEW l \in Own!Locks, lock'[l] = a PROVE HeldBy(a, l, p, victim'[a])
    OBVIOUS
  <2>1. lock[l] = a /\ l \notin S
    BY <1>3, <1>4
  <2>2. HeldBy(a, l, ownerPc[a], victim[a])
    BY <2>1 DEF WaitInv, LocksInUse
  <2> QED BY <2>1, <2>2
<1>6. \A l \in Own!Locks, b \in Workers \ {a} : lock'[l] = b => lock[l] = b
  BY <1>3, <1>4
<1> QED BY <1>1, <1>2, <1>5, <1>6, WaitStep

LEMMA NothingFreed == ASSUME OwnInv, lock' = lock, NEW a PROVE lock' = Own!Freed(a, {})
BY DEF Own!Freed, OwnInv, WorkInv, Own!TypeOK

(* Whoever leaves gives everything back.                                   *)
LEMMA LeavingWaits ==
    ASSUME Own!OwnershipAssumption, OwnInv, OwnInv', WaitInv, NEW a \in Workers, NEW p \in Outside,
           ownerPc' = [ownerPc EXCEPT ![a] = p], lock' = Own!FreedAll(a), leases' \subseteq leases,
           a \notin leases', victim' = victim, p # "failed" => victim[a] = WorkerUser[a]
    PROVE  WaitInv'
<1>1. lock' = Own!Freed(a, Own!Locks)
  BY DEF Own!FreedAll
<1>2. Choosing(a, p, victim'[a]) /\ ~Chases(a, p, victim'[a])
  <2>1. WorkerKind[a] \in OfUser => victim[a] = WorkerUser[a]
    BY DEF WaitInv, VictimsInUse, Choosing
  <2> QED BY <2>1 DEF Choosing, Chases, Outside
<1> QED BY <1>1, <1>2, GivesBack

LEMMA AcquireWaits ==
    ASSUME Own!OwnershipAssumption, OwnInv, OwnInv', WaitInv, NEW a \in Workers, Own!Acquire(a)
    PROVE  WaitInv'
<1> DEFINE p == Own!AfterLock(a)
<1>1. PICK l \in Own!Wants(a) : lock[l] = Nobody /\ lock' = [lock EXCEPT ![l] = a]
  BY DEF Own!Acquire
<1>2. ownerPc' = [ownerPc EXCEPT ![a] = p] /\ leases' = leases /\ victim' = victim
  BY DEF Own!Acquire
<1>3. ownerPc[a] \in PhasesOf(WorkerKind[a]) /\ WorkerKind[a] \in Own!Kinds
  BY OwnFinite DEF OwnInv, WorkInv, PhasesByKind, Own!OwnershipAssumption
<1>4. ownerPc[a] \in {"new", "seeking", "wants 1", "wants 2", "wants 3", "wants storage"}
      /\ (ownerPc[a] = "new" => WorkerKind[a] \in OfUser \cup OfChat)
      /\ (ownerPc[a] = "seeking" => victim[a] # WorkerUser[a])
  BY <1>1 DEF Own!Wants, OfUser, OfChat
<1>5. Choosing(a, ownerPc[a], victim[a]) /\ \A x \in Own!Locks : lock[x] = a => HeldBy(a, x, ownerPc[a], victim[a])
  BY DEF WaitInv, VictimsInUse, LocksInUse
<1>6. Choosing(a, p, victim[a])
  BY <1>3, <1>4, <1>5 DEF Choosing, Own!AfterLock, PhasesOf, Own!Kinds, Outside, Starting, OfUser, OfChat
<1>7. HeldBy(a, l, p, victim[a])
  <2>1. CASE ownerPc[a] = "new" /\ WorkerKind[a] \in OfChat
    BY <1>1, <2>1 DEF Own!Wants, Own!AfterLock, HeldBy, OfChat, OfUser, Outside
  <2>2. CASE ownerPc[a] = "new" /\ WorkerKind[a] \in OfUser
    BY <1>1, <2>2 DEF Own!Wants, Own!AfterLock, HeldBy, OfChat, OfUser
  <2>3. CASE ownerPc[a] = "seeking"
    BY <1>1, <2>3, <1>4 DEF Own!Wants, Own!AfterLock, HeldBy
  <2>4. CASE ownerPc[a] \in {"wants 1", "wants 2", "wants 3"}
    BY <1>1, <2>4, <1>3 DEF Own!Wants, Own!AfterLock, HeldBy
  <2>5. CASE ownerPc[a] = "wants storage"
    BY <1>1, <2>5, <1>3 DEF Own!Wants, Own!AfterLock, HeldBy
  <2> QED BY <1>4, <2>1, <2>2, <2>3, <2>4, <2>5
<1>8. ASSUME NEW x \in Own!Locks, HeldBy(a, x, ownerPc[a], victim[a]) PROVE HeldBy(a, x, p, victim[a])
  BY <1>3, <1>4, <1>5, <1>8
     DEF HeldBy, Choosing, Own!AfterLock, PhasesOf, Own!Kinds, Outside, Starting, OfUser, OfChat
<1>9. \A x \in Own!Locks : lock'[x] = IF x = l THEN a ELSE lock[x]
  BY <1>1 DEF OwnInv, WorkInv, Own!TypeOK
<1>10. /\ \A x \in Own!Locks : lock'[x] = a => HeldBy(a, x, p, victim'[a])
       /\ \A x \in Own!Locks, b \in Workers \ {a} : lock'[x] = b => lock[x] = b
  BY <1>2, <1>5, <1>7, <1>8, <1>9
<1>11. a \in leases' => p \notin Outside
  BY <1>4 DEF Own!AfterLock, Outside
<1>12. Chases(a, p, victim'[a]) => Chases(a, ownerPc[a], victim[a]) /\ victim'[a] = victim[a]
  BY <1>2, <1>4 DEF Own!AfterLock, Chases
<1>13. \A b \in Workers : ownerPc'[b] = IF b = a THEN p ELSE ownerPc[b]
  BY <1>2 DEF OwnInv, WorkInv
<1> HIDE DEF p
<1> QED BY <1>2, <1>6, <1>10, <1>11, <1>12, <1>13, WaitStep

LEMMA FindsIdleWaits ==
    ASSUME Own!OwnershipAssumption, OwnInv, OwnInv', WaitInv, NEW a \in Workers, Own!FindsIdle(a)
    PROVE  WaitInv'
<1> DEFINE p == Own!AfterIdle(a)
<1>1. ownerPc' = [ownerPc EXCEPT ![a] = p] /\ lock' = lock /\ leases' = leases /\ victim' = victim
      /\ ownerPc[a] \in {"chat idle", "user idle", "victim idle"}
  BY DEF Own!FindsIdle
<1>2. ownerPc[a] \in PhasesOf(WorkerKind[a]) /\ WorkerKind[a] \in Own!Kinds
  BY OwnFinite DEF OwnInv, WorkInv, PhasesByKind, Own!OwnershipAssumption
<1>3. Choosing(a, ownerPc[a], victim[a])
  BY DEF WaitInv, VictimsInUse
<1>4. Choosing(a, p, victim'[a]) /\ p \notin Outside /\ ~Chases(a, p, victim'[a])
  BY <1>1, <1>2, <1>3 DEF Choosing, Chases, Own!AfterIdle, PhasesOf, Own!Kinds, Outside, Starting
<1>5. \A l \in Own!Locks \ {} : HeldBy(a, l, ownerPc[a], victim[a]) => HeldBy(a, l, p, victim'[a])
  BY <1>1, <1>2, <1>3 DEF HeldBy, Choosing, Own!AfterIdle, PhasesOf, Own!Kinds, Outside, Starting, OfChat, OfUser
<1>6. lock' = Own!Freed(a, {})
  BY <1>1, NothingFreed
<1> HIDE DEF p
<1> QED BY <1>1, <1>4, <1>5, <1>6, GivesBack

LEMMA RegisterWaits ==
    ASSUME Own!OwnershipAssumption, OwnInv, OwnInv', WaitInv, NEW a \in Workers, Own!Register(a)
    PROVE  WaitInv'
<1> DEFINE p == IF Own!Available(a) THEN "wants 1" ELSE "failed"
<1>1. /\ ownerPc' = [ownerPc EXCEPT ![a] = p] /\ lock' = lock /\ victim' = victim
      /\ leases' = (IF Own!Available(a) THEN leases \cup {a} ELSE leases)
      /\ ownerPc[a] = "new" /\ WorkerKind[a] = "operate"
  BY DEF Own!Register
<1>2. Choosing(a, ownerPc[a], victim[a]) /\ \A x \in Own!Locks : lock[x] = a => HeldBy(a, x, ownerPc[a], victim[a])
  BY DEF WaitInv, VictimsInUse, LocksInUse
<1>3. \A x \in Own!Locks : lock'[x] = a => HeldBy(a, x, p, victim'[a])
  BY <1>1, <1>2 DEF HeldBy, Outside
<1>4. Choosing(a, p, victim'[a]) /\ ~Chases(a, p, victim'[a])
  BY <1>1, <1>2 DEF Choosing, Chases
<1>5. leases' \subseteq leases \/ leases' = leases \cup {a}
  BY <1>1
<1>6. a \in leases' => p \notin Outside
  <2>1. a \notin leases
    BY <1>1 DEF WaitInv, LeasesInUse, Outside
  <2> QED BY <1>1, <2>1 DEF Outside
<1>7. \A b \in Workers : ownerPc'[b] = IF b = a THEN p ELSE ownerPc[b]
  BY <1>1 DEF OwnInv, WorkInv
<1>8. \A x \in Own!Locks, b \in Workers \ {a} : lock'[x] = b => lock[x] = b
  BY <1>1
<1> HIDE DEF p
<1> QED BY <1>1, <1>3, <1>4, <1>5, <1>6, <1>7, <1>8, WaitStep

LEMMA RetriesWaits ==
    ASSUME Own!OwnershipAssumption, OwnInv, OwnInv', WaitInv, NEW a \in Workers, Own!Retries(a)
    PROVE  WaitInv'
<1>1. /\ ownerPc' = [ownerPc EXCEPT ![a] = "new"] /\ lock' = lock /\ leases' = leases
      /\ victim' = [victim EXCEPT ![a] = WorkerUser[a]] /\ ownerPc[a] = "failed"
  BY DEF Own!Retries
<1>2. victim'[a] = WorkerUser[a]
  BY <1>1 DEF OwnInv, WorkInv, Own!TypeOK
<1>3. Choosing(a, "new", victim'[a]) /\ ~Chases(a, "new", victim'[a])
  BY <1>2 DEF Choosing, Chases
<1>4. a \notin leases
  BY <1>1 DEF WaitInv, LeasesInUse, Outside
<1>5. \A l \in Own!Locks \ {} : HeldBy(a, l, ownerPc[a], victim[a]) => HeldBy(a, l, "new", victim'[a])
  BY <1>1 DEF HeldBy, Outside
<1>6. lock' = Own!Freed(a, {})
  BY <1>1, NothingFreed
<1> QED BY <1>1, <1>3, <1>4, <1>5, <1>6, GivesBack

LEMMA LeaseWaits ==
    ASSUME Own!OwnershipAssumption, OwnInv, OwnInv', WaitInv, NEW a \in Workers,
           Own!RenewalFails(a) \/ Own!LeaseExpires(a)
    PROVE  WaitInv'
<1>1. ownerPc' = ownerPc /\ lock' = lock /\ victim' = victim /\ leases' \subseteq leases
  BY DEF Own!RenewalFails, Own!LeaseExpires
<1>2. ownerPc' = [ownerPc EXCEPT ![a] = ownerPc[a]]
  BY <1>1 DEF OwnInv, WorkInv
<1>3. Choosing(a, ownerPc[a], victim'[a])
  BY <1>1 DEF WaitInv, VictimsInUse
<1>4. a \in leases' => ownerPc[a] \notin Outside
  BY <1>1 DEF WaitInv, LeasesInUse
<1>5. lock' = Own!Freed(a, {})
  BY <1>1, NothingFreed
<1> QED BY <1>1, <1>2, <1>3, <1>4, <1>5, GivesBack

LEMMA FailsWaits ==
    ASSUME Own!OwnershipAssumption, OwnInv, OwnInv', WaitInv, NEW a \in Workers, Own!Fails(a),
           victim' = victim
    PROVE  WaitInv'
<1>1. /\ lock' = Own!FreedAll(a) /\ leases' = leases \ {a} /\ ownerPc' = [ownerPc EXCEPT ![a] = "failed"]
  BY DEF Own!Fails
<1>2. "failed" \in Outside /\ a \notin leases'
  BY <1>1 DEF Outside
<1> QED BY <1>1, <1>2, LeavingWaits

LEMMA EndsWaits ==
    ASSUME Own!OwnershipAssumption, OwnInv, OwnInv', WaitInv, NEW a \in Workers, NEW p \in Outside,
           Own!Ends(a, p), WorkerKind[a] # "operate", ownerPc[a] \notin {"seeking", "victim idle", "wants 2",
                                                          "second look", "failed"}
    PROVE  WaitInv'
<1>1. lock' = Own!FreedAll(a) /\ leases' = leases /\ ownerPc' = [ownerPc EXCEPT ![a] = p] /\ victim' = victim
  BY DEF Own!Ends
<1>2. a \notin leases'
  BY <1>1 DEF OwnInv, WorkInv, Own!TypeOK
<1>3. victim[a] = WorkerUser[a]
  BY DEF WaitInv, VictimsInUse, Choosing
<1> QED BY <1>1, <1>2, <1>3, LeavingWaits

(* The looks at the containers, which give the capacity lock back.         *)
LEMMA LooksWait ==
    ASSUME Own!OwnershipAssumption, OwnInv, OwnInv', WaitInv, NEW a \in Workers,
           Own!FirstLook(a) \/ Own!LastLook(a) \/ Own!SecondLook(a)
    PROVE  WaitInv'
<1>1. ownerPc[a] \in PhasesOf(WorkerKind[a]) /\ WorkerKind[a] \in Own!Kinds
  BY OwnFinite DEF OwnInv, WorkInv, PhasesByKind, Own!OwnershipAssumption
<1>2. Choosing(a, ownerPc[a], victim[a])
  BY DEF WaitInv, VictimsInUse
<1>3. CASE Own!LastLook(a) /\ ~Own!CanStart(a)
  <2>1. Own!Fails(a) /\ victim' = victim
    BY <1>3 DEF Own!LastLook
  <2> QED BY <2>1, FailsWaits
<1>4. CASE Own!FirstLook(a) \/ (Own!LastLook(a) /\ Own!CanStart(a))
  <2>1. PICK p \in {"running", "wants storage", "seeking"} :
            /\ ownerPc' = [ownerPc EXCEPT ![a] = p] /\ lock' = Own!Freed(a, {Own!Capacity})
            /\ leases' = leases /\ victim' = victim /\ ownerPc[a] \in {"first look", "last look"}
    BY <1>4 DEF Own!FirstLook, Own!LastLook, Own!Running
  <2>2. victim[a] = WorkerUser[a]
    BY <1>2, <2>1 DEF Choosing
  <2>3. Choosing(a, p, victim'[a]) /\ ~Chases(a, p, victim'[a]) /\ p \notin Outside
    BY <2>1, <2>2 DEF Choosing, Chases, Outside
  <2>4. \A l \in Own!Locks \ {Own!Capacity} : HeldBy(a, l, ownerPc[a], victim[a]) => HeldBy(a, l, p, victim'[a])
    BY <2>1, <2>3 DEF HeldBy
  <2> QED BY <2>1, <2>3, <2>4, GivesBack
<1>5. CASE Own!SecondLook(a)
  <2> DEFINE S == {Own!Capacity, Own!UserGate(victim[a])}
  <2>1. PICK p \in {"seeking", "wants 3"} :
            /\ ownerPc' = [ownerPc EXCEPT ![a] = p] /\ lock' = Own!Freed(a, S) /\ ownerPc[a] = "second look"
            /\ leases' = leases /\ victim' = [victim EXCEPT ![a] = WorkerUser[a]]
    BY <1>5 DEF Own!SecondLook, Own!Gives
  <2>2. victim'[a] = WorkerUser[a]
    BY <2>1 DEF OwnInv, WorkInv, Own!TypeOK
  <2>3. Choosing(a, p, victim'[a]) /\ ~Chases(a, p, victim'[a]) /\ p \notin Outside
    BY <2>1, <2>2 DEF Choosing, Chases, Outside
  <2>4. \A l \in Own!Locks \ S : HeldBy(a, l, ownerPc[a], victim[a]) => HeldBy(a, l, p, victim'[a])
    BY <2>1, <2>3 DEF HeldBy
  <2> HIDE DEF S
  <2> QED BY <2>1, <2>3, <2>4, GivesBack
<1> QED BY <1>3, <1>4, <1>5

(* An operation chooses a user without operations.                         *)
LEMMA SeekWaits ==
    ASSUME Own!OwnershipAssumption, OwnInv, OwnInv', WaitInv, NEW a \in Workers, Own!Seek(a)
    PROVE  WaitInv'
<1>1. /\ ownerPc' = ownerPc /\ lock' = lock /\ leases' = leases /\ ownerPc[a] = "seeking"
      /\ victim[a] = WorkerUser[a]
  BY DEF Own!Seek
<1>2. PICK u \in candidates[a] : victim' = [victim EXCEPT ![a] = IF Own!Active(u) THEN @ ELSE u]
  BY DEF Own!Seek
<1>3. \A b \in Workers : victim'[b] = IF b = a /\ ~Own!Active(u) THEN u ELSE victim[b]
  BY <1>2 DEF OwnInv, WorkInv, Own!TypeOK
<1>4. WorkerKind[a] \notin OfUser
  <2>1. ownerPc[a] \in PhasesOf(WorkerKind[a]) /\ WorkerKind[a] \in Own!Kinds
    BY OwnFinite DEF OwnInv, WorkInv, PhasesByKind, Own!OwnershipAssumption
  <2> QED BY <1>1, <2>1 DEF PhasesOf, Own!Kinds, Outside, OfUser
<1>5. Choosing(a, "seeking", victim'[a])
  BY <1>4 DEF Choosing
<1>6. Chases(a, "seeking", victim'[a]) => \A o \in leases' : WorkerUser[o] # victim'[a]
  BY <1>1, <1>3 DEF Chases, Own!Active
<1>7. \A l \in Own!Locks : lock'[l] = a => HeldBy(a, l, "seeking", victim'[a])
  <2>1. \A l \in Own!Locks : lock[l] = a => HeldBy(a, l, "seeking", victim[a])
    BY <1>1 DEF WaitInv, LocksInUse
  <2> QED BY <1>1, <2>1 DEF HeldBy
<1>8. \A b \in Workers : ownerPc'[b] = IF b = a THEN "seeking" ELSE ownerPc[b]
  BY <1>1
<1>9. \A l \in Own!Locks, b \in Workers \ {a} : lock'[l] = b => lock[l] = b
  BY <1>1
<1>10. "seeking" \notin Outside
  BY DEF Outside
<1> QED BY <1>1, <1>3, <1>5, <1>6, <1>7, <1>8, <1>9, <1>10, WaitStep

(* From one phase of the work to the next, everything kept.                *)
LEMMA WorkGoesOn ==
    ASSUME Own!OwnershipAssumption, OwnInv, OwnInv', WaitInv, NEW a \in Workers,
           NEW p \in {"filling", "wants 1", "erasing"}, ownerPc' = [ownerPc EXCEPT ![a] = p],
           /\ p = "filling" => ownerPc[a] = "preparing"
           /\ p = "wants 1" => ownerPc[a] = "gated"
           /\ p = "erasing" => ownerPc[a] = "marking",
           lock' = lock, leases' = leases, victim' = victim
    PROVE  WaitInv'
<1>1. victim[a] = WorkerUser[a]
  BY DEF WaitInv, VictimsInUse, Choosing
<1>2. Choosing(a, p, victim'[a]) /\ ~Chases(a, p, victim'[a]) /\ p \notin Outside
  BY <1>1 DEF Choosing, Chases, Outside
<1>3. \A l \in Own!Locks \ {} : HeldBy(a, l, ownerPc[a], victim[a]) => HeldBy(a, l, p, victim'[a])
  BY <1>2 DEF HeldBy
<1>4. lock' = Own!Freed(a, {})
  BY NothingFreed
<1> QED BY <1>2, <1>3, <1>4, GivesBack

LEMMA WorkWaits ==
    ASSUME Own!OwnershipAssumption, OwnInv, OwnInv', WaitInv, NEW a \in Workers, Own!Work(a)
    PROVE  WaitInv'
<1>1. ownerPc[a] \in PhasesOf(WorkerKind[a]) /\ WorkerKind[a] \in Own!Kinds
  BY OwnFinite DEF OwnInv, WorkInv, PhasesByKind, Own!OwnershipAssumption
<1>2. Choosing(a, ownerPc[a], victim[a])
  BY DEF WaitInv, VictimsInUse
<1>3. CASE Own!OperationEnds(a)
  <2>1. PICK p \in {"failed", "done"} :
            /\ ownerPc' = [ownerPc EXCEPT ![a] = p] /\ lock' = lock /\ leases' = leases \ {a}
            /\ victim' = victim /\ ownerPc[a] = "running" /\ WorkerKind[a] = "operate"
    BY <1>3 DEF Own!OperationEnds
  <2>2. victim[a] = WorkerUser[a]
    BY <1>2, <2>1 DEF Choosing
  <2>3. Choosing(a, p, victim'[a]) /\ ~Chases(a, p, victim'[a]) /\ a \notin leases'
    BY <2>1, <2>2 DEF Choosing, Chases
  <2>4. \A l \in Own!Locks \ {} : HeldBy(a, l, ownerPc[a], victim[a]) => HeldBy(a, l, p, victim'[a])
    BY <2>1 DEF HeldBy, OfChat, OfUser
  <2>5. lock' = Own!Freed(a, {})
    BY <2>1, NothingFreed
  <2> QED BY <2>1, <2>3, <2>4, <2>5, GivesBack
<1>4. ASSUME Own!Fails(a), victim' = victim PROVE WaitInv'
  BY <1>4, FailsWaits
<1>5. ASSUME NEW p \in Outside, Own!Ends(a, p),
             ownerPc[a] \in {"filling", "gated", "deleting", "erasing", "cleaning"}
      PROVE  WaitInv'
  <2>1. WorkerKind[a] # "operate"
    BY <1>1, <1>5 DEF PhasesOf, Outside, Starting
  <2> QED BY <1>5, <2>1, EndsWaits
<1>6. {"done", "new", "failed"} \subseteq Outside
  BY DEF Outside
<1>7. CASE Own!Prepares(a)
  <2>1. CASE Own!Fails(a)
    BY <1>4, <1>7, <2>1 DEF Own!Prepares
  <2>2. CASE ~Own!Fails(a)
    <3>1. /\ ownerPc[a] = "preparing" /\ ownerPc' = [ownerPc EXCEPT ![a] = "filling"] /\ lock' = lock
          /\ leases' = leases /\ victim' = victim
      BY <1>7, <2>2 DEF Own!Prepares
    <3> QED BY <3>1, WorkGoesOn
  <2> QED BY <2>1, <2>2
<1>8. CASE Own!Fills(a)
  BY <1>4, <1>5, <1>6, <1>8 DEF Own!Fills
<1>9. CASE Own!Gated(a)
  <2>1. CASE ownerPc' = [ownerPc EXCEPT ![a] = "wants 1"] /\ lock' = lock
             /\ leases' = leases /\ victim' = victim
    BY <1>9, <2>1, WorkGoesOn DEF Own!Gated
  <2> QED BY <1>4, <1>5, <1>6, <1>9, <2>1 DEF Own!Gated
<1>10. CASE Own!Deletes(a)
  BY <1>4, <1>5, <1>6, <1>10 DEF Own!Deletes
<1>11. CASE Own!MarksUser(a)
  <2>1. /\ ownerPc[a] = "marking" /\ ownerPc' = [ownerPc EXCEPT ![a] = "erasing"] /\ lock' = lock
        /\ leases' = leases /\ victim' = victim
    BY <1>11 DEF Own!MarksUser
  <2> QED BY <2>1, WorkGoesOn
<1>12. CASE Own!Erases(a) \/ Own!EraseFails(a) \/ Own!Cleans(a)
  BY <1>5, <1>6, <1>12 DEF Own!Erases, Own!EraseFails, Own!Cleans
<1> QED BY <1>3, <1>7, <1>8, <1>9, <1>10, <1>11, <1>12 DEF Own!Work

(* Locks of different kinds, and gates of different users.                 *)
LEMMA LocksApart ==
    /\ \A u, v : Own!UserGate(u) = Own!UserGate(v) => u = v
    /\ \A u, v : Own!Mutation(u) # Own!UserGate(v) /\ Own!Mutation(u) # Own!Capacity
BY DEF Own!UserGate, Own!Mutation, Own!Capacity

(* Nobody waits for those who hold a storage lock and wait for nothing, so *)
(* a circle consists of gates and registered operations; from each         *)
(* operation in it another one with a greater number is reached.           *)
LEMMA NobodyWaitsInACircle ==
    ASSUME Own!OwnershipAssumption, OwnInv, WaitInv PROVE Own!NoCircularWait
<1> SUFFICES ASSUME NEW S \in SUBSET Workers, S # {},
                    \A a \in S : Own!Blockers(a) \cap S # {}
             PROVE  FALSE
  BY DEF Own!NoCircularWait
<1>1. \A a \in Workers : ownerPc[a] \in PhasesOf(WorkerKind[a]) /\ WorkerKind[a] \in Own!Kinds
  BY OwnFinite DEF OwnInv, WorkInv, PhasesByKind, Own!OwnershipAssumption
<1>2. \A l \in Own!Locks, b \in S : lock[l] = b => HeldBy(b, l, ownerPc[b], victim[b])
  BY DEF WaitInv, LocksInUse
<1>3. \A a \in Workers : /\ Choosing(a, ownerPc[a], victim[a]) /\ WorkerUser[a] \in SandboxUsers
                         /\ WorkerChat[a] \in SandboxChats /\ victim[a] \in SandboxUsers
  BY OwnFinite DEF WaitInv, VictimsInUse, Own!OwnershipAssumption, OwnInv, WorkInv, Own!TypeOK
<1>4. \A o \in leases : o \in Workers /\ WorkerKind[o] = "operate" /\ ownerPc[o] \notin Outside
  BY DEF WaitInv, LeasesInUse, OwnInv, WorkInv, Own!TypeOK
\* Nobody in the circle works.
<1>5. \A a \in S : ownerPc[a] \notin {"absent", "failed", "done", "running", "preparing", "filling",
                                 "gated", "deleting", "marking", "erasing", "cleaning",
                                 "second look"}
  BY DEF Own!Blockers, Own!Wants, Own!Ahead
<1>6. \A u \in SandboxUsers : lock[Own!Mutation(u)] \notin S
  <2> SUFFICES ASSUME NEW u \in SandboxUsers, lock[Own!Mutation(u)] \in S PROVE FALSE
    OBVIOUS
  <2>1. HeldBy(lock[Own!Mutation(u)], Own!Mutation(u), ownerPc[lock[Own!Mutation(u)]], victim[lock[Own!Mutation(u)]])
    BY <1>2, LocksDiffer
  <2>2. ownerPc[lock[Own!Mutation(u)]] \in {"preparing", "filling", "deleting", "marking", "erasing"}
    BY <2>1, LocksApart, LocksDiffer DEF HeldBy
  <2> QED BY <2>2, <1>5
<1>7. \A a \in S : ownerPc[a] \notin {"first look", "last look", "wants storage"}
  <2> SUFFICES ASSUME NEW a \in S, ownerPc[a] \in {"first look", "last look", "wants storage"}
               PROVE  FALSE
    OBVIOUS
  <2>1. Own!Blockers(a) \subseteq {lock[Own!Mutation(WorkerUser[a])]}
    <3>1. ownerPc[a] = "wants storage" => Own!Wants(a) = {Own!Mutation(WorkerUser[a])}
      BY DEF Own!Wants
    <3>2. ownerPc[a] # "wants storage" => Own!Wants(a) = {}
      BY DEF Own!Wants
    <3>3. Own!Ahead(a) = {}
      BY DEF Own!Ahead
    <3> QED BY <3>1, <3>2, <3>3 DEF Own!Blockers
  <2>2. lock[Own!Mutation(WorkerUser[a])] \notin S
    BY <1>3, <1>6
  <2> QED BY <2>1, <2>2
<1>8. lock[Own!Capacity] \notin S
  <2> SUFFICES ASSUME lock[Own!Capacity] \in S PROVE FALSE
    OBVIOUS
  <2>1. HeldBy(lock[Own!Capacity], Own!Capacity, ownerPc[lock[Own!Capacity]], victim[lock[Own!Capacity]])
    BY <1>2, LocksDiffer
  <2>2. ownerPc[lock[Own!Capacity]] \in {"first look", "second look", "last look", "wants storage",
                                "marking", "erasing", "cleaning"}
    BY <2>1, LocksApart, LocksDiffer DEF HeldBy
  <2> QED BY <2>2, <1>5, <1>7
<1>9. \A a \in S : ownerPc[a] \in {"new", "chat idle", "user idle", "seeking", "victim idle"}
  <2>1. \A a \in S : ownerPc[a] \notin {"wants 1", "wants 2", "wants 3"}
    BY <1>8 DEF Own!Blockers, Own!Wants, Own!Ahead
  <2>2. \A a \in S : ownerPc[a] \in Phases
    BY DEF OwnInv, WorkInv
  <2> QED BY <1>5, <1>7, <2>1, <2>2 DEF Phases
<1> DEFINE L == {o \in S \cap leases : ownerPc[o] \in {"seeking", "victim idle"}}
<1>10. S \cap leases \subseteq L
  BY <1>1, <1>4, <1>9 DEF PhasesOf, Outside, Starting
\* Who waits for registered operations has one of them in the circle.
<1>11. ASSUME NEW a \in S, ownerPc[a] \in {"chat idle", "user idle", "victim idle"}
       PROVE  \E o \in L : /\ ownerPc[a] = "victim idle" => WorkerUser[o] = victim[a]
                           /\ ownerPc[a] = "user idle" => WorkerUser[o] = WorkerUser[a]
  <2>1. PICK o \in S : o \in Own!Ahead(a)
    BY <1>11 DEF Own!Blockers, Own!Wants
  <2>2. o \in leases /\ (ownerPc[a] = "victim idle" => WorkerUser[o] = victim[a])
        /\ (ownerPc[a] = "user idle" => WorkerUser[o] = WorkerUser[a])
    BY <1>11, <2>1 DEF Own!Ahead
  <2> QED BY <1>10, <2>2
<1>12. ASSUME NEW a \in S, ownerPc[a] = "seeking"
       PROVE  victim[a] # WorkerUser[a] /\ \E o \in L : WorkerUser[o] = victim[a]
  <2>1. victim[a] # WorkerUser[a] /\ lock[Own!UserGate(victim[a])] \in S
    BY <1>12 DEF Own!Blockers, Own!Wants, Own!Ahead
  <2> DEFINE b == lock[Own!UserGate(victim[a])]
  <2>2. HeldBy(b, Own!UserGate(victim[a]), ownerPc[b], victim[b])
    BY <1>2, <1>3, <2>1, LocksDiffer
  <2>3. b \in S
    BY <2>1
  <2> HIDE DEF b
  <2>4. \/ WorkerUser[b] = victim[a] /\ ownerPc[b] = "user idle"
        \/ victim[b] = victim[a] /\ ownerPc[b] = "victim idle"
    BY <1>3, <1>9, <2>2, <2>3, LocksApart, LocksDiffer DEF HeldBy
  <2> QED BY <1>11, <2>1, <2>3, <2>4
<1>13. L # {}
  <2>1. PICK a \in S : TRUE
    OBVIOUS
  <2>2. PICK b \in S : ownerPc[b] # "new"
    <3>1. CASE ownerPc[a] # "new"
      BY <3>1
    <3>2. CASE ownerPc[a] = "new"
      <4>1. PICK b \in S : b \in Own!Blockers(a)
        OBVIOUS
      <4>2. \E l \in Own!Locks : lock[l] = b
        <5>1. \E l \in {Own!UserGate(WorkerUser[a]), Own!ChatGate(WorkerChat[a])} : lock[l] = b
          BY <3>2, <4>1 DEF Own!Blockers, Own!Wants, Own!Ahead
        <5> QED BY <1>3, <5>1, LocksDiffer
      <4>3. PICK l \in Own!Locks : HeldBy(b, l, ownerPc[b], victim[b])
        BY <1>2, <4>2
      <4> QED BY <4>3 DEF HeldBy, Outside
    <3> QED BY <3>1, <3>2
  <2>3. ownerPc[b] \in {"chat idle", "user idle", "seeking", "victim idle"}
    BY <1>9, <2>2
  <2>4. CASE ownerPc[b] = "seeking"
    BY <1>12, <2>4
  <2>5. CASE ownerPc[b] # "seeking"
    BY <1>11, <2>3, <2>5
  <2> QED BY <2>4, <2>5
<1>14. PICK n \in Nat : \E f \in [Workers -> 0 .. n] :
           \A a \in Workers, o \in leases :
               Chases(a, ownerPc[a], victim[a]) /\ WorkerUser[o] = victim[a] => f[a] < f[o]
  BY DEF WaitInv, LeasesAreOrdered
<1>15. PICK f \in [Workers -> 0 .. n] :
           \A a \in Workers, o \in leases :
               Chases(a, ownerPc[a], victim[a]) /\ WorkerUser[o] = victim[a] => f[a] < f[o]
  BY <1>14
<1>16. \A a \in L : \E o \in L : f[a] < f[o]
  <2> SUFFICES ASSUME NEW a \in L PROVE \E o \in L : f[a] < f[o]
    OBVIOUS
  <2>1. a \in S /\ a \in Workers /\ ownerPc[a] \in {"seeking", "victim idle"}
    OBVIOUS
  <2>2. \A o \in L : o \in leases
    OBVIOUS
  <2> HIDE DEF L
  <2>3. PICK o \in L : WorkerUser[o] = victim[a]
    BY <1>11, <1>12, <2>1
  <2>4. Chases(a, ownerPc[a], victim[a])
    BY <1>3, <1>12, <2>1 DEF Chases, Choosing
  <2> QED BY <1>15, <2>1, <2>2, <2>3, <2>4
<1> DEFINE D == {n - f[o] : o \in L}
<1>17. L \subseteq Workers
  OBVIOUS
<1> HIDE DEF L
<1>18. \A o \in L : f[o] \in 0 .. n
  BY <1>15, <1>17
<1>19. D \in SUBSET Nat /\ D # {}
  <2>1. \A o \in L : n - f[o] \in Nat
    BY <1>18
  <2> QED BY <1>13, <2>1
<1>20. PICK x \in D : \A y \in D : x <= y
  <2> HIDE DEF D
  <2> QED BY <1>19, LeastOfSet
<1>21. PICK a \in L : x = n - f[a]
  BY <1>20
<1>22. PICK o \in L : f[a] < f[o]
  BY <1>16
<1>23. n - f[o] \in D
  OBVIOUS
<1>24. x <= n - f[o]
  BY <1>20, <1>23
<1>25. f[a] \in Int /\ f[o] \in Int /\ n \in Int
  BY <1>18
<1> HIDE DEF D
<1> QED BY <1>21, <1>22, <1>24, <1>25

LEMMA WaitInit == ASSUME Own!OwnershipAssumption, Own!Init PROVE WaitInv
<1>1. /\ \A l \in Own!Locks : lock[l] = Nobody /\ \A a \in Workers : a # Nobody
      /\ leases = {} /\ \A a \in Workers : victim[a] = WorkerUser[a]
      /\ \A a \in Workers : ownerPc[a] \in {"new", "absent"}
  BY OwnFinite DEF Own!Init, Own!OwnershipAssumption
<1>2. LocksInUse /\ VictimsInUse /\ LeasesInUse
  BY <1>1 DEF LocksInUse, VictimsInUse, LeasesInUse, Choosing
<1>3. LeasesAreOrdered
  <2>1. [a \in Workers |-> 0] \in [Workers -> 0 .. 0]
    OBVIOUS
  <2>2. \A a \in Workers, o \in leases :
            Chases(a, ownerPc[a], victim[a]) /\ WorkerUser[o] = victim[a]
            => [b \in Workers |-> 0][a] < [b \in Workers |-> 0][o]
    BY <1>1
  <2> QED BY <2>1, <2>2 DEF LeasesAreOrdered
<1> QED BY <1>2, <1>3 DEF WaitInv

LEMMA WaitKeeps ==
    ASSUME Own!OwnershipAssumption, OwnInv, OwnInv', WaitInv, [Own!Next]_(Own!vars) PROVE WaitInv'
<1>1. CASE UNCHANGED Own!vars
  <2>1. ownerPc' = ownerPc /\ lock' = lock /\ leases' = leases /\ victim' = victim
    BY <1>1 DEF Own!vars
  <2>2. LocksInUse'
    <3> SUFFICES ASSUME NEW l \in Own!Locks, NEW a \in Workers, lock'[l] = a
                 PROVE  HeldBy(a, l, ownerPc'[a], victim'[a])
      BY DEF LocksInUse, HeldBy
    <3> QED BY <2>1 DEF WaitInv, LocksInUse
  <2>4. VictimsInUse' /\ LeasesInUse'
    BY <2>1 DEF WaitInv, VictimsInUse, LeasesInUse, Choosing
  <2>3. LeasesAreOrdered'
    BY <2>1 DEF WaitInv, LeasesAreOrdered, Chases
  <2> QED BY <2>2, <2>3, <2>4 DEF WaitInv
<1>2. CASE Own!Next
  <2>1. PICK a \in Workers :
            Own!Acquire(a) \/ Own!FindsIdle(a) \/ Own!Register(a) \/ Own!TimesOut(a) \/ Own!Retries(a)
            \/ Own!RenewalFails(a) \/ Own!LeaseExpires(a) \/ Own!GetRunning(a) \/ Own!Work(a)
    BY <1>2 DEF Own!Next
  <2>2. CASE Own!TimesOut(a) \/ Own!FindsDeleted(a) \/ Own!NoCandidate(a)
    BY <2>2, FailsWaits DEF Own!TimesOut, Own!FindsDeleted, Own!NoCandidate
  <2>3. CASE Own!Acquire(a) \/ Own!FindsIdle(a) \/ Own!Register(a) \/ Own!Retries(a)
             \/ Own!RenewalFails(a) \/ Own!LeaseExpires(a)
    BY <2>3, AcquireWaits, FindsIdleWaits, RegisterWaits, RetriesWaits, LeaseWaits
  <2>4. CASE Own!FirstLook(a) \/ Own!Seek(a) \/ Own!SecondLook(a) \/ Own!LastLook(a)
    BY <2>4, LooksWait, SeekWaits
  <2>5. CASE Own!Work(a)
    BY <2>5, WorkWaits
  <2> QED BY <2>1, <2>2, <2>3, <2>4, <2>5 DEF Own!GetRunning
<1> QED BY <1>1, <1>2

-----------------------------------------------------------------------------
(* Inductiveness and the theorems.                                         *)

LEMMA OwnInvInit == ASSUME Own!OwnershipAssumption, Own!Init PROVE OwnInv /\ Own!CapacityIsKept
<1>1. PICK crew \in WorkerCrews : ownerPc = [a \in Workers |-> IF a \in crew THEN "new" ELSE "absent"]
  BY DEF Own!Init
<1>2. ownerPc \in [Workers -> Phases] /\ \A a \in Workers : ownerPc[a] \in {"new", "absent"}
  BY <1>1 DEF Phases
<1>3. Own!TypeOK
  BY OwnFinite DEF Own!Init, Own!TypeOK, Own!OwnershipAssumption
<1>4. PhasesByKind /\ GatesAreHeld /\ UsersAreIdle /\ LostLeasesAreKnown
  BY <1>2 DEF PhasesByKind, PhasesOf, GatesAreHeld, UsersAreIdle, LostLeasesAreKnown, Outside
<1>5. DisturbedKnow /\ FilesHaveVolumes
  BY OwnFinite DEF Own!Init, DisturbedKnow, FilesHaveVolumes, Own!OwnershipAssumption
<1>6. DeletionsAreMarked
  BY <1>2 DEF DeletionsAreMarked, Marked
<1>7. Own!CapacityIsKept
  <2>1. Own!RunningContainers = {}
    BY DEF Own!Init, Own!RunningContainers
  <2>2. Cardinality(Own!RunningContainers) = 0
    BY <2>1, FS_EmptySet, Zenon
  <2> QED BY <2>2, OwnCardinality, OwnFinite DEF Own!CapacityIsKept, Own!OwnershipAssumption
<1> QED BY <1>2, <1>3, <1>4, <1>5, <1>6, <1>7 DEF OwnInv, WorkInv

LEMMA OwnInvStep == ASSUME Own!OwnershipAssumption, OwnInv, [Own!Next]_(Own!vars) PROVE OwnInv'
<1>1. CASE UNCHANGED Own!vars
  BY <1>1 DEF Own!vars, OwnInv, WorkInv, Own!TypeOK, PhasesByKind, GatesAreHeld, UsersAreIdle,
              LostLeasesAreKnown, DisturbedKnow, FilesHaveVolumes, DeletionsAreMarked, Marked
<1>2. CASE Own!Next
  <2>1. PICK a \in Workers :
            Own!Acquire(a) \/ Own!FindsIdle(a) \/ Own!Register(a) \/ Own!TimesOut(a) \/ Own!Retries(a)
            \/ Own!RenewalFails(a) \/ Own!LeaseExpires(a) \/ Own!GetRunning(a) \/ Own!Work(a)
    BY <1>2 DEF Own!Next
  <2>2. CASE Own!TimesOut(a) \/ Own!FindsDeleted(a) \/ Own!NoCandidate(a)
    BY <2>2, Failing DEF Own!TimesOut, Own!FindsDeleted, Own!NoCandidate
  <2>3. CASE Own!Acquire(a) \/ Own!FindsIdle(a) \/ Own!Register(a) \/ Own!Retries(a)
             \/ Own!RenewalFails(a) \/ Own!LeaseExpires(a)
    BY <2>3, AcquireKeeps, FindsIdleKeeps, RegisterKeeps, RetriesKeeps, LeaseKeeps
  <2>4. CASE Own!FirstLook(a) \/ Own!Seek(a) \/ Own!SecondLook(a) \/ Own!LastLook(a)
    BY <2>4, FirstLookKeeps, SeekKeeps, SecondLookKeeps, LastLookKeeps
  <2>5. CASE Own!Work(a)
    BY <2>5, OperationEndsKeeps, PreparesKeeps, FillsKeeps, GatedKeeps, DeletesKeeps,
       MarksUserKeeps, ErasesKeeps, CleansKeeps DEF Own!Work
  <2> QED BY <2>1, <2>2, <2>3, <2>4, <2>5 DEF Own!GetRunning
<1> QED BY <1>1, <1>2

LEMMA OwnersFollow ==
    ASSUME Own!OwnershipAssumption, OwnInv, Own!CapacityIsKept, WaitInv
    PROVE  Own!SandboxesAreSafe
<1>1. Own!NoCircularWait
  BY NobodyWaitsInACircle
<1> QED BY <1>1 DEF OwnInv, WorkInv, DisturbedKnow, Own!DisturbedOperationsFail, DeletionsAreMarked,
                 Own!DeletedStaysDeleted, Own!SandboxesAreSafe
-----------------------------------------------------------------------------
(* The registry of uids.                                                   *)

(* What the job under the lock has registered already.                     *)
JobKnows ==
    /\ Store!At("outer") \/ Store!At("outer made") => job.owner \in StoredSessions
    /\ Store!At("outer made") => SessionHome[job.owner] \in DOMAIN loaded
    /\ Store!At("making") => job.owner \in DOMAIN loaded

(* What holds of the volume as long as no reader reset the registry.       *)
RegistryIsFile == ~Store!At("idle") => registry = loaded
UidsDiffer ==
    registry # NoRegistry =>
        \A o, p \in DOMAIN registry : registry[o] = registry[p] => o = p
DirectoriesAreRegistered ==
    \A o \in Store!Present : registry # NoRegistry /\ o \in DOMAIN registry /\ registry[o] = owned[o]
ForgottenAreGone == Store!At("forgetting") => Store!Within(job.owner) \cap Store!Present = {}

StorageInv ==
    /\ Store!TypeOK /\ JobKnows
    /\ ~reset => RegistryIsFile /\ UidsDiffer /\ DirectoriesAreRegistered /\ ForgottenAreGone

USE DEF Store!At, Store!Goes, Store!JobEnds

-----------------------------------------------------------------------------
(* Maps of owners to uids.                                                 *)

LEMMA StorageFacts ==
    /\ StoredChats # {} /\ SessionHome \in [StoredSessions -> StoredChats]
    /\ UidDigests \in [Store!Owners -> Seq(UidRange)] /\ NoRegistry \notin Store!UidMaps
    /\ StoredSessions \subseteq Store!Owners /\ StoredChats \subseteq Store!Owners
BY SandboxAssumption DEF Store!StorageAssumption, Store!Owners

LEMMA MapOfUids ==
    ASSUME NEW f \in Store!UidMaps
    PROVE  DOMAIN f \subseteq Store!Owners /\ f = [o \in DOMAIN f |-> f[o]] /\ \A o \in DOMAIN f : f[o] \in UidRange
BY DEF Store!UidMaps

LEMMA IsMap ==
    ASSUME NEW S \in SUBSET Store!Owners, NEW f \in [S -> UidRange]
    PROVE  f \in Store!UidMaps
BY DEF Store!UidMaps

LEMMA EmptyMap == Store!Empty \in Store!UidMaps /\ DOMAIN Store!Empty = {}
<1>1. Store!Empty \in [{} -> UidRange] /\ DOMAIN Store!Empty = {}
  BY DEF Store!Empty
<1>2. {} \in SUBSET Store!Owners
  OBVIOUS
<1>. QED  BY <1>1, <1>2, IsMap

LEMMA PutMap ==
    ASSUME NEW f \in Store!UidMaps, NEW o \in Store!Owners, NEW u \in UidRange
    PROVE  /\ Store!Put(f, o, u) \in Store!UidMaps /\ DOMAIN Store!Put(f, o, u) = DOMAIN f \cup {o}
           /\ Store!Put(f, o, u)[o] = u
           /\ \A x \in DOMAIN f : x # o => Store!Put(f, o, u)[x] = f[x]
<1>1. DOMAIN Store!Put(f, o, u) = DOMAIN f \cup {o} /\ Store!Put(f, o, u)[o] = u
      /\ \A x \in DOMAIN f : x # o => Store!Put(f, o, u)[x] = f[x]
  BY DEF Store!Put
<1>2. DOMAIN f \cup {o} \in SUBSET Store!Owners
  BY MapOfUids
<1>3. Store!Put(f, o, u) \in [DOMAIN f \cup {o} -> UidRange]
  BY MapOfUids DEF Store!Put
<1>. QED  BY <1>1, <1>2, <1>3, IsMap

LEMMA DropMap ==
    ASSUME NEW f \in Store!UidMaps, NEW S
    PROVE  /\ Store!Drop(f, S) \in Store!UidMaps /\ DOMAIN Store!Drop(f, S) = DOMAIN f \ S
           /\ \A x \in DOMAIN f \ S : Store!Drop(f, S)[x] = f[x]
<1>1. DOMAIN Store!Drop(f, S) = DOMAIN f \ S /\ \A x \in DOMAIN f \ S : Store!Drop(f, S)[x] = f[x]
  BY DEF Store!Drop
<1>2. DOMAIN f \ S \in SUBSET Store!Owners
  BY MapOfUids
<1>3. Store!Drop(f, S) \in [DOMAIN f \ S -> UidRange]
  BY MapOfUids DEF Store!Drop
<1>. QED  BY <1>1, <1>2, <1>3, IsMap

(* The uid that _allocate_uid finds is nobody's.                           *)
LEMMA AllocatedIsFree ==
    ASSUME NEW o \in Store!Owners, Store!Free(o) # {}
    PROVE  Store!Allocated(o) \in UidRange /\ Store!Allocated(o) \notin Store!UidsOf(loaded)
<1>1. UidDigests[o] \in Seq(UidRange)
  BY StorageFacts
<1>2. Store!Free(o) \subseteq Nat /\ \A i \in Store!Free(o) : UidDigests[o][i] \in UidRange /\ UidDigests[o][i] \notin Store!UidsOf(loaded)
  <2>1. DOMAIN UidDigests[o] = 1 .. Len(UidDigests[o]) /\ Len(UidDigests[o]) \in Nat
    BY <1>1, LenProperties
  <2>2. \A i \in 1 .. Len(UidDigests[o]) : UidDigests[o][i] \in UidRange
    BY <1>1, ElementOfSeq
  <2>. QED  BY <2>1, <2>2 DEF Store!Free
<1>3. \E i \in Store!Free(o) : \A j \in Store!Free(o) : i <= j
  BY <1>2, LeastOfSet
<1>. DEFINE i == CHOOSE i \in Store!Free(o) : \A j \in Store!Free(o) : i <= j
<1>4. i \in Store!Free(o)
  BY <1>3
<1>. HIDE DEF i
<1>. QED  BY <1>2, <1>4 DEF Store!Allocated, i

LEMMA WithinOwners == \A o : o \in Store!Within(o)
BY DEF Store!Within

LEMMA IdleIs == Store!Idle \in [op : {"none", "ensure", "delete"}, owner : Store!Owners, step : Store!Steps] /\ Store!Idle.step = "idle"
<1>1. (CHOOSE o \in Store!Owners : TRUE) \in Store!Owners
  BY StorageFacts
<1>. DEFINE o == CHOOSE o \in Store!Owners : TRUE
<1>. HIDE DEF o
<1>. QED  BY <1>1 DEF Store!Idle, Store!Job, Store!Steps, o

-----------------------------------------------------------------------------
(* The steps.                                                              *)

(* A job that ends leaves the file and the directories as they are.        *)
LEMMA EndingJob ==
    ASSUME StorageInv, Store!JobEnds, UNCHANGED <<registry, owned, reader, reset>>
    PROVE  StorageInv'
<1>1. Store!TypeOK'
  BY IdleIs, EmptyMap DEF StorageInv, Store!TypeOK
<1>2. job'.step = "idle"
  BY IdleIs
<1>. QED  BY <1>1, <1>2 DEF StorageInv, JobKnows, RegistryIsFile, UidsDiffer,
          DirectoriesAreRegistered, ForgottenAreGone, Store!Present

LEMMA BeginsKeeps ==
    ASSUME StorageInv, NEW o \in Store!Owners, NEW op \in {"ensure", "delete"}, Store!Begins(op, o)
    PROVE  StorageInv'
<1>. DEFINE s == IF op = "delete" THEN "removing" ELSE IF o \in StoredSessions THEN "outer" ELSE "allocating"
<1>1. /\ job.step = "idle" /\ registry' = (IF registry = NoRegistry THEN Store!Empty ELSE registry)
      /\ loaded' = registry' /\ job' = Store!Job(op, o, s) /\ UNCHANGED <<owned, reader, reset>>
  BY DEF Store!Begins
<1>2. s \in {"removing", "outer", "allocating"} /\ (s = "outer" => o \in StoredSessions)
  OBVIOUS
<1>. HIDE DEF s
<1>3. job'.step = s /\ job'.owner = o /\ job' \in [op : {"none", "ensure", "delete"}, owner : Store!Owners, step : Store!Steps]
  BY <1>1, <1>2 DEF Store!Job, Store!Steps
<1>4. registry' \in Store!UidMaps
  BY <1>1, EmptyMap DEF StorageInv, Store!TypeOK
<1>5. Store!TypeOK' /\ JobKnows'
  BY <1>1, <1>2, <1>3, <1>4 DEF StorageInv, Store!TypeOK, JobKnows
<1>6. ~reset => RegistryIsFile' /\ ForgottenAreGone'
  BY <1>1, <1>2, <1>3 DEF RegistryIsFile, ForgottenAreGone
<1>7. ~reset => UidsDiffer' /\ DirectoriesAreRegistered'
  <2>. SUFFICES ASSUME ~reset PROVE UidsDiffer' /\ DirectoriesAreRegistered'
    OBVIOUS
  <2>1. UidsDiffer /\ DirectoriesAreRegistered
    BY DEF StorageInv
  <2>2. CASE registry = NoRegistry
    <3>1. Store!Present = {}
      BY <2>1, <2>2 DEF DirectoriesAreRegistered
    <3>. QED  BY <1>1, <2>2, <3>1, EmptyMap DEF UidsDiffer, DirectoriesAreRegistered, Store!Present
  <2>3. CASE registry # NoRegistry
    BY <1>1, <2>1, <2>3 DEF UidsDiffer, DirectoriesAreRegistered, Store!Present
  <2>. QED  BY <2>2, <2>3
<1>. QED  BY <1>1, <1>5, <1>6, <1>7 DEF StorageInv

(* A step of the job goes on to another phase.                             *)
LEMMA GoesOn ==
    ASSUME StorageInv, NEW s \in Store!Steps, Store!Goes(s)
    PROVE  /\ job'.step = s /\ job'.owner = job.owner
           /\ job' \in [op : {"none", "ensure", "delete"}, owner : Store!Owners, step : Store!Steps]
BY DEF StorageInv, Store!TypeOK

LEMMA RegistersKeeps ==
    ASSUME StorageInv, NEW o \in Store!Owners, NEW ready \in {"outer made", "making"},
           Store!Registers(o, ready), UNCHANGED <<owned, reader, reset>>,
           job.step \in {"outer", "allocating"},
           job.step = "outer" => o = SessionHome[job.owner] /\ ready = "outer made",
           job.step = "allocating" => o = job.owner /\ ready = "making"
    PROVE  StorageInv'
<1>0. ready \in Store!Steps /\ Store!TypeOK /\ JobKnows
  BY DEF Store!Steps, StorageInv
<1>1. CASE o \in DOMAIN loaded
  <2>1. Store!Goes(ready) /\ UNCHANGED <<registry, loaded>>
    BY <1>1 DEF Store!Registers
  <2>2. /\ job'.step = ready /\ job'.owner = job.owner
        /\ job' \in [op : {"none", "ensure", "delete"}, owner : Store!Owners, step : Store!Steps]
    BY <1>0, <2>1, GoesOn
  <2>3. Store!TypeOK' /\ JobKnows'
    BY <1>0, <1>1, <2>1, <2>2 DEF Store!TypeOK, JobKnows
  <2>. QED  BY <2>1, <2>2, <2>3 DEF StorageInv, RegistryIsFile, UidsDiffer,
            DirectoriesAreRegistered, ForgottenAreGone, Store!Present
<1>2. CASE o \notin DOMAIN loaded /\ Store!Free(o) = {}
  BY <1>2, EndingJob DEF Store!Registers
<1>3. CASE o \notin DOMAIN loaded /\ Store!Free(o) # {}
  <2>. DEFINE u == Store!Allocated(o)
  <2>1. loaded' = Store!Put(loaded, o, u) /\ registry' = loaded' /\ Store!Goes(ready)
    BY <1>3 DEF Store!Registers
  <2>2. u \in UidRange /\ u \notin Store!UidsOf(loaded)
    BY <1>3, AllocatedIsFree
  <2>. HIDE DEF u
  <2>3. /\ job'.step = ready /\ job'.owner = job.owner
        /\ job' \in [op : {"none", "ensure", "delete"}, owner : Store!Owners, step : Store!Steps]
    BY <1>0, <2>1, GoesOn
  <2>4. /\ loaded' \in Store!UidMaps /\ DOMAIN loaded' = DOMAIN loaded \cup {o} /\ loaded'[o] = u
        /\ \A x \in DOMAIN loaded : x # o => loaded'[x] = loaded[x]
    <3>1. loaded \in Store!UidMaps
      BY <1>0 DEF Store!TypeOK
    <3>2. /\ Store!Put(loaded, o, u) \in Store!UidMaps /\ DOMAIN Store!Put(loaded, o, u) = DOMAIN loaded \cup {o}
          /\ Store!Put(loaded, o, u)[o] = u
          /\ \A x \in DOMAIN loaded : x # o => Store!Put(loaded, o, u)[x] = loaded[x]
      BY <2>2, <3>1, PutMap
    <3>. QED  BY <2>1, <3>2
  <2>5. Store!TypeOK' /\ JobKnows'
    BY <1>0, <2>1, <2>3, <2>4 DEF Store!TypeOK, JobKnows
  <2>6. ASSUME ~reset'
        PROVE  RegistryIsFile' /\ UidsDiffer' /\ DirectoriesAreRegistered' /\ ForgottenAreGone'
    <3>1. /\ ~reset /\ registry = loaded /\ loaded \in Store!UidMaps /\ registry # NoRegistry
          /\ UidsDiffer /\ DirectoriesAreRegistered
      BY <1>0, <2>6, StorageFacts DEF StorageInv, RegistryIsFile, Store!TypeOK
    <3>2. \A x \in DOMAIN loaded : loaded[x] # u
      BY <2>2 DEF Store!UidsOf
    <3>3. UidsDiffer'
      <4>1. \A x, y \in DOMAIN loaded : loaded[x] = loaded[y] => x = y
        BY <3>1 DEF UidsDiffer
      <4>2. ASSUME NEW x \in DOMAIN loaded', NEW y \in DOMAIN loaded', loaded'[x] = loaded'[y]
            PROVE  x = y
        <5>1. CASE x # o /\ y # o
          BY <2>4, <4>1, <4>2, <5>1
        <5>2. CASE x = o \/ y = o
          BY <2>4, <3>2, <4>2, <5>2
        <5>. QED  BY <5>1, <5>2
      <4>. QED  BY <2>1, <4>2 DEF UidsDiffer
    <3>4. registry' # NoRegistry
      BY <2>1, <2>4, StorageFacts
    <3>5. DirectoriesAreRegistered'
      BY <1>3, <2>1, <2>4, <3>1, <3>4 DEF DirectoriesAreRegistered, Store!Present
    <3>. QED  BY <2>1, <2>3, <3>3, <3>5 DEF RegistryIsFile, ForgottenAreGone
  <2>. QED  BY <2>5, <2>6 DEF StorageInv
<1>. QED  BY <1>1, <1>2, <1>3

LEMMA MakesKeeps ==
    ASSUME StorageInv, NEW o \in Store!Owners, NEW after \in {"allocating", "idle"},
           Store!Makes(o, after), UNCHANGED <<registry, reader, reset>>,
           job.step \in {"outer made", "making"}, o \in DOMAIN loaded
    PROVE  StorageInv'
<1>0. Store!TypeOK /\ JobKnows /\ after \in Store!Steps
  BY DEF StorageInv, Store!Steps
<1>1. CASE Store!Strange(o)
  BY <1>1, EndingJob DEF Store!Makes
<1>2. CASE ~Store!Strange(o)
  <2>1. owned' = Store!Put(owned, o, loaded[o]) /\ IF after = "idle" THEN Store!JobEnds ELSE Store!Goes(after) /\ UNCHANGED loaded
    BY <1>2 DEF Store!Makes
  <2>2. loaded[o] \in UidRange
    BY <1>0, MapOfUids DEF Store!TypeOK
  <2>. DEFINE u == loaded[o]
  <2>. HIDE DEF u
  <2>3. /\ owned' \in Store!UidMaps /\ DOMAIN owned' = DOMAIN owned \cup {o} /\ owned'[o] = loaded[o]
        /\ \A x \in DOMAIN owned : x # o => owned'[x] = owned[x]
    <3>1. owned \in Store!UidMaps /\ u \in UidRange
      BY <1>0, <2>2 DEF Store!TypeOK, u
    <3>2. /\ Store!Put(owned, o, u) \in Store!UidMaps /\ DOMAIN Store!Put(owned, o, u) = DOMAIN owned \cup {o}
          /\ Store!Put(owned, o, u)[o] = u
          /\ \A x \in DOMAIN owned : x # o => Store!Put(owned, o, u)[x] = owned[x]
      BY <3>1, PutMap
    <3>. QED  BY <2>1, <3>2 DEF u
  <2>4. /\ job'.step = after /\ (after # "idle" => loaded' = loaded) /\ loaded' \in Store!UidMaps
        /\ job' \in [op : {"none", "ensure", "delete"}, owner : Store!Owners, step : Store!Steps]
    <3>1. CASE after = "idle"
      BY <2>1, <3>1, IdleIs, EmptyMap
    <3>2. CASE after # "idle"
      BY <1>0, <2>1, <3>2, GoesOn DEF Store!TypeOK
    <3>. QED  BY <3>1, <3>2
  <2>5. Store!TypeOK' /\ JobKnows'
    BY <1>0, <2>3, <2>4 DEF Store!TypeOK, JobKnows
  <2>6. ASSUME ~reset'
        PROVE  RegistryIsFile' /\ UidsDiffer' /\ DirectoriesAreRegistered' /\ ForgottenAreGone'
    <3>1. /\ registry = loaded /\ loaded \in Store!UidMaps /\ registry # NoRegistry
          /\ UidsDiffer /\ DirectoriesAreRegistered
      BY <1>0, <2>6, StorageFacts DEF StorageInv, RegistryIsFile, Store!TypeOK
    <3>2. UidsDiffer' /\ DirectoriesAreRegistered'
      BY <2>3, <3>1 DEF UidsDiffer, DirectoriesAreRegistered, Store!Present
    <3>. QED  BY <2>4, <3>1, <3>2 DEF RegistryIsFile, ForgottenAreGone
  <2>. QED  BY <2>5, <2>6 DEF StorageInv
<1>. QED  BY <1>1, <1>2

LEMMA JobPreparesKeeps ==
    ASSUME StorageInv, Store!OuterRegisters \/ Store!OuterMakes \/ Store!Allocates \/ Store!Creates
    PROVE  StorageInv'
<1>1. job.owner \in Store!Owners /\ (job.owner \in StoredSessions => SessionHome[job.owner] \in Store!Owners)
  BY StorageFacts DEF StorageInv, Store!TypeOK
<1>2. CASE Store!OuterRegisters
  BY <1>1, <1>2, RegistersKeeps DEF Store!OuterRegisters, StorageInv, JobKnows
<1>3. CASE Store!OuterMakes
  BY <1>1, <1>3, MakesKeeps DEF Store!OuterMakes, StorageInv, JobKnows
<1>4. CASE Store!Allocates
  BY <1>1, <1>4, RegistersKeeps DEF Store!Allocates
<1>5. CASE Store!Creates
  BY <1>1, <1>5, MakesKeeps DEF Store!Creates, StorageInv, JobKnows
<1>. QED  BY <1>2, <1>3, <1>4, <1>5

LEMMA RemovesKeeps ==
    ASSUME StorageInv, Store!Removes
    PROVE  StorageInv'
<1>0. Store!TypeOK /\ JobKnows
  BY DEF StorageInv
<1>1. PICK S \in SUBSET Store!Within(job.owner) :
        /\ owned' = Store!Drop(owned, S)
        /\ IF S = Store!Within(job.owner) THEN Store!Goes("forgetting") /\ UNCHANGED loaded ELSE Store!JobEnds
  BY DEF Store!Removes
<1>2. job.step = "removing" /\ UNCHANGED <<registry, reader, reset>>
  BY DEF Store!Removes
<1>3. /\ owned' \in Store!UidMaps /\ DOMAIN owned' = DOMAIN owned \ S
      /\ \A x \in DOMAIN owned' : owned'[x] = owned[x]
  <2>1. owned \in Store!UidMaps
    BY <1>0 DEF Store!TypeOK
  <2>2. /\ Store!Drop(owned, S) \in Store!UidMaps /\ DOMAIN Store!Drop(owned, S) = DOMAIN owned \ S
        /\ \A x \in DOMAIN owned \ S : Store!Drop(owned, S)[x] = owned[x]
    BY <2>1, DropMap
  <2>. QED  BY <1>1, <2>2
<1>4. ~reset => UidsDiffer' /\ DirectoriesAreRegistered'
  BY <1>2, <1>3 DEF StorageInv, UidsDiffer, DirectoriesAreRegistered, Store!Present
<1>5. CASE S = Store!Within(job.owner)
  <2>1. Store!Goes("forgetting") /\ loaded' = loaded
    BY <1>1, <1>5
  <2>2. /\ job'.step = "forgetting" /\ job'.owner = job.owner
        /\ job' \in [op : {"none", "ensure", "delete"}, owner : Store!Owners, step : Store!Steps]
    <3>1. "forgetting" \in Store!Steps
      BY DEF Store!Steps
    <3>. QED  BY <2>1, <3>1, GoesOn
  <2>3. Store!TypeOK' /\ JobKnows'
    BY <1>0, <1>2, <1>3, <2>1, <2>2 DEF Store!TypeOK, JobKnows
  <2>4. Store!Within(job.owner)' \cap Store!Present' = {}
    BY <1>3, <1>5, <2>2 DEF Store!Within, Store!Present
  <2>. QED  BY <1>2, <1>4, <2>1, <2>2, <2>3, <2>4 DEF StorageInv, RegistryIsFile, ForgottenAreGone
<1>6. CASE S # Store!Within(job.owner)
  <2>1. job' = Store!Idle /\ loaded' = Store!Empty
    BY <1>1, <1>6
  <2>2. Store!TypeOK' /\ JobKnows'
    BY <1>0, <1>2, <1>3, <2>1, IdleIs, EmptyMap DEF Store!TypeOK, JobKnows
  <2>. QED  BY <1>2, <1>4, <2>1, <2>2, IdleIs DEF StorageInv, RegistryIsFile, ForgottenAreGone
<1>. QED  BY <1>5, <1>6

LEMMA ForgetsKeeps ==
    ASSUME StorageInv, Store!Forgets
    PROVE  StorageInv'
<1>. DEFINE S == Store!Within(job.owner)
<1>1. /\ job.step = "forgetting" /\ registry' = Store!Drop(loaded, S) /\ job' = Store!Idle /\ loaded' = Store!Empty
      /\ UNCHANGED <<owned, reader, reset>>
  BY DEF Store!Forgets
<1>2. /\ registry' \in Store!UidMaps /\ DOMAIN registry' = DOMAIN loaded \ S
      /\ \A x \in DOMAIN registry' : registry'[x] = loaded[x]
  <2>1. loaded \in Store!UidMaps
    BY DEF StorageInv, Store!TypeOK
  <2>2. /\ Store!Drop(loaded, S) \in Store!UidMaps /\ DOMAIN Store!Drop(loaded, S) = DOMAIN loaded \ S
        /\ \A x \in DOMAIN loaded \ S : Store!Drop(loaded, S)[x] = loaded[x]
    BY <2>1, DropMap
  <2>. QED  BY <1>1, <2>2
<1>3. Store!TypeOK' /\ JobKnows'
  BY <1>1, <1>2, IdleIs, EmptyMap DEF StorageInv, Store!TypeOK, JobKnows
<1>4. ASSUME ~reset
      PROVE  RegistryIsFile' /\ UidsDiffer' /\ DirectoriesAreRegistered' /\ ForgottenAreGone'
  <2>1. /\ registry = loaded /\ registry # NoRegistry /\ S \cap Store!Present = {}
        /\ UidsDiffer /\ DirectoriesAreRegistered
    BY <1>1, <1>4, StorageFacts DEF StorageInv, RegistryIsFile, Store!TypeOK, ForgottenAreGone
  <2>2. registry' # NoRegistry
    BY <1>2, StorageFacts
  <2>3. UidsDiffer' /\ DirectoriesAreRegistered'
    BY <1>1, <1>2, <2>1, <2>2 DEF UidsDiffer, DirectoriesAreRegistered, Store!Present
  <2>. QED  BY <1>1, <2>3, IdleIs DEF RegistryIsFile, ForgottenAreGone
<1>. QED  BY <1>1, <1>3, <1>4 DEF StorageInv

LEMMA RegistryReadersKeep ==
    ASSUME StorageInv, NEW r \in UidReaders, Store!Reads(r) \/ Store!WritesEmpty(r)
    PROVE  StorageInv'
<1>1. CASE Store!Reads(r)
  <2>1. UNCHANGED <<registry, owned, job, loaded, reset>> /\ Store!TypeOK'
    BY <1>1 DEF Store!Reads, StorageInv, Store!TypeOK
  <2>. QED  BY <2>1 DEF StorageInv, JobKnows, RegistryIsFile, UidsDiffer,
            DirectoriesAreRegistered, ForgottenAreGone, Store!Present
<1>2. CASE Store!WritesEmpty(r)
  <2>1. /\ registry' = Store!Empty /\ reset' = (reset \/ registry \notin {NoRegistry, Store!Empty})
        /\ UNCHANGED <<owned, job, loaded>>
        /\ reader' = [reader EXCEPT ![r] = "done"]
    BY <1>2 DEF Store!WritesEmpty
  <2>2. Store!TypeOK' /\ JobKnows'
    BY <2>1, EmptyMap DEF StorageInv, Store!TypeOK, JobKnows
  <2>3. ASSUME ~reset'
        PROVE  RegistryIsFile' /\ UidsDiffer' /\ DirectoriesAreRegistered' /\ ForgottenAreGone'
    <3>1. ~reset /\ registry \in {NoRegistry, Store!Empty}
      BY <2>1, <2>3
    <3>2. RegistryIsFile /\ DirectoriesAreRegistered /\ ForgottenAreGone /\ Store!TypeOK
      BY <3>1 DEF StorageInv
    <3>3. Store!Present = {}
      BY <3>1, <3>2, EmptyMap DEF DirectoriesAreRegistered
    <3>4. ~Store!At("idle") => loaded = Store!Empty
      BY <3>1, <3>2, StorageFacts DEF RegistryIsFile, Store!TypeOK
    <3>. QED  BY <2>1, <3>3, <3>4, EmptyMap DEF RegistryIsFile, UidsDiffer,
              DirectoriesAreRegistered, ForgottenAreGone, Store!Present
  <2>. QED  BY <2>2, <2>3 DEF StorageInv
<1>. QED  BY <1>1, <1>2

LEMMA StorageInit == Store!Init => StorageInv
<1>. SUFFICES ASSUME Store!Init PROVE StorageInv
  OBVIOUS
<1>1. Store!TypeOK /\ JobKnows
  BY IdleIs, EmptyMap DEF Store!Init, Store!TypeOK, JobKnows
<1>. QED  BY <1>1, IdleIs, EmptyMap DEF Store!Init, StorageInv, RegistryIsFile, UidsDiffer,
          DirectoriesAreRegistered, ForgottenAreGone, Store!Present

LEMMA StorageStep == StorageInv /\ [Store!Next]_(Store!vars) => StorageInv'
<1>. SUFFICES ASSUME StorageInv, [Store!Next]_(Store!vars) PROVE StorageInv'
  OBVIOUS
<1>1. CASE UNCHANGED Store!vars
  <2>1. UNCHANGED <<registry, owned, job, loaded, reader, reset>>
    BY <1>1 DEF Store!vars
  <2>. QED  BY <2>1 DEF StorageInv, Store!TypeOK, JobKnows, RegistryIsFile, UidsDiffer,
            DirectoriesAreRegistered, ForgottenAreGone, Store!Present
<1>2. CASE Store!Breaks
  BY <1>2, EndingJob DEF Store!Breaks
<1>3. CASE Store!Next /\ ~Store!Breaks
  BY <1>3, BeginsKeeps, JobPreparesKeeps, RemovesKeeps, ForgetsKeeps, RegistryReadersKeep DEF Store!Next
<1>. QED  BY <1>1, <1>2, <1>3

LEMMA StorageFollows == StorageInv => Store!TypeOK /\ Store!UidsAreIsolated
<1>. SUFFICES ASSUME StorageInv PROVE Store!TypeOK /\ Store!UidsAreIsolated
  OBVIOUS
<1>1. ASSUME ~reset, NEW o \in Store!Present, NEW p \in Store!Present, owned[o] = owned[p]
      PROVE  o = p
  BY <1>1 DEF StorageInv, UidsDiffer, DirectoriesAreRegistered
<1>. QED  BY <1>1 DEF StorageInv, Store!UidsAreIsolated, DirectoriesAreRegistered
-----------------------------------------------------------------------------
(* Files.                                                                  *)

(* What the calls are at.                                                  *)
Editing == {"reading", "opening", "rewriting", "sweeping", "swept"}
CallsInOrder ==
    \A c \in FileCalls :
        /\ fileStep[c] \in Editing \/ c \in overlaps => FileTool[c] = "edit"
        /\ fileStep[c] \in {"opening", "rewriting"} => Len(base[c]) < MaxFileSize
        /\ c \in staged => fileStep[c] \in {"committing", "clearing"} \/ c \in stranded
        /\ c \in scratch => fileStep[c] \in {"reading", "opening", "rewriting", "sweeping"}
                            \/ c \in stranded

(* Who is to blame for a file that does not hold the result of one call.   *)
Blamed(c) ==
    \/ fileStep[c] = "rewriting" /\ opened[c] = inode
    \/ fileStep[c] \in {"sweeping", "swept"}
    \/ c \in overlaps
PartialIsBlamed == partial => \E c \in FileCalls : FileTool[c] = "edit" /\ Blamed(c)
WholeFits == content # Absent /\ ~partial => Len(content) \in 1 .. MaxFileSize

FilesInv == Files!TypeOK /\ CallsInOrder /\ PartialIsBlamed /\ WholeFits

USE DEF Files!Goes, Files!At, Files!Answers, Files!fileVars, Files!editVars

LEMMA FilesFacts == FileTool \in [FileCalls -> Files!Tools] /\ MaxFileSize \in Nat /\ MaxFileSize >= 1
BY SandboxAssumption DEF Files!FilesAssumption

LEMMA FilesInit == Files!Init => FilesInv
<1>. SUFFICES ASSUME Files!Init PROVE FilesInv
  OBVIOUS
<1>1. <<>> \in Seq(FileCalls) /\ base = [c \in FileCalls |-> <<>>]
  BY DEF Files!Init
<1>2. base \in [FileCalls -> Seq(FileCalls)]
  BY <1>1
<1>3. Files!TypeOK
  BY <1>2 DEF Files!Init, Files!TypeOK, Files!Ended
<1>4. \A c \in FileCalls : fileStep[c] = "new"
  BY DEF Files!Init
<1>5. CallsInOrder
  BY <1>4 DEF Files!Init, CallsInOrder, Editing
<1>6. PartialIsBlamed /\ WholeFits
  BY DEF Files!Init, PartialIsBlamed, WholeFits
<1>. QED  BY <1>3, <1>5, <1>6 DEF FilesInv

(* Steps of uploads that leave the file alone.                             *)
LEMMA UploadStep ==
    ASSUME FilesInv, NEW c \in FileCalls, Files!Checks(c) \/ Files!Stages(c) \/ Files!Clears(c)
    PROVE  FilesInv'
<1>1. PICK s \in {"done", "staging", "committing", "clearing"} :
        /\ fileStep' = [fileStep EXCEPT ![c] = s]
        /\ fileStep[c] \in {"new", "staging", "clearing"}
        /\ s \in {"staging", "committing", "done"} => fileStep[c] \in {"new", "staging", "clearing"}
        /\ UNCHANGED <<Files!fileVars, Files!editVars>>
  BY DEF Files!Checks, Files!Stages, Files!Clears
<1>2. Files!TypeOK /\ CallsInOrder /\ PartialIsBlamed /\ WholeFits
  BY DEF FilesInv
<1>3. Files!TypeOK'
  <2>1. fileStep' \in [FileCalls -> Files!Ended \cup {"new", "staging", "committing", "clearing", "reading",
                                      "opening", "rewriting", "sweeping"}]
    BY <1>1, <1>2 DEF Files!TypeOK, Files!Ended
  <2>2. staged' \subseteq FileCalls /\ stranded' \subseteq FileCalls /\ answer' \in [FileCalls -> {"none", "ok", "error"}]
    BY <1>2 DEF Files!TypeOK, Files!Checks, Files!Stages, Files!Clears
  <2>. QED  BY <1>1, <1>2, <2>1, <2>2 DEF Files!TypeOK
<1>4. \A d \in FileCalls : d # c => fileStep'[d] = fileStep[d] /\ (d \in staged' <=> d \in staged)
                                /\ (d \in stranded' <=> d \in stranded)
  BY <1>1, <1>2 DEF Files!TypeOK, Files!Checks, Files!Stages, Files!Clears
<1>5. fileStep'[c] = s
  BY <1>1, <1>2 DEF Files!TypeOK
<1>6. CallsInOrder'
  <2>1. /\ c \notin scratch \/ c \in stranded
        /\ c \in staged' => s \in {"committing", "clearing"} \/ c \in stranded'
        /\ stranded \subseteq stranded'
    BY <1>1, <1>2, <1>5 DEF CallsInOrder, Files!Checks, Files!Stages, Files!Clears, Files!TypeOK
  <2>. QED  BY <1>1, <1>2, <1>4, <1>5, <2>1 DEF CallsInOrder, Editing
<1>7. PartialIsBlamed'
  BY <1>1, <1>2, <1>4 DEF PartialIsBlamed, Blamed
<1>. QED  BY <1>1, <1>2, <1>3, <1>6, <1>7 DEF FilesInv, WholeFits

LEMMA CommitStep ==
    ASSUME FilesInv, NEW c \in FileCalls, Files!Commits(c)
    PROVE  FilesInv'
<1>1. fileStep[c] = "committing" /\ fileStep' = [fileStep EXCEPT ![c] = "clearing"] /\ UNCHANGED <<Files!editVars, stranded>>
  BY DEF Files!Commits
<1>2. Files!TypeOK /\ CallsInOrder /\ PartialIsBlamed /\ WholeFits
  BY DEF FilesInv
<1>3. fileStep' \in [FileCalls -> Files!Ended \cup {"new", "staging", "committing", "clearing", "reading",
                                      "opening", "rewriting", "sweeping"}]
      /\ fileStep'[c] = "clearing" /\ \A d \in FileCalls : d # c => fileStep'[d] = fileStep[d]
  BY <1>1, <1>2 DEF Files!TypeOK
<1>4. \/ /\ content' = <<c>> /\ inode' = c /\ partial' = FALSE
         /\ staged' = staged \ {c} /\ answer' = [answer EXCEPT ![c] = "ok"]
      \/ answer' = [answer EXCEPT ![c] = "error"] /\ UNCHANGED <<Files!fileVars, staged>>
  BY DEF Files!Commits
<1>5. <<c>> \in Seq(FileCalls) /\ Len(<<c>>) = 1
  OBVIOUS
<1>6. Files!TypeOK'
  BY <1>1, <1>2, <1>3, <1>4, <1>5 DEF Files!TypeOK
<1>7. CallsInOrder'
  BY <1>1, <1>2, <1>3, <1>4 DEF CallsInOrder, Editing
<1>8. PartialIsBlamed'
  BY <1>1, <1>2, <1>3, <1>4 DEF PartialIsBlamed, Blamed
<1>9. WholeFits'
  <2>1. CASE UNCHANGED Files!fileVars
    BY <1>2, <2>1 DEF WholeFits
  <2>2. CASE content' = <<c>>
    <3>1. Len(content') = 1
      BY <2>2
    <3>. QED  BY <3>1, FilesFacts DEF WholeFits
  <2>. QED  BY <1>4, <2>1, <2>2
<1>. QED  BY <1>6, <1>7, <1>8, <1>9 DEF FilesInv

(* Steps of edits that leave the file alone.                               *)
LEMMA EditStep ==
    ASSUME FilesInv, NEW c \in FileCalls, Files!Scratches(c) \/ Files!ReadsTarget(c) \/ Files!Killed(c) \/ Files!Sweeps(c)
    PROVE  FilesInv'
<1>1. PICK s \in {"reading", "sweeping", "opening", "done", "swept"} :
        /\ fileStep' = [fileStep EXCEPT ![c] = s]
        /\ fileStep[c] \in {"new", "reading", "opening", "rewriting", "sweeping"}
        /\ fileStep[c] \in {"rewriting", "sweeping"} => s \in {"sweeping", "swept"}
        /\ UNCHANGED <<Files!fileVars, staged, opened>>
  BY DEF Files!Scratches, Files!ReadsTarget, Files!Killed, Files!Sweeps
<1>2. Files!TypeOK /\ CallsInOrder /\ PartialIsBlamed /\ WholeFits
  BY DEF FilesInv
<1>3. fileStep' \in [FileCalls -> Files!Ended \cup {"new", "staging", "committing", "clearing", "reading",
                                      "opening", "rewriting", "sweeping"}]
      /\ fileStep'[c] = s /\ \A d \in FileCalls : d # c => fileStep'[d] = fileStep[d]
  BY <1>1, <1>2 DEF Files!TypeOK, Files!Ended
<1>4. /\ scratch' \subseteq FileCalls /\ stranded' \subseteq FileCalls /\ overlaps' \subseteq FileCalls
      /\ answer' \in [FileCalls -> {"none", "ok", "error"}]
      /\ overlaps \subseteq overlaps' /\ stranded \subseteq stranded'
      /\ \A d \in FileCalls : d # c => (d \in scratch' => d \in scratch) /\ (d \in overlaps' => d \in overlaps)
  BY <1>2 DEF Files!TypeOK, Files!Scratches, Files!ReadsTarget, Files!Killed, Files!Sweeps
<1>5. /\ base' \in [FileCalls -> Seq(FileCalls)] /\ \A d \in FileCalls : d # c => base'[d] = base[d]
      /\ s = "opening" => Len(base'[c]) < MaxFileSize
  <2>1. CASE Files!ReadsTarget(c)
    <3>1. CASE /\ content # Absent /\ Len(content) < MaxFileSize
               /\ base' = [base EXCEPT ![c] = content]
      <4>1. base'[c] = content /\ content \in Seq(FileCalls)
        BY <1>2, <3>1 DEF Files!TypeOK
      <4>2. base' \in [FileCalls -> Seq(FileCalls)] /\ \A d \in FileCalls : d # c => base'[d] = base[d]
        BY <1>2, <3>1, <4>1 DEF Files!TypeOK
      <4>. QED  BY <3>1, <4>1, <4>2
    <3>2. CASE base' = base /\ fileStep' = [fileStep EXCEPT ![c] = "done"]
      <4>1. s = "done"
        BY <1>2, <1>3, <3>2 DEF Files!TypeOK
      <4>. QED  BY <1>2, <3>2, <4>1 DEF Files!TypeOK
    <3>. QED  BY <2>1, <3>1, <3>2 DEF Files!ReadsTarget
  <2>2. CASE Files!Scratches(c) \/ Files!Killed(c) \/ Files!Sweeps(c)
    <3>1. /\ base' = base
          /\ \/ fileStep' = [fileStep EXCEPT ![c] = "reading"]
             \/ fileStep' = [fileStep EXCEPT ![c] = "sweeping"]
             \/ fileStep' = [fileStep EXCEPT ![c] = "swept"]
      BY <2>2 DEF Files!Scratches, Files!Killed, Files!Sweeps
    <3>2. s # "opening"
      BY <1>2, <1>3, <3>1 DEF Files!TypeOK
    <3>3. base \in [FileCalls -> Seq(FileCalls)]
      BY <1>2 DEF Files!TypeOK
    <3>. QED  BY <3>1, <3>2, <3>3
  <2>. QED  BY <2>1, <2>2
<1>6. FileTool[c] = "edit" /\ (c \notin staged \/ c \in stranded)
  <2>1. (fileStep[c] = "new" /\ FileTool[c] = "edit") \/ fileStep[c] \in Editing
    BY DEF Files!Scratches, Files!ReadsTarget, Files!Killed, Files!Sweeps, Editing
  <2>2. fileStep[c] \notin {"committing", "clearing"}
    BY <1>1
  <2>. QED  BY <1>2, <2>1, <2>2 DEF CallsInOrder
<1>7. c \in scratch' => s \in {"reading", "opening", "rewriting", "sweeping"} \/ c \in stranded'
  BY <1>1, <1>2, <1>3, <1>6 DEF Files!Scratches, Files!ReadsTarget, Files!Killed, Files!Sweeps, Files!TypeOK, CallsInOrder
<1>8. Files!TypeOK'
  BY <1>1, <1>2, <1>3, <1>4, <1>5 DEF Files!TypeOK
<1>9. CallsInOrder'
  BY <1>1, <1>2, <1>3, <1>4, <1>5, <1>6, <1>7 DEF CallsInOrder, Editing
<1>10. PartialIsBlamed'
  <2>. SUFFICES ASSUME partial' PROVE \E d \in FileCalls : FileTool[d] = "edit" /\ Blamed(d)'
    BY DEF PartialIsBlamed
  <2>1. PICK d \in FileCalls : FileTool[d] = "edit" /\ Blamed(d)
    BY <1>1, <1>2 DEF PartialIsBlamed
  <2>2. CASE d = c
    BY <1>1, <1>3, <1>4, <2>1, <2>2 DEF Blamed
  <2>3. CASE d # c
    BY <1>1, <1>3, <1>4, <2>1, <2>3 DEF Blamed
  <2>. QED  BY <2>1, <2>2, <2>3
<1>. QED  BY <1>1, <1>2, <1>8, <1>9, <1>10 DEF FilesInv, WholeFits

LEMMA TruncateStep ==
    ASSUME FilesInv, NEW c \in FileCalls, Files!Truncates(c)
    PROVE  FilesInv'
<1>. DEFINE met == {d \in FileCalls : Files!At(d, "rewriting") /\ opened[d] = inode}
<1>1. /\ fileStep[c] = "opening" /\ fileStep' = [fileStep EXCEPT ![c] = "rewriting"]
      /\ content' = <<>> /\ partial' = TRUE /\ opened' = [opened EXCEPT ![c] = inode]
      /\ overlaps' = IF met = {} THEN overlaps ELSE overlaps \cup met \cup {c}
      /\ UNCHANGED <<inode, staged, scratch, base, answer, stranded>>
  BY DEF Files!Truncates
<1>2. Files!TypeOK /\ CallsInOrder
  BY DEF FilesInv
<1>3. fileStep' \in [FileCalls -> Files!Ended \cup {"new", "staging", "committing", "clearing", "reading",
                                      "opening", "rewriting", "sweeping"}]
      /\ fileStep'[c] = "rewriting" /\ \A d \in FileCalls : d # c => fileStep'[d] = fileStep[d]
  BY <1>1, <1>2 DEF Files!TypeOK
<1>4. FileTool[c] = "edit" /\ \A d \in met : FileTool[d] = "edit"
  BY <1>1, <1>2 DEF CallsInOrder, Editing
<1>5. met \subseteq FileCalls
  OBVIOUS
<1>. HIDE DEF met
<1>6. overlaps' \subseteq FileCalls /\ \A d \in overlaps' : FileTool[d] = "edit"
  BY <1>1, <1>2, <1>4, <1>5 DEF Files!TypeOK, CallsInOrder
<1>7. opened' \in [FileCalls -> FileCalls \cup {Absent}] /\ opened'[c] = inode
  BY <1>1, <1>2 DEF Files!TypeOK
<1>8. <<>> \in Seq(FileCalls)
  OBVIOUS
<1>9. Files!TypeOK'
  BY <1>1, <1>2, <1>3, <1>6, <1>7, <1>8 DEF Files!TypeOK
<1>10. CallsInOrder'
  BY <1>1, <1>2, <1>3, <1>4, <1>6 DEF CallsInOrder, Editing
<1>11. PartialIsBlamed' /\ WholeFits'
  BY <1>1, <1>3, <1>4, <1>7 DEF PartialIsBlamed, Blamed, WholeFits
<1>. QED  BY <1>9, <1>10, <1>11 DEF FilesInv

LEMMA RewriteStep ==
    ASSUME FilesInv, NEW c \in FileCalls, Files!Rewrites(c)
    PROVE  FilesInv'
<1>1. /\ fileStep[c] = "rewriting" /\ fileStep' = [fileStep EXCEPT ![c] = "done"]
      /\ scratch' = scratch \ {c} /\ answer' = [answer EXCEPT ![c] = "ok"]
      /\ UNCHANGED <<inode, staged, base, opened, overlaps, stranded>>
  BY DEF Files!Rewrites
<1>2. Files!TypeOK /\ CallsInOrder /\ PartialIsBlamed /\ WholeFits
  BY DEF FilesInv
<1>3. fileStep' \in [FileCalls -> Files!Ended \cup {"new", "staging", "committing", "clearing", "reading",
                                      "opening", "rewriting", "sweeping"}]
      /\ fileStep'[c] = "done" /\ \A d \in FileCalls : d # c => fileStep'[d] = fileStep[d]
  BY <1>1, <1>2 DEF Files!TypeOK, Files!Ended
<1>4. CallsInOrder' /\ FileTool[c] = "edit"
  BY <1>1, <1>2, <1>3 DEF CallsInOrder, Editing, Files!TypeOK
<1>5. base[c] \in Seq(FileCalls) /\ Len(base[c]) < MaxFileSize
  BY <1>1, <1>2 DEF Files!TypeOK, CallsInOrder
<1>6. Append(base[c], c) \in Seq(FileCalls) /\ Len(Append(base[c], c)) \in 1 .. MaxFileSize
  <2>1. Len(base[c]) \in Nat /\ Len(Append(base[c], c)) = Len(base[c]) + 1 /\ Append(base[c], c) \in Seq(FileCalls)
    BY <1>5, AppendProperties, LenProperties
  <2>. QED  BY <1>5, <2>1, FilesFacts
<1>7. CASE opened[c] = inode
  <2>1. content' = Append(base[c], c) /\ partial' \in IF c \in overlaps THEN BOOLEAN ELSE {FALSE}
    BY <1>7 DEF Files!Rewrites
  <2>2. Files!TypeOK'
    BY <1>1, <1>2, <1>3, <1>6, <2>1 DEF Files!TypeOK
  <2>3. PartialIsBlamed' /\ WholeFits'
    BY <1>1, <1>4, <1>6, <2>1 DEF PartialIsBlamed, Blamed, WholeFits
  <2>. QED  BY <1>4, <2>2, <2>3 DEF FilesInv
<1>8. CASE opened[c] # inode
  <2>1. UNCHANGED <<content, partial>>
    BY <1>8 DEF Files!Rewrites
  <2>2. Files!TypeOK'
    BY <1>1, <1>2, <1>3, <2>1 DEF Files!TypeOK
  <2>3. PartialIsBlamed' /\ WholeFits'
    BY <1>1, <1>2, <1>3, <1>8, <2>1 DEF PartialIsBlamed, Blamed, WholeFits
  <2>. QED  BY <1>4, <2>2, <2>3 DEF FilesInv
<1>. QED  BY <1>7, <1>8

LEMMA FilesStep == FilesInv /\ [Files!Next]_(Files!vars) => FilesInv'
<1>. SUFFICES ASSUME FilesInv, [Files!Next]_(Files!vars) PROVE FilesInv'
  OBVIOUS
<1>1. CASE UNCHANGED Files!vars
  BY <1>1 DEF Files!vars, FilesInv, Files!TypeOK, CallsInOrder, PartialIsBlamed, Blamed, WholeFits
<1>2. CASE Files!Next
  BY <1>2, UploadStep, CommitStep, EditStep, TruncateStep, RewriteStep DEF Files!Next
<1>. QED  BY <1>1, <1>2

LEMMA FilesFollow == FilesInv => Files!TypeOK /\ Files!FilesAreSound
<1>. SUFFICES ASSUME FilesInv PROVE Files!TypeOK /\ Files!FilesAreSound
  OBVIOUS
<1>1. Files!TypeOK /\ CallsInOrder /\ PartialIsBlamed /\ WholeFits
  BY DEF FilesInv
<1>2. Files!FilesAreWhole
  BY <1>1 DEF Files!FilesAreWhole, PartialIsBlamed, Blamed, WholeFits
<1>3. Files!NothingIsLeft
  BY <1>1 DEF Files!NothingIsLeft, CallsInOrder, Files!Ended
<1>. QED  BY <1>1, <1>2, <1>3 DEF Files!FilesAreSound
-----------------------------------------------------------------------------
(* Paths.                                                                  *)


-----------------------------------------------------------------------------
(* Sequences.                                                              *)

(* Two sequences of which one starts with the other.                       *)
LEMMA FirstParts ==
    ASSUME NEW T, NEW s \in Seq(T), NEW t \in Seq(T), Len(s) <= Len(t)
    PROVE  LET r == SubSeq(t, 1, Len(s)) IN
           r \in Seq(T) /\ Len(r) = Len(s) /\ \A i \in 1 .. Len(s) : r[i] = t[i]
<1> DEFINE n == Len(s)
           r == SubSeq(t, 1, n)
<1>1. n \in Nat /\ Len(t) \in Nat
  BY LenProperties
<1>2. \A i \in 1 .. n : t[i] \in T
  BY <1>1, ElementOfSeq
<1>3. 1 \in Int /\ n \in Int
  BY <1>1
<1>4. /\ r \in Seq(T) /\ Len(r) = (IF 1 <= n THEN n - 1 + 1 ELSE 0)
      /\ \A i \in 1 .. n - 1 + 1 : r[i] = t[1 + i - 1]
  BY <1>2, <1>3, SubSeqProperties
<1> HIDE DEF n, r
<1>5. Len(r) = n
  BY <1>1, <1>4
<1>6. ASSUME NEW i \in 1 .. n PROVE r[i] = t[i]
  <2>1. i \in 1 .. n - 1 + 1 /\ 1 + i - 1 = i
    BY <1>1
  <2> QED BY <1>4, <2>1
<1> QED BY <1>4, <1>5, <1>6 DEF n, r

LEMMA PrefixIs ==
    ASSUME NEW T, NEW s \in Seq(T), NEW t \in Seq(T), Paths!IsPrefix(s, t)
    PROVE  Len(s) <= Len(t) /\ \A i \in 1 .. Len(s) : s[i] = t[i]
<1>1. Len(s) <= Len(t) /\ SubSeq(s, 1, Len(s)) = SubSeq(t, 1, Len(s))
  BY DEF Paths!IsPrefix
<1>2. Len(s) <= Len(s)
  BY LenProperties
<1>3. \A i \in 1 .. Len(s) : SubSeq(s, 1, Len(s))[i] = s[i]
  BY <1>2, FirstParts
<1>4. \A i \in 1 .. Len(s) : SubSeq(t, 1, Len(s))[i] = t[i]
  BY <1>1, FirstParts
<1> QED BY <1>1, <1>3, <1>4

LEMMA PrefixWhen ==
    ASSUME NEW T, NEW s \in Seq(T), NEW t \in Seq(T), Len(s) <= Len(t),
           \A i \in 1 .. Len(s) : s[i] = t[i]
    PROVE  Paths!IsPrefix(s, t)
<1> DEFINE r == SubSeq(t, 1, Len(s))
<1>1. SubSeq(s, 1, Len(s)) = s
  BY SubSeqFull
<1>2. r \in Seq(T) /\ Len(r) = Len(s) /\ \A i \in 1 .. Len(s) : r[i] = t[i]
  BY FirstParts
<1> HIDE DEF r
<1>3. Len(s) = Len(r) /\ \A i \in 1 .. Len(s) : s[i] = r[i]
  BY <1>2
<1>4. s = r
  BY <1>2, <1>3, SeqEqual
<1> QED BY <1>1, <1>4 DEF Paths!IsPrefix, r

LEMMA FrontProperties ==
    ASSUME NEW T, NEW s \in Seq(T), s # <<>>
    PROVE  /\ Paths!Front(s) \in Seq(T) /\ Len(Paths!Front(s)) = Len(s) - 1 /\ Len(s) \in Nat \ {0}
           /\ \A i \in 1 .. Len(s) - 1 : Paths!Front(s)[i] = s[i]
<1> DEFINE f == SubSeq(s, 1, Len(s) - 1)
<1>1. Len(s) \in Nat \ {0}
  BY EmptySeq
<1>2. \A i \in 1 .. Len(s) - 1 : s[i] \in T
  BY <1>1, ElementOfSeq
<1>3. /\ f \in Seq(T)
      /\ Len(f) = (IF 1 <= Len(s) - 1 THEN Len(s) - 1 - 1 + 1 ELSE 0)
      /\ \A i \in 1 .. Len(s) - 1 - 1 + 1 : f[i] = s[1 + i - 1]
  <2>1. 1 \in Int /\ Len(s) - 1 \in Int
    BY <1>1
  <2> QED BY <1>2, <2>1, SubSeqProperties
<1> DEFINE n == Len(s)
<1> HIDE DEF f
<1>4. Len(f) = Len(s) - 1
  <2>1. n \in Nat \ {0} /\ Len(f) = IF 1 <= n - 1 THEN n - 1 - 1 + 1 ELSE 0
    BY <1>1, <1>3
  <2> HIDE DEF n
  <2>2. Len(f) = n - 1
    <3>1. CASE 1 <= n - 1
      BY <2>1, <3>1
    <3>2. CASE ~(1 <= n - 1)
      BY <2>1, <3>2
    <3> QED BY <3>1, <3>2
  <2> QED BY <2>2 DEF n
<1>5. ASSUME NEW i \in 1 .. Len(s) - 1 PROVE f[i] = s[i]
  <2>1. i \in 1 .. Len(s) - 1 - 1 + 1 /\ 1 + i - 1 = i
    BY <1>1
  <2> QED BY <1>3, <2>1
<1> QED BY <1>1, <1>3, <1>4, <1>5 DEF Paths!Front, f

-----------------------------------------------------------------------------
(* Walking a path.                                                         *)

LEMMA TreadType ==
    ASSUME NEW done \in Seq(Paths!Plain), NEW name \in PathNames PROVE Paths!Tread(done, name) \in Seq(Paths!Plain)
<1>1. CASE name = "."
  BY <1>1 DEF Paths!Tread
<1>2. CASE name = ".."
  <2>1. <<>> \in Seq(Paths!Plain)
    OBVIOUS
  <2>2. done # <<>> => Paths!Front(done) \in Seq(Paths!Plain)
    BY FrontProperties
  <2> QED BY <1>2, <2>1, <2>2 DEF Paths!Tread
<1>3. CASE name \in Paths!Plain
  <2>1. Append(done, name) \in Seq(Paths!Plain)
    BY <1>3, AppendProperties
  <2> QED BY <1>3, <2>1 DEF Paths!Tread, Paths!Plain
<1> QED BY <1>1, <1>2, <1>3 DEF Paths!Plain

(* A function that walks the first n components.                           *)
Walks(w, parts, n) ==
    /\ w \in [0 .. n -> Seq(Paths!Plain)] /\ w[0] = <<>>
    /\ \A i \in 1 .. n : w[i] = Paths!Tread(w[i - 1], parts[i])

LEMMA WalkExists ==
    ASSUME NEW parts \in Seq(PathNames), NEW n \in 0 .. Len(parts)
    PROVE  \E w : Walks(w, parts, n)
<1> DEFINE Bad == {m \in 0 .. Len(parts) : ~\E w : Walks(w, parts, m)}
<1>1. Len(parts) \in Nat
  BY LenProperties
<1> SUFFICES ASSUME Bad # {} PROVE FALSE
  OBVIOUS
<1>2. Bad \in SUBSET Nat
  BY <1>1
<1>3. PICK m \in Bad : \A k \in Bad : m <= k
  <2> HIDE DEF Bad
  <2> QED BY <1>2, LeastOfSet
<1>4. m # 0
  <2>1. <<>> \in Seq(Paths!Plain)
    OBVIOUS
  <2>2. Walks([i \in 0 .. 0 |-> <<>>], parts, 0)
    BY <2>1 DEF Walks
  <2> QED BY <2>2
<1>5. m - 1 \in 0 .. Len(parts) /\ m \in 1 .. Len(parts) /\ m - 1 \notin Bad
  BY <1>1, <1>3, <1>4
<1>6. PICK w : Walks(w, parts, m - 1)
  BY <1>5
<1> DEFINE v == [i \in 0 .. m |-> IF i = m THEN Paths!Tread(w[m - 1], parts[m]) ELSE w[i]]
<1>7. parts[m] \in PathNames
  BY <1>5, ElementOfSeq
<1>8. Paths!Tread(w[m - 1], parts[m]) \in Seq(Paths!Plain)
  <2>1. w[m - 1] \in Seq(Paths!Plain)
    BY <1>5, <1>6 DEF Walks
  <2> QED BY <1>7, <2>1, TreadType
<1>9. \A i \in 0 .. m : v[i] = (IF i = m THEN Paths!Tread(w[m - 1], parts[m]) ELSE w[i])
                        /\ v[i] \in Seq(Paths!Plain)
  BY <1>1, <1>5, <1>6, <1>8 DEF Walks
<1>10. v \in [0 .. m -> Seq(Paths!Plain)]
  BY <1>9
<1> HIDE DEF v, Bad
<1>11. v[0] = <<>>
  BY <1>1, <1>5, <1>6, <1>9 DEF Walks
<1>12. ASSUME NEW i \in 1 .. m PROVE v[i] = Paths!Tread(v[i - 1], parts[i])
  <2>1. i \in 0 .. m /\ i - 1 \in 0 .. m /\ i - 1 # m /\ v[i - 1] = w[i - 1]
    BY <1>1, <1>5, <1>9
  <2>2. CASE i = m
    BY <1>9, <2>1, <2>2
  <2>3. CASE i # m
    <3>1. i \in 1 .. m - 1
      BY <1>1, <1>5, <2>3
    <3> QED BY <1>6, <1>9, <2>1, <2>3, <3>1 DEF Walks
  <2> QED BY <2>2, <2>3
<1>13. Walks(v, parts, m)
  BY <1>10, <1>11, <1>12 DEF Walks
<1> QED BY <1>3, <1>13 DEF Bad

LEMMA WalkedWalks ==
    ASSUME NEW parts \in Seq(PathNames)
    PROVE  Walks(Paths!Walked(parts), parts, Len(parts)) /\ Len(parts) \in Nat
<1> DEFINE n == Len(parts)
           Is(w) == w = [i \in 0 .. n |-> IF i = 0 THEN <<>> ELSE Paths!Tread(w[i - 1], parts[i])]
<1>1. n \in Nat
  BY LenProperties
<1>2. PICK w : Walks(w, parts, n)
  <2>1. n \in 0 .. Len(parts)
    BY <1>1
  <2> QED BY <2>1, WalkExists
<1>3. Is(w)
  <2>1. \A i \in 0 .. n : w[i] = IF i = 0 THEN <<>> ELSE Paths!Tread(w[i - 1], parts[i])
    BY <1>1, <1>2 DEF Walks
  <2> QED BY <1>2, <2>1 DEF Walks
<1>4. Paths!Walked(parts) = CHOOSE x : Is(x)
  BY DEF Paths!Walked
<1>5. Is(Paths!Walked(parts))
  <2> HIDE DEF Is
  <2> QED BY <1>3, <1>4
<1> DEFINE x == Paths!Walked(parts)
<1>6. \A i \in 0 .. n : x[i] = IF i = 0 THEN <<>> ELSE Paths!Tread(x[i - 1], parts[i])
  BY <1>5
<1>7. DOMAIN x = 0 .. n /\ x = [i \in 0 .. n |-> x[i]]
  BY <1>5
<1> HIDE DEF Is, x
<1>8. \A i \in 0 .. n : x[i] = w[i]
  <2> DEFINE Bad == {i \in 0 .. n : x[i] # w[i]}
  <2> SUFFICES ASSUME Bad # {} PROVE FALSE
    OBVIOUS
  <2>1. Bad \in SUBSET Nat
    BY <1>1
  <2>2. PICK m \in Bad : \A k \in Bad : m <= k
    <3> HIDE DEF Bad
    <3> QED BY <2>1, LeastOfSet
  <2>3. m \in 1 .. n /\ m \in 0 .. n
    BY <1>1, <1>2, <1>6, <2>2 DEF Walks
  <2>4. m - 1 \in 0 .. n /\ m - 1 \notin Bad
    BY <1>1, <2>2, <2>3
  <2>5. x[m - 1] = w[m - 1]
    BY <2>4
  <2>6. x[m] = Paths!Tread(x[m - 1], parts[m]) /\ w[m] = Paths!Tread(w[m - 1], parts[m])
    BY <1>1, <1>2, <1>6, <2>3 DEF Walks
  <2> QED BY <2>2, <2>5, <2>6
<1>9. x = w
  BY <1>2, <1>7, <1>8 DEF Walks
<1> QED BY <1>1, <1>2, <1>9 DEF x

(* Where nothing is "." or "..", the walk has the components walked.       *)
LEMMA PlainWalk ==
    ASSUME NEW parts \in Seq(Paths!Plain)
    PROVE  Paths!Walked(parts)[Len(parts)] = parts
<1> DEFINE w == Paths!Walked(parts)
           n == Len(parts)
           Copies(m) == Len(w[m]) = m /\ \A i \in 1 .. m : w[m][i] = parts[i]
           Bad == {m \in 0 .. n : ~Copies(m)}
<1>1. parts \in Seq(PathNames)
  <2>1. Paths!Plain \subseteq PathNames
    BY DEF Paths!Plain
  <2> QED BY <2>1, SeqMonotonic
<1>2. Walks(w, parts, n) /\ n \in Nat
  BY <1>1, WalkedWalks
<1> HIDE DEF w
<1>3. \A m \in 0 .. n : w[m] \in Seq(Paths!Plain)
  BY <1>2 DEF Walks
<1>4. Bad = {}
  <2> SUFFICES ASSUME Bad # {} PROVE FALSE
    OBVIOUS
  <2>1. Bad \in SUBSET Nat
    BY <1>2
  <2>2. PICK m \in Bad : \A k \in Bad : m <= k
    <3> HIDE DEF Bad
    <3> QED BY <2>1, LeastOfSet
  <2>3. m # 0
    <3>1. w[0] = <<>> /\ Len(<<>>) = 0
      BY <1>2 DEF Walks
    <3> QED BY <2>2, <3>1
  <2>4. m \in 1 .. n /\ m - 1 \in 0 .. n /\ m - 1 \notin Bad /\ ~Copies(m)
    BY <1>2, <2>2, <2>3
  <2>5. Copies(m - 1)
    BY <2>4
  <2>6. parts[m] \in Paths!Plain
    BY <2>4, ElementOfSeq
  <2>7. w[m] = Append(w[m - 1], parts[m])
    BY <1>2, <2>4, <2>6 DEF Walks, Paths!Tread, Paths!Plain
  <2>8. w[m - 1] \in Seq(Paths!Plain)
    BY <1>3, <2>4
  <2>9. /\ Len(w[m]) = Len(w[m - 1]) + 1 /\ w[m][Len(w[m - 1]) + 1] = parts[m]
        /\ \A i \in 1 .. Len(w[m - 1]) : w[m][i] = w[m - 1][i]
    BY <2>6, <2>7, <2>8, AppendProperties
  <2>10. Copies(m)
    <3>1. Len(w[m - 1]) = m - 1 /\ m \in Nat \ {0}
      BY <1>2, <2>4, <2>5
    <3>2. ASSUME NEW i \in 1 .. m PROVE w[m][i] = parts[i]
      <4>1. CASE i = m
        BY <2>9, <3>1, <4>1
      <4>2. CASE i # m
        <5>1. i \in 1 .. m - 1
          BY <3>1, <4>2
        <5> QED BY <2>5, <2>9, <3>1, <5>1
      <4> QED BY <4>1, <4>2
    <3> QED BY <2>9, <3>1, <3>2
  <2> QED BY <2>4, <2>10
<1>5. Len(w[n]) = n /\ \A i \in 1 .. n : w[n][i] = parts[i]
  BY <1>2, <1>4
<1>6. w[n] \in Seq(Paths!Plain)
  BY <1>2, <1>3
<1>7. w[n] = parts
  <2>1. Len(w[n]) = Len(parts) /\ \A i \in 1 .. Len(w[n]) : w[n][i] = parts[i]
    BY <1>5
  <2> QED BY <1>6, <2>1, SeqEqual
<1> QED BY <1>7 DEF w

(* A component that no later ".." takes back stays where it was put.       *)
LEMMA KeptStays ==
    ASSUME NEW parts \in Seq(PathNames) PROVE Paths!Goes(parts, Paths!Walked(parts)[Len(parts)])
<1> DEFINE w == Paths!Walked(parts)
           n == Len(parts)
<1>1. Walks(w, parts, n) /\ n \in Nat
  BY WalkedWalks
<1>2. \A i \in 0 .. n : Paths!Depths(parts)[i] = Len(w[i])
  BY DEF Paths!Depths
<1> HIDE DEF w
<1>3. \A m \in 0 .. n : w[m] \in Seq(Paths!Plain) /\ Len(w[m]) \in Nat
  <2>1. \A m \in 0 .. n : w[m] \in Seq(Paths!Plain)
    BY <1>1 DEF Walks
  <2> QED BY <2>1, LenProperties
<1>4. ASSUME NEW i \in Paths!Kept(parts) PROVE w[n][Len(w[i])] = parts[i]
  <2>1. i \in 1 .. n /\ parts[i] \notin {".", ".."}
    BY DEF Paths!Kept
  <2>2. \A j \in i .. n : Len(w[j]) >= Len(w[i])
    <3>1. \A j \in i .. n : j \in 0 .. n /\ Paths!Depths(parts)[j] >= Paths!Depths(parts)[i] /\ i \in 0 .. n
      BY <1>1, <2>1 DEF Paths!Kept
    <3> QED BY <1>2, <3>1
  <2>3. w[i] = Append(w[i - 1], parts[i]) /\ parts[i] \in Paths!Plain /\ w[i - 1] \in Seq(Paths!Plain)
    <3>1. parts[i] \in PathNames
      BY <2>1, ElementOfSeq
    <3>2. i - 1 \in 0 .. n
      BY <1>1, <2>1
    <3>3. w[i] = Paths!Tread(w[i - 1], parts[i])
      BY <1>1, <2>1 DEF Walks
    <3> QED BY <1>3, <2>1, <3>1, <3>2, <3>3 DEF Paths!Tread, Paths!Plain
  <2> DEFINE d == Len(w[i])
             Bad == {j \in i .. n : w[j][d] # parts[i]}
  <2>4. d \in Nat \ {0} /\ w[i][d] = parts[i]
    <3>1. /\ Len(w[i]) = Len(w[i - 1]) + 1 /\ w[i][Len(w[i - 1]) + 1] = parts[i]
      BY <2>3, AppendProperties
    <3>2. Len(w[i - 1]) \in Nat
      BY <2>3, LenProperties
    <3> QED BY <3>1, <3>2
  <2>5. Bad = {}
    <3> SUFFICES ASSUME Bad # {} PROVE FALSE
      OBVIOUS
    <3>1. Bad \in SUBSET Nat
      BY <1>1, <2>1
    <3>2. PICK j \in Bad : \A k \in Bad : j <= k
      <4> HIDE DEF Bad
      <4> QED BY <3>1, LeastOfSet
    <3>3. j # i /\ j \in i .. n
      BY <2>4, <3>2
    <3>4. j \in 1 .. n /\ j - 1 \in i .. n /\ j - 1 \in 0 .. n /\ j \in 0 .. n /\ j - 1 \notin Bad
      BY <1>1, <2>1, <3>2, <3>3
    <3>5. w[j - 1][d] = parts[i]
      BY <3>4
    <3>6. w[j] = Paths!Tread(w[j - 1], parts[j]) /\ parts[j] \in PathNames
      <4>1. parts[j] \in PathNames
        BY <3>4, ElementOfSeq
      <4> QED BY <1>1, <3>4, <4>1 DEF Walks
    <3>7. w[j - 1] \in Seq(Paths!Plain) /\ Len(w[j - 1]) \in Nat /\ Len(w[j]) \in Nat
      BY <1>3, <3>4
    <3>8. Len(w[j]) >= d /\ Len(w[j - 1]) >= d
      BY <2>2, <3>3, <3>4
    <3> HIDE DEF d
    <3>9. w[j][d] = w[j - 1][d]
      <4>1. CASE parts[j] = "."
        BY <3>6, <4>1 DEF Paths!Tread
      <4>2. CASE parts[j] = ".."
        <5>1. w[j - 1] # <<>>
          <6>1. Len(<<>>) = 0
            OBVIOUS
          <6> QED BY <2>4, <3>8, <6>1
        <5>2. w[j] = Paths!Front(w[j - 1])
          BY <3>6, <4>2, <5>1 DEF Paths!Tread
        <5>3. /\ Len(w[j]) = Len(w[j - 1]) - 1
              /\ \A k \in 1 .. Len(w[j - 1]) - 1 : w[j][k] = w[j - 1][k]
          BY <3>7, <5>1, <5>2, FrontProperties
        <5>4. d \in 1 .. Len(w[j - 1]) - 1
          BY <2>4, <3>7, <3>8, <5>3
        <5> QED BY <5>3, <5>4
      <4>3. CASE parts[j] \in Paths!Plain
        <5>1. w[j] = Append(w[j - 1], parts[j])
          BY <3>6, <4>3 DEF Paths!Tread, Paths!Plain
        <5>2. \A k \in 1 .. Len(w[j - 1]) : w[j][k] = w[j - 1][k]
          BY <3>7, <4>3, <5>1, AppendProperties
        <5>3. d \in 1 .. Len(w[j - 1])
          BY <2>4, <3>7, <3>8
        <5> QED BY <5>2, <5>3
      <4> QED BY <3>6, <4>1, <4>2, <4>3 DEF Paths!Plain
    <3>10. w[j][d] # parts[i]
      BY <3>2
    <3> QED BY <3>5, <3>9, <3>10
  <2>6. n \in i .. n
    BY <1>1, <2>1
  <2> QED BY <2>5, <2>6
<1>5. n \in 0 .. n /\ \A i \in Paths!Kept(parts) : i \in 0 .. n
  BY <1>1 DEF Paths!Kept
<1> QED BY <1>2, <1>4, <1>5 DEF Paths!Goes, w

-----------------------------------------------------------------------------
(* Resolving.                                                              *)

WrittenPaths == [lead : Paths!Slashes, parts : Seq(PathNames)]

LEMMA UploadsPlain ==
    /\ Paths!Uploads \in Seq(Paths!Plain) /\ Len(Paths!Uploads) = Len(PathRoot) + 1 /\ Len(PathRoot) \in Nat
    /\ \A i \in 1 .. Len(PathRoot) : Paths!Uploads[i] = PathRoot[i]
<1>1. PathRoot \in Seq(Paths!Plain)
  BY SandboxAssumption DEF Paths!PathsAssumption
<1>2. "uploads" \in Paths!Plain
  BY SandboxAssumption DEF Paths!PathsAssumption, Paths!Plain
<1> QED BY <1>1, <1>2, AppendProperties, LenProperties DEF Paths!Uploads

LEMMA PlainIsString == ASSUME NEW s \in Seq(Paths!Plain) PROVE s \in Seq(PathNames)
<1>1. Paths!Plain \subseteq PathNames
  BY DEF Paths!Plain
<1> QED BY <1>1, SeqMonotonic

LEMMA JoinedPath ==
    ASSUME NEW dir \in Seq(Paths!Plain), NEW path \in WrittenPaths
    PROVE  /\ Paths!Joined(dir, path) \in WrittenPaths
           /\ path.lead = "" => Paths!Joined(dir, path) = Paths!Absolute(dir \o path.parts)
<1>1. dir \o path.parts \in Seq(PathNames)
  BY PlainIsString, ConcatProperties DEF WrittenPaths
<1>2. path.lead \in Paths!Slashes /\ path \in WrittenPaths
  BY DEF WrittenPaths
<1>3. Paths!Absolute(dir \o path.parts) \in WrittenPaths
  BY <1>1 DEF Paths!Absolute, Paths!Path, WrittenPaths, Paths!Slashes
<1> QED BY <1>2, <1>3 DEF Paths!Joined

(* Whatever is resolved lies under the directory it must stay in, without  *)
(* "." and "..", where the walk leads.                                     *)
LEMMA Resolved ==
    ASSUME NEW dir \in Seq(Paths!Plain), NEW path \in WrittenPaths, NEW allowed \in Seq(Paths!Plain),
           Paths!Resolve(path, dir, allowed) # Paths!Refused
    PROVE  LET r == Paths!Resolve(path, dir, allowed) IN
           /\ r = Paths!Absolute(r.parts) /\ r.parts \in Seq(Paths!Plain) /\ Paths!IsPrefix(allowed, r.parts)
           /\ Paths!Goes(Paths!Joined(dir, path).parts, r.parts)
<1> DEFINE r == Paths!Resolve(path, dir, allowed)
           q == Paths!Joined(dir, path)
<1>1. r = Paths!Normalized(q) /\ Paths!Under(Paths!Normalized(q), allowed)
  BY DEF Paths!Resolve
<1>2. q \in WrittenPaths
  BY JoinedPath
<1>3. q.parts \in Seq(PathNames)
  BY <1>2 DEF WrittenPaths
<1> HIDE DEF r, q
<1>4. r.parts = Paths!Walked(q.parts)[Len(q.parts)] /\ r.lead = q.lead /\ r = Paths!Path(r.lead, r.parts)
  BY <1>1 DEF Paths!Normalized, Paths!Path
<1>5. r.parts \in Seq(Paths!Plain)
  BY <1>3, <1>4, WalkedWalks DEF Walks
<1>6. r.lead = "/" /\ Paths!IsPrefix(allowed, r.parts)
  BY <1>1 DEF Paths!Under
<1>7. Paths!Goes(q.parts, r.parts)
  BY <1>3, <1>4, KeptStays
<1> QED BY <1>4, <1>5, <1>6, <1>7 DEF Paths!Absolute, r, q

LEMMA NotItselfIs ==
    ASSUME NEW p, NEW dir, Paths!NotItself(p, dir) # Paths!Refused
    PROVE  Paths!NotItself(p, dir) = p /\ p # Paths!Absolute(dir)
BY DEF Paths!NotItself

(* An uploaded file lies strictly below the uploads.                       *)
LEMMA AttachmentLies ==
    ASSUME NEW path \in WrittenPaths, Paths!Attachment(path, TRUE) # Paths!Refused
    PROVE  LET at == Paths!Attachment(path, TRUE) IN
           /\ at = Paths!Absolute(at.parts) /\ at.parts \in Seq(Paths!Plain)
           /\ Paths!IsStrictPrefix(Paths!Uploads, at.parts)
           /\ Paths!Goes(Paths!Joined(IF Paths!NamesUploads(path) THEN PathRoot ELSE Paths!Uploads, path).parts, at.parts)
<1> DEFINE dir == IF Paths!NamesUploads(path) THEN PathRoot ELSE Paths!Uploads
           r == Paths!Resolve(path, dir, Paths!Uploads)
<1>1. Paths!Attachment(path, TRUE) = r /\ r # Paths!Absolute(Paths!Uploads) /\ r # Paths!Refused
  BY NotItselfIs DEF Paths!Attachment
<1>2. dir \in Seq(Paths!Plain) /\ Paths!Uploads \in Seq(Paths!Plain)
  BY SandboxAssumption, UploadsPlain DEF Paths!PathsAssumption
<1> HIDE DEF dir
<1>3. /\ r = Paths!Absolute(r.parts) /\ r.parts \in Seq(Paths!Plain) /\ Paths!IsPrefix(Paths!Uploads, r.parts)
      /\ Paths!Goes(Paths!Joined(dir, path).parts, r.parts)
  BY <1>1, <1>2, Resolved
<1> HIDE DEF r
<1>4. r.parts # Paths!Uploads
  BY <1>1, <1>3
<1> QED BY <1>1, <1>3, <1>4 DEF Paths!IsStrictPrefix, dir

LEMMA PathFields ==
    \A lead, parts : Paths!Path(lead, parts).lead = lead /\ Paths!Path(lead, parts).parts = parts
BY DEF Paths!Path

(* The relative path of a file below the conversation finds the file.      *)
LEMMA RelativeFinds ==
    ASSUME NEW at, NEW p \in Seq(Paths!Plain), at = Paths!Absolute(p), Paths!IsPrefix(PathRoot, p), p # PathRoot
    PROVE  Paths!Attachment(Paths!Relative(at), FALSE) = at
<1> DEFINE rest == SubSeq(p, Len(PathRoot) + 1, Len(p))
           k == Len(PathRoot)
<1>1. PathRoot \in Seq(Paths!Plain) /\ k \in Nat /\ Len(p) \in Nat
  BY SandboxAssumption, LenProperties DEF Paths!PathsAssumption
<1>2. k <= Len(p) /\ \A i \in 1 .. k : PathRoot[i] = p[i]
  BY <1>1, PrefixIs
<1>3. Paths!Relative(at) = Paths!Path("", rest)
  BY PathFields DEF Paths!Relative, Paths!Absolute
<1>4. /\ rest \in Seq(Paths!Plain) /\ Len(rest) = Len(p) - k
      /\ \A i \in 1 .. Len(p) - k : rest[i] = p[i + k]
  <2>1. \A i \in k + 1 .. Len(p) : p[i] \in Paths!Plain
    BY <1>1, ElementOfSeq
  <2>2. k + 1 \in Int /\ Len(p) \in Int
    BY <1>1
  <2>3. /\ rest \in Seq(Paths!Plain)
        /\ Len(rest) = IF k + 1 <= Len(p) THEN Len(p) - (k + 1) + 1 ELSE 0
        /\ \A i \in 1 .. Len(p) - (k + 1) + 1 : rest[i] = p[k + 1 + i - 1]
    BY <2>1, <2>2, SubSeqProperties
  <2> HIDE DEF rest
  <2>4. Len(rest) = Len(p) - k
    BY <1>1, <1>2, <2>3
  <2>5. ASSUME NEW i \in 1 .. Len(p) - k PROVE rest[i] = p[i + k]
    <3>1. i \in 1 .. Len(p) - (k + 1) + 1 /\ k + 1 + i - 1 = i + k
      BY <1>1
    <3> QED BY <2>3, <3>1
  <2> QED BY <2>3, <2>4, <2>5
<1> HIDE DEF rest, k
<1>5. PathRoot \o rest = p
  <2>1. /\ PathRoot \o rest \in Seq(Paths!Plain) /\ Len(PathRoot \o rest) = k + Len(rest)
        /\ \A i \in 1 .. k + Len(rest) :
               (PathRoot \o rest)[i] = IF i <= k THEN PathRoot[i] ELSE rest[i - k]
    BY <1>1, <1>4, ConcatProperties DEF k
  <2>2. Len(PathRoot \o rest) = Len(p)
    BY <1>1, <1>4, <2>1
  <2>3. ASSUME NEW i \in 1 .. Len(p) PROVE (PathRoot \o rest)[i] = p[i]
    <3>1. (PathRoot \o rest)[i] = IF i <= k THEN PathRoot[i] ELSE rest[i - k]
      BY <1>1, <1>4, <2>1
    <3>2. CASE i <= k
      <4>1. i \in 1 .. k
        BY <1>1, <3>2
      <4> QED BY <1>2, <3>1, <3>2, <4>1
    <3>3. CASE ~(i <= k)
      <4>1. i - k \in 1 .. Len(p) - k /\ i - k + k = i
        BY <1>1, <3>3
      <4> QED BY <1>4, <3>1, <3>3, <4>1
    <3> QED BY <3>2, <3>3
  <2>4. \A i \in 1 .. Len(PathRoot \o rest) : (PathRoot \o rest)[i] = p[i]
    BY <2>2, <2>3
  <2> QED BY <2>1, <2>2, <2>4, SeqEqual
<1>6. Paths!Joined(PathRoot, Paths!Path("", rest)) = Paths!Absolute(p)
  BY <1>5, PathFields DEF Paths!Joined
<1>7. Paths!Normalized(Paths!Absolute(p)) = Paths!Absolute(p)
  BY PlainWalk, PathFields DEF Paths!Normalized, Paths!Absolute
<1>8. Paths!Under(Paths!Absolute(p), PathRoot)
  BY PathFields DEF Paths!Under, Paths!Absolute
<1>9. rest # <<>>
  <2> SUFFICES ASSUME rest = <<>> PROVE FALSE
    OBVIOUS
  <2>1. Len(rest) = 0
    OBVIOUS
  <2>2. Len(PathRoot) = Len(p)
    BY <1>1, <1>4, <2>1 DEF k
  <2>3. PathRoot = p
    BY <1>1, <1>2, <2>2, SeqEqual DEF k
  <2> QED BY <2>3
<1>10. Paths!Path("", rest) # Paths!Path("", <<>>)
  <2>1. Paths!Path("", rest).parts = rest /\ Paths!Path("", <<>>).parts = <<>>
    BY PathFields
  <2> QED BY <1>9, <2>1
<1>11. Paths!Resolve(Paths!Path("", rest), PathRoot, PathRoot) = Paths!Absolute(p)
  BY <1>6, <1>7, <1>8, <1>10 DEF Paths!Resolve
<1>12. Paths!Absolute(p) # Paths!Absolute(PathRoot)
  BY PathFields DEF Paths!Absolute
<1> QED BY <1>3, <1>11, <1>12 DEF Paths!Attachment, Paths!NotItself

(* An artifact lies strictly below the conversation, and none of its       *)
(* components is hidden or a step back.                                    *)
LEMMA ArtifactIsPublic ==
    ASSUME NEW path \in WrittenPaths, NEW dir \in {PathRoot, PathSession}, Paths!Artifact(path, dir) # Paths!Refused
    PROVE  LET p == Paths!Artifact(path, dir).parts IN
           /\ Paths!IsStrictPrefix(PathRoot, p)
           /\ \A i \in DOMAIN p : p[i] \notin HiddenNames \cup {".", ".."}
<1> DEFINE r == Paths!Resolve(path, dir, dir)
           k == Len(PathRoot)
<1>1. Paths!Artifact(path, dir) = r /\ Paths!Public(r) /\ r # Paths!Refused
  BY NotItselfIs DEF Paths!Artifact
<1>2. PathRoot \in Seq(Paths!Plain) /\ dir \in Seq(Paths!Plain) /\ PathSession \in Seq(Paths!Plain)
  BY SandboxAssumption DEF Paths!PathsAssumption
<1>3. r = Paths!Absolute(r.parts) /\ r.parts \in Seq(Paths!Plain) /\ Paths!IsPrefix(dir, r.parts)
  BY <1>1, <1>2, Resolved
<1> HIDE DEF r
<1> DEFINE p == r.parts
           rest == SubSeq(p, Len(PathRoot) + 1, Len(p))
<1>4. k \in Nat /\ Len(p) \in Nat /\ Len(dir) \in Nat /\ DOMAIN p = 1 .. Len(p)
      /\ DOMAIN PathRoot = 1 .. k
  BY <1>2, <1>3, LenProperties
<1>5. k <= Len(dir) /\ \A i \in 1 .. k : PathRoot[i] = dir[i]
  <2>1. Paths!IsPrefix(PathRoot, dir)
    <3>1. CASE dir = PathRoot
      <4>1. Len(PathRoot) <= Len(PathRoot)
        BY <1>4
      <4> QED BY <1>2, <3>1, <4>1, PrefixWhen
    <3>2. CASE dir = PathSession
      BY <3>2, SandboxAssumption DEF Paths!PathsAssumption
    <3> QED BY <3>1, <3>2
  <2> QED BY <1>2, <2>1, PrefixIs
<1>6. Len(dir) <= Len(p) /\ \A i \in 1 .. Len(dir) : dir[i] = p[i]
  BY <1>2, <1>3, PrefixIs
<1>7. k <= Len(p) /\ \A i \in 1 .. k : PathRoot[i] = p[i]
  <2>1. k <= Len(p)
    BY <1>4, <1>5, <1>6
  <2>2. ASSUME NEW i \in 1 .. k PROVE PathRoot[i] = p[i]
    <3>1. i \in 1 .. Len(dir)
      BY <1>4, <1>5
    <3> QED BY <1>5, <1>6, <3>1
  <2> QED BY <2>1, <2>2
<1>8. rest # <<>> /\ \A i \in DOMAIN rest : rest[i] \notin HiddenNames
  <2>1. Paths!Relative(r).parts = rest
    BY PathFields DEF Paths!Relative
  <2> HIDE DEF rest
  <2> QED BY <1>1, <2>1 DEF Paths!Public
<1>9. /\ Len(rest) = Len(p) - k /\ DOMAIN rest = 1 .. Len(p) - k
      /\ \A i \in 1 .. Len(p) - k : rest[i] = p[i + k]
  <2>1. \A i \in k + 1 .. Len(p) : p[i] \in Paths!Plain
    BY <1>3, <1>4, ElementOfSeq
  <2>2. k + 1 \in Int /\ Len(p) \in Int
    BY <1>4
  <2>3. /\ rest \in Seq(Paths!Plain)
        /\ Len(rest) = IF k + 1 <= Len(p) THEN Len(p) - (k + 1) + 1 ELSE 0
        /\ \A i \in 1 .. Len(p) - (k + 1) + 1 : rest[i] = p[k + 1 + i - 1]
    BY <2>1, <2>2, SubSeqProperties
  <2> HIDE DEF rest
  <2>4. Len(rest) = Len(p) - k
    BY <1>4, <1>7, <2>3
  <2>5. ASSUME NEW i \in 1 .. Len(p) - k PROVE rest[i] = p[i + k]
    <3>1. i \in 1 .. Len(p) - (k + 1) + 1 /\ k + 1 + i - 1 = i + k
      BY <1>4
    <3> QED BY <2>3, <3>1
  <2>6. DOMAIN rest = 1 .. Len(rest)
    BY <2>3, LenProperties
  <2> QED BY <2>4, <2>5, <2>6
<1>10. p # PathRoot
  <2> SUFFICES ASSUME p = PathRoot PROVE FALSE
    OBVIOUS
  <2>1. rest = <<>>
    <3>1. Len(p) < Len(PathRoot) + 1 /\ Len(PathRoot) + 1 \in Int /\ Len(p) \in Int
      BY <1>4
    <3> QED BY <3>1, SubSeqEmpty
  <2> QED BY <1>8, <2>1
<1>11. Paths!IsStrictPrefix(PathRoot, p)
  <2>1. Paths!IsPrefix(PathRoot, p)
    BY <1>2, <1>3, <1>7, PrefixWhen
  <2> QED BY <1>10, <2>1 DEF Paths!IsStrictPrefix
<1>12. ASSUME NEW i \in DOMAIN p PROVE p[i] \notin HiddenNames \cup {".", ".."}
  <2>1. p[i] \notin {".", ".."}
    <3>1. i \in 1 .. Len(p)
      BY <1>4
    <3>2. p[i] \in Paths!Plain
      BY <1>3, <3>1, ElementOfSeq
    <3> QED BY <3>2 DEF Paths!Plain
  <2>2. CASE i <= k
    <3>1. i \in 1 .. k
      BY <1>4, <2>2
    <3> QED BY <1>4, <1>7, <2>1, <3>1, SandboxAssumption DEF Paths!PathsAssumption
  <2>3. CASE ~(i <= k)
    <3>1. i - k \in 1 .. Len(p) - k /\ i - k + k = i
      BY <1>4, <2>3
    <3>2. rest[i - k] = p[i] /\ i - k \in DOMAIN rest
      BY <1>9, <3>1
    <3> QED BY <1>8, <2>1, <3>2
  <2> QED BY <2>2, <2>3
<1> HIDE DEF p
<1> QED BY <1>1, <1>11, <1>12 DEF p

-----------------------------------------------------------------------------
(* The inductive invariant: what the answers were computed from.           *)

PathInv ==
    /\ asked \in WrittenPaths
    /\ attached \in {Paths!Refused, Paths!Attachment(asked, TRUE)}
    /\ found # Paths!Refused => Paths!Uploaded /\ found = Paths!Attachment(Paths!Relative(attached), FALSE)
    /\ artifact \in {Paths!Refused, Paths!Artifact(asked, PathRoot), Paths!Artifact(asked, PathSession)}

LEMMA PathInit == Paths!Init => PathInv
<1> SUFFICES ASSUME Paths!Init PROVE PathInv
  OBVIOUS
<1>1. asked \in WrittenPaths
  <2>1. PICK lead \in Paths!Slashes, parts \in Paths!SeqOf(PathNames, PathDepth) :
            asked = [lead |-> lead, parts |-> parts]
    BY DEF Paths!Init, Paths!Written
  <2>2. parts \in Seq(PathNames)
    BY DEF Paths!SeqOf
  <2> QED BY <2>1, <2>2 DEF WrittenPaths
<1> QED BY <1>1 DEF Paths!Init, PathInv

LEMMA PathStepKeeps == PathInv /\ [Paths!Next]_(Paths!pathVars) => PathInv'
<1> SUFFICES ASSUME PathInv, [Paths!Next]_(Paths!pathVars) PROVE PathInv'
  OBVIOUS
<1>1. CASE Paths!Upload
  BY <1>1 DEF Paths!Upload, PathInv, Paths!Uploaded
<1>2. CASE Paths!Download
  BY <1>2 DEF Paths!Download, PathInv, Paths!Uploaded
<1>3. CASE Paths!Offer
  BY <1>3 DEF Paths!Offer, PathInv, Paths!Uploaded
<1>4. CASE UNCHANGED Paths!pathVars
  BY <1>4 DEF Paths!pathVars, PathInv, Paths!Uploaded
<1> QED BY <1>1, <1>2, <1>3, <1>4 DEF Paths!Next

LEMMA PathFollows == PathInv => Paths!PathsLeadHome
<1> SUFFICES ASSUME PathInv PROVE Paths!PathsLeadHome
  OBVIOUS
<1>1. asked \in WrittenPaths
  BY DEF PathInv
<1>2. ASSUME Paths!Uploaded
      PROVE  /\ attached = Paths!Absolute(attached.parts) /\ attached.parts \in Seq(Paths!Plain)
             /\ Paths!IsStrictPrefix(Paths!Uploads, attached.parts)
             /\ Paths!Goes(Paths!Joined(IF Paths!NamesUploads(asked) THEN PathRoot ELSE Paths!Uploads, asked).parts,
                     attached.parts)
  <2>1. attached = Paths!Attachment(asked, TRUE) /\ attached # Paths!Refused
    BY <1>2 DEF PathInv, Paths!Uploaded
  <2> QED BY <1>1, <2>1, AttachmentLies
<1>3. Paths!Uploaded => attached.lead = "/"
  BY <1>2, PathFields DEF Paths!Absolute
<1>4. ASSUME found # Paths!Refused PROVE found = attached
  <2>1. Paths!Uploaded /\ found = Paths!Attachment(Paths!Relative(attached), FALSE)
    BY <1>4 DEF PathInv
  <2> DEFINE p == attached.parts
  <2>2. p \in Seq(Paths!Plain) /\ attached = Paths!Absolute(p) /\ Paths!IsPrefix(Paths!Uploads, p)
    BY <1>2, <2>1 DEF Paths!IsStrictPrefix
  <2> HIDE DEF p
  <2>3. PathRoot \in Seq(Paths!Plain) /\ Len(p) \in Nat
    BY <2>2, SandboxAssumption, LenProperties DEF Paths!PathsAssumption
  <2>4. Len(Paths!Uploads) <= Len(p) /\ \A i \in 1 .. Len(Paths!Uploads) : Paths!Uploads[i] = p[i]
    BY <2>2, UploadsPlain, PrefixIs
  <2>5. Len(PathRoot) <= Len(p) /\ Len(PathRoot) # Len(p)
    BY <2>3, <2>4, UploadsPlain
  <2>6. \A i \in 1 .. Len(PathRoot) : PathRoot[i] = p[i]
    BY <2>4, UploadsPlain
  <2>7. Paths!IsPrefix(PathRoot, p) /\ p # PathRoot
    <3>1. p # PathRoot
      BY <2>5
    <3>2. Len(PathRoot) <= Len(p)
      BY <2>5
    <3> QED BY <2>2, <2>3, <2>6, <3>1, <3>2, PrefixWhen
  <2> QED BY <2>1, <2>2, <2>7, RelativeFinds
<1>5. ASSUME artifact # Paths!Refused
      PROVE  /\ Paths!IsStrictPrefix(PathRoot, artifact.parts)
             /\ \A i \in DOMAIN artifact.parts : artifact.parts[i] \notin HiddenNames \cup {".", ".."}
  <2>1. PICK dir \in {PathRoot, PathSession} : artifact = Paths!Artifact(asked, dir)
    BY <1>5 DEF PathInv
  <2> QED BY <1>1, <1>5, <2>1, ArtifactIsPublic
<1> QED BY <1>2, <1>3, <1>4, <1>5 DEF Paths!PathsLeadHome

-----------------------------------------------------------------------------
(* The four parts.  Each keeps its invariant whichever part moves.         *)

OwnersInv == OwnInv /\ Own!CapacityIsKept /\ WaitInv
SandboxInv == OwnersInv /\ StorageInv /\ FilesInv /\ PathInv

LEMMA SandboxInvInit == SandboxInit => SandboxInv
BY SandboxAssumption, OwnInvInit, WaitInit, StorageInit, FilesInit, PathInit
   DEF SandboxInit, SandboxInv, OwnersInv

LEMMA SandboxInvNext == SandboxInv /\ [SandboxNext]_sandboxVars => SandboxInv'
<1> SUFFICES ASSUME SandboxInv, [SandboxNext]_sandboxVars PROVE SandboxInv'
  OBVIOUS
<1>1. /\ [Own!Next]_(Own!vars) /\ [Store!Next]_(Store!vars)
      /\ [Files!Next]_(Files!vars) /\ [Paths!Next]_(Paths!pathVars)
  <2>1. UNCHANGED ownVars => UNCHANGED Own!vars
    BY DEF ownVars, Own!vars, Own!storeVars
  <2>2. UNCHANGED storeVars => UNCHANGED Store!vars
    BY DEF storeVars, Store!vars
  <2>3. UNCHANGED fileVars => UNCHANGED Files!vars
    BY DEF fileVars, Files!vars, Files!fileVars, Files!editVars
  <2>4. UNCHANGED pathVars => UNCHANGED Paths!pathVars
    BY DEF pathVars, Paths!pathVars
  <2>5. CASE UNCHANGED sandboxVars
    BY <2>1, <2>2, <2>3, <2>4, <2>5 DEF sandboxVars
  <2>6. CASE OwnStep
    BY <2>2, <2>3, <2>4, <2>6 DEF OwnStep
  <2>7. CASE StoreStep
    BY <2>1, <2>3, <2>4, <2>7 DEF StoreStep
  <2>8. CASE FileStep
    BY <2>1, <2>2, <2>4, <2>8 DEF FileStep
  <2>9. CASE PathStep
    BY <2>1, <2>2, <2>3, <2>9 DEF PathStep
  <2> QED BY <2>5, <2>6, <2>7, <2>8, <2>9 DEF SandboxNext
<1>2. OwnersInv'
  <2>1. Own!OwnershipAssumption /\ OwnInv /\ Own!CapacityIsKept /\ WaitInv
    BY SandboxAssumption DEF SandboxInv, OwnersInv
  <2>2. OwnInv'
    BY <1>1, <2>1, OwnInvStep
  <2>3. Own!CapacityIsKept'
    BY <1>1, <2>1, CapacityStep
  <2>4. WaitInv'
    BY <1>1, <2>1, <2>2, WaitKeeps
  <2> QED BY <2>2, <2>3, <2>4 DEF OwnersInv
<1>3. StorageInv'
  BY <1>1, StorageStep DEF SandboxInv
<1>4. FilesInv'
  BY <1>1, FilesStep DEF SandboxInv
<1>5. PathInv'
  BY <1>1, PathStepKeeps DEF SandboxInv
<1> QED BY <1>2, <1>3, <1>4, <1>5 DEF SandboxInv

LEMMA SandboxInvHolds == SandboxSpec => []SandboxInv
BY SandboxInvInit, SandboxInvNext, PTL DEF SandboxSpec

(* Every variable of the part that moves has its type.                     *)
THEOREM SandboxTypesKept == SandboxSpec => []SandboxTypes
<1>1. SandboxInv => SandboxTypes
  BY StorageFollows, FilesFollow
     DEF SandboxInv, OwnersInv, OwnInv, WorkInv, SandboxTypes
<1> QED BY <1>1, SandboxInvHolds, PTL

(* Whatever the processes do with locks, leases, time-outs and lost        *)
(* renewals: no more containers run than allowed, an operation whose       *)
(* container was stopped or removed under it does not report success, what *)
(* a deletion has removed is not created again, and nobody waits in a      *)
(* circle.  Directories of different owners have different uids as long as *)
(* no reader reset the registry; a file holds what one call wrote unless   *)
(* an edit may have torn it, and nothing is left of calls whose clean-up   *)
(* worked; and every path resolves to where it leads, below the directory  *)
(* it must stay in.                                                        *)
THEOREM SandboxesStaySafe == SandboxSpec => []SandboxesAreSafe
<1>1. SandboxInv => SandboxesAreSafe
  <2> SUFFICES ASSUME SandboxInv PROVE SandboxesAreSafe
    OBVIOUS
  <2>1. Own!SandboxesAreSafe
    BY SandboxAssumption, OwnersFollow DEF SandboxInv, OwnersInv
  <2>2. Store!UidsAreIsolated /\ Files!FilesAreSound /\ Paths!PathsLeadHome
    BY StorageFollows, FilesFollow, PathFollows DEF SandboxInv
  <2> QED BY <2>1, <2>2 DEF SandboxesAreSafe
<1> QED BY <1>1, SandboxInvHolds, PTL
=============================================================================
