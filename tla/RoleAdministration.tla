-------------------------- MODULE RoleAdministration --------------------------
(***************************************************************************)
(* Roles and the accounts they are assigned to.  A role is a row in        *)
(* PostgreSQL and, in Doris, a role and the query user that has it; Doris  *)
(* takes no part in the transaction.  Changes take the security lock of    *)
(* lock_security_mutation to the end of their transaction; what only reads *)
(* the authorization of a role locks the row of the role.                  *)
(***************************************************************************)
EXTENDS Naturals, FiniteSets

CONSTANTS
    Admins,      \* requests that change roles
    Observers,   \* requests that read the authorization of a user's role
    Roles, Users,
    FirstAdmin,  \* the user bootstrap_admin created
    NoRole, Nobody,
    MaxVersion,  \* bound on the changes of a role's authorization in Doris
    MaxFaults    \* bound on failing statements, lost answers and crashes

RolesAssumption ==
    /\ FirstAdmin \in Users /\ NoRole \notin Roles /\ Nobody \notin Admins \cup Observers
    /\ IsFiniteSet(Users) /\ MaxFaults \in Nat

Requests == Admins \cup Observers

VARIABLES
    configured,   \* rows of the roles
    default,      \* the role new users get
    fingerprint,  \* of the row; versions stand for fingerprints
    account,      \* rows of the users
    doris,        \* per role: does it exist, does its query user, version of its grants
    security, rowLock,
    pc, target, snapshot,
    seen,         \* history: the newest version a committed request has read
    broken,       \* history: roles a fault has left between the two systems
    faults

rowVars == <<configured, default, fingerprint, account>>
lockVars == <<security, rowLock>>
workVars == <<pc, target, snapshot>>
roleVars == <<rowVars, doris, lockVars, workVars, seen, broken, faults>>

Existing == {u \in Users : account[u].state \in {"active", "disabled"}}
ActiveAdmins == {u \in Existing : account[u].state = "active" /\ account[u].admin}
AssignedUsers(r) == {u \in Existing : account[u].role = r}

NewUser == [state |-> "none", admin |-> FALSE, role |-> NoRole]

Init ==
    /\ configured = {} /\ default = NoRole
    /\ fingerprint = [r \in Roles |-> 0]
    /\ account = [u \in Users |-> IF u = FirstAdmin
                                  THEN [NewUser EXCEPT !.state = "active", !.admin = TRUE]
                                  ELSE NewUser]
    /\ doris = [r \in Roles |-> [role |-> FALSE, user |-> FALSE, version |-> 0]]
    /\ security = Nobody /\ rowLock = [r \in Roles |-> Nobody]
    /\ pc = [p \in Requests |-> "idle"]
    /\ target = [p \in Requests |-> NoRole]
    /\ snapshot = [p \in Requests |-> 0]
    /\ seen = [r \in Roles |-> 0] /\ broken = {} /\ faults = 0

Goto(p, to) == pc' = [pc EXCEPT ![p] = to]

(* The transaction ends, and with it the locks it has.                     *)
Unlocks(p) ==
    /\ security' = IF security = p THEN Nobody ELSE security
    /\ rowLock' = [r \in Roles |-> IF rowLock[r] = p THEN Nobody ELSE rowLock[r]]

Leaves(p) ==
    /\ Goto(p, "idle")
    /\ target' = [target EXCEPT ![p] = NoRole]
    /\ snapshot' = [snapshot EXCEPT ![p] = 0]
    /\ Unlocks(p)

Fault == faults < MaxFaults /\ faults' = faults + 1
Breaks(r) == broken' = broken \cup {r}

-----------------------------------------------------------------------------
(* Accounts.  What these transactions read is only written under the       *)
(* security lock, so each is one step.                                     *)

Secured == security = Nobody

WritesAccount(u, row) ==
    /\ account' = [account EXCEPT ![u] = row]
    /\ UNCHANGED <<configured, default, fingerprint, doris, lockVars, workVars, seen, broken,
                   faults>>

CreateUser(u) ==
    /\ Secured /\ account[u].state = "none"
    /\ \E r \in configured \cup {default}, admin \in BOOLEAN :
           WritesAccount(u, [state |-> "active", admin |-> admin, role |-> r])

CountAdmins == Cardinality(ActiveAdmins)

UpdateUser(u) ==
    /\ Secured /\ u \in Existing
    /\ \E r \in configured \cup {NoRole, account[u].role}, admin \in BOOLEAN :
           /\ account[u].admin /\ ~admin => CountAdmins > 1
           /\ WritesAccount(u, [account[u] EXCEPT !.role = r, !.admin = admin])

BootstrapAdmin(u) ==
    /\ Secured /\ account[u].state \in {"none", "active"}
    /\ WritesAccount(u, [account[u] EXCEPT !.state = "active", !.admin = TRUE])

RequestDeletion(u) ==
    /\ Secured /\ account[u].state = "active"
    /\ account[u].admin => CountAdmins > 1
    /\ WritesAccount(u, [account[u] EXCEPT !.state = "disabled"])

CompleteDeletion(u) ==
    /\ Secured /\ account[u].state = "disabled"
    /\ WritesAccount(u, [NewUser EXCEPT !.state = "gone"])

SetDefault(r) ==
    /\ Secured /\ r \in (configured \cup {NoRole}) \ {default}
    /\ default' = r
    /\ UNCHANGED <<configured, fingerprint, account, doris, lockVars, workVars, seen, broken,
                   faults>>

-----------------------------------------------------------------------------
(* create_role                                                             *)

BeginCreate(a, r) ==
    /\ pc[a] = "idle" /\ Secured /\ r \notin configured
    /\ doris[r].version < MaxVersion
    /\ security' = a
    /\ target' = [target EXCEPT ![a] = r]
    /\ Goto(a, "role")
    /\ UNCHANGED <<rowVars, doris, rowLock, snapshot, seen, broken, faults>>

(* A statement of a DBAPI connection: it works, it fails, or its answer is *)
(* lost and the caller sees a failure.                                     *)
CreatesRole(a) ==
    LET r == target[a] IN
    /\ pc[a] = "role"
    /\ \/ /\ ~doris[r].role
          /\ doris' = [doris EXCEPT ![r].role = TRUE, ![r].version = @ + 1]
          /\ Goto(a, "user")
          /\ UNCHANGED <<lockVars, target, snapshot, broken, faults>>
       \/ /\ doris[r].role /\ Leaves(a)
          /\ UNCHANGED <<doris, broken, faults>>
       \/ /\ ~doris[r].role /\ Fault /\ Leaves(a)
          /\ doris' = [doris EXCEPT ![r].role = TRUE, ![r].version = @ + 1]
          /\ Breaks(r)
    /\ UNCHANGED <<rowVars, seen>>

CreatesUser(a) ==
    LET r == target[a] IN
    /\ pc[a] = "user"
    /\ \/ /\ doris[r].role /\ ~doris[r].user
          /\ doris' = [doris EXCEPT ![r].user = TRUE]
          /\ Goto(a, "commit")
          /\ UNCHANGED <<broken, faults>>
       \/ /\ doris[r].user \/ ~doris[r].role
          /\ Goto(a, "undo")
          /\ UNCHANGED <<doris, broken, faults>>
       \/ /\ ~doris[r].user /\ Fault /\ Goto(a, "undo")
          /\ \/ UNCHANGED <<doris, broken>>
             \/ doris' = [doris EXCEPT ![r].user = TRUE] /\ Breaks(r)
    /\ UNCHANGED <<rowVars, lockVars, target, snapshot, seen>>

(* create_role_identity drops the role it has created.                     *)
UndoesRole(a) ==
    LET r == target[a] IN
    /\ pc[a] = "undo" /\ Leaves(a)
    /\ \/ doris' = [doris EXCEPT ![r].role = FALSE] /\ UNCHANGED <<broken, faults>>
       \/ Fault /\ Breaks(r) /\ UNCHANGED doris
    /\ UNCHANGED <<rowVars, seen>>

(* When the commit fails its transaction is over, and the lock with it,    *)
(* before the identity is dropped again; its answer may also be lost.      *)
CommitsRole(a) ==
    LET r == target[a]
        Written == configured' = configured \cup {r}
    IN  /\ pc[a] = "commit"
        /\ \/ Written /\ Leaves(a) /\ UNCHANGED <<broken, faults>>
           \/ /\ Fault /\ Goto(a, "dropUser") /\ Unlocks(a) /\ UNCHANGED <<target, snapshot>>
              /\ \/ UNCHANGED <<configured, broken>>
                 \/ Written /\ Breaks(r)
        /\ UNCHANGED <<default, fingerprint, account, doris, seen>>

-----------------------------------------------------------------------------
(* delete_role, and drop_role_identity, which create_role uses as well     *)

(* Mutant: delete_role counts the active users of the role only.           *)
UnusedByActive(r) == \A u \in AssignedUsers(r) : account[u].state = "disabled"

Unused(r) == AssignedUsers(r) = {}

BeginDelete(a, r) ==
    /\ pc[a] = "idle" /\ Secured /\ r \in configured /\ rowLock[r] = Nobody
    /\ Unused(r)
    /\ security' = a /\ rowLock' = [rowLock EXCEPT ![r] = a]
    /\ target' = [target EXCEPT ![a] = r]
    /\ Goto(a, "dropUser")
    /\ UNCHANGED <<rowVars, doris, snapshot, seen, broken, faults>>

(* A DROP that fails, with or without effect.                              *)
DropFails(a, part) ==
    LET r == target[a] IN
    /\ Fault /\ Breaks(r) /\ Leaves(a)
    /\ \/ UNCHANGED doris
       \/ part = "user" /\ doris' = [doris EXCEPT ![r].user = FALSE]
       \/ part = "role" /\ doris' = [doris EXCEPT ![r].role = FALSE]

DropsUser(a) ==
    /\ pc[a] = "dropUser"
    /\ \/ /\ doris' = [doris EXCEPT ![target[a]].user = FALSE]
          /\ Goto(a, "dropRole")
          /\ UNCHANGED <<lockVars, target, snapshot, broken, faults>>
       \/ DropFails(a, "user")
    /\ UNCHANGED <<rowVars, seen>>

DropsRole(a) ==
    /\ pc[a] = "dropRole"
    /\ \/ /\ doris' = [doris EXCEPT ![target[a]].role = FALSE]
          /\ IF security = a
             THEN Goto(a, "delete") /\ UNCHANGED <<lockVars, target, snapshot>>
             ELSE Leaves(a)
          /\ UNCHANGED <<broken, faults>>
       \/ DropFails(a, "role")
    /\ UNCHANGED <<rowVars, seen>>

(* The row goes last.  The foreign key of the users restricts.             *)
CommitsDelete(a) ==
    LET r == target[a] IN
    /\ pc[a] = "delete" /\ Leaves(a)
    /\ IF AssignedUsers(r) = {}
       THEN /\ configured' = configured \ {r}
            /\ default' = IF default = r THEN NoRole ELSE default
            /\ fingerprint' = [fingerprint EXCEPT ![r] = 0]
            /\ seen' = [seen EXCEPT ![r] = 0]
            /\ broken' = IF \E b \in Admins \ {a} : target[b] = r THEN broken
                         ELSE broken \ {r}
       ELSE UNCHANGED <<configured, default, fingerprint, seen, broken>>
    /\ UNCHANGED <<account, doris, faults>>

-----------------------------------------------------------------------------
(* Grants, revocations and row policies; reading the authorization.        *)

Readable(r) == doris[r].role /\ doris[r].user

(* observe_role locks the row and reads Doris, before a change and after.  *)
BeginChange(a, r) ==
    /\ pc[a] = "idle" /\ Secured /\ r \in configured /\ rowLock[r] = Nobody
    /\ Readable(r)
    /\ security' = a /\ rowLock' = [rowLock EXCEPT ![r] = a]
    /\ target' = [target EXCEPT ![a] = r]
    /\ Goto(a, "change")
    /\ UNCHANGED <<rowVars, doris, snapshot, seen, broken, faults>>

Changed(r) ==
    /\ doris[r].version < MaxVersion
    /\ doris' = [doris EXCEPT ![r].version = @ + 1]

ChangesGrants(a) ==
    /\ pc[a] = "change"
    /\ Changed(target[a])
    /\ \/ Goto(a, "locked") /\ UNCHANGED <<lockVars, target, snapshot, faults>>
       \/ Leaves(a) /\ Fault
    /\ UNCHANGED <<rowVars, seen, broken>>

(* The statement is refused.                                               *)
ChangeFails(a) ==
    /\ pc[a] = "change" /\ Leaves(a)
    /\ UNCHANGED <<rowVars, doris, seen, broken, faults>>

(* An administrator of Doris changes the grants directly.                  *)
ChangedOutside(r) ==
    /\ doris[r].role /\ Changed(r)
    /\ UNCHANGED <<rowVars, lockVars, workVars, seen, broken, faults>>

(* The row of the user is read without a lock.                             *)
BeginObserve(o, u) ==
    /\ pc[o] = "idle" /\ account[u].state = "active" /\ account[u].role # NoRole
    /\ target' = [target EXCEPT ![o] = account[u].role]
    /\ Goto(o, "found")
    /\ UNCHANGED <<rowVars, doris, lockVars, snapshot, seen, broken, faults>>

LocksRow(o) ==
    LET r == target[o] IN
    /\ pc[o] = "found"
    /\ \/ /\ r \in configured /\ rowLock[r] = Nobody
          /\ rowLock' = [rowLock EXCEPT ![r] = o]
          /\ Goto(o, "locked") /\ UNCHANGED <<security, target, snapshot>>
       \/ r \notin configured /\ Leaves(o)
    /\ UNCHANGED <<rowVars, doris, seen, broken, faults>>

ReadsAuthorization(p) ==
    LET r == target[p] IN
    /\ pc[p] = "locked"
    /\ \/ /\ Readable(r)
          /\ snapshot' = [snapshot EXCEPT ![p] = doris[r].version]
          /\ Goto(p, "observed") /\ UNCHANGED <<lockVars, target>>
       \/ ~Readable(r) /\ Leaves(p)
    /\ UNCHANGED <<rowVars, doris, seen, broken, faults>>

CommitsFingerprint(p) ==
    LET r == target[p] IN
    /\ pc[p] = "observed" /\ Leaves(p)
    /\ fingerprint' = [fingerprint EXCEPT ![r] = snapshot[p]]
    /\ seen' = [seen EXCEPT ![r] = IF @ < snapshot[p] THEN snapshot[p] ELSE @]
    /\ UNCHANGED <<configured, default, account, doris, broken, faults>>

(* A revocation that leaves the right in force is reported and rolled back.*)
StillGranted(a) ==
    /\ pc[a] = "observed" /\ a \in Admins /\ Leaves(a)
    /\ UNCHANGED <<rowVars, doris, seen, broken, faults>>

Creating == {"user", "commit", "undo"}

(* The process or its database connection ends.                            *)
Crash(p) ==
    /\ pc[p] # "idle" /\ Fault /\ Leaves(p)
    /\ broken' = IF pc[p] \in Creating \cup {"dropUser", "dropRole", "delete"}
                 THEN broken \cup {target[p]} ELSE broken
    /\ UNCHANGED <<rowVars, doris, seen>>

-----------------------------------------------------------------------------
AccountNext ==
    \/ \E u \in Users : CreateUser(u) \/ UpdateUser(u) \/ BootstrapAdmin(u)
                        \/ RequestDeletion(u) \/ CompleteDeletion(u)
    \/ \E r \in Roles \cup {NoRole} : SetDefault(r)

RoleNext(a) ==
    \/ \E r \in Roles : BeginCreate(a, r) \/ BeginDelete(a, r) \/ BeginChange(a, r)
    \/ CreatesRole(a) \/ CreatesUser(a) \/ UndoesRole(a) \/ CommitsRole(a)
    \/ DropsUser(a) \/ DropsRole(a) \/ CommitsDelete(a)
    \/ ChangesGrants(a) \/ ChangeFails(a) \/ StillGranted(a)

Next ==
    \/ AccountNext
    \/ \E a \in Admins : RoleNext(a)
    \/ \E o \in Observers : LocksRow(o) \/ \E u \in Users : BeginObserve(o, u)
    \/ \E p \in Requests : ReadsAuthorization(p) \/ CommitsFingerprint(p) \/ Crash(p)
    \/ \E r \in Roles : ChangedOutside(r)

Spec == Init /\ [][Next]_roleVars

-----------------------------------------------------------------------------
(* Properties.                                                             *)

Phases == {"idle", "role", "user", "undo", "commit", "dropUser", "dropRole", "delete",
           "change", "found", "locked", "observed"}

TypeOK ==
    /\ configured \subseteq Roles /\ default \in configured \cup {NoRole}
    /\ fingerprint \in [Roles -> Nat] /\ seen \in [Roles -> Nat]
    /\ account \in [Users -> [state : {"none", "active", "disabled", "gone"},
                              admin : BOOLEAN, role : Roles \cup {NoRole}]]
    /\ doris \in [Roles -> [role : BOOLEAN, user : BOOLEAN, version : Nat]]
    /\ security \in Admins \cup {Nobody} /\ rowLock \in [Roles -> Requests \cup {Nobody}]
    /\ pc \in [Requests -> Phases] /\ target \in [Requests -> Roles \cup {NoRole}]
    /\ snapshot \in [Requests -> Nat]
    /\ broken \subseteq Roles /\ faults \in 0 .. MaxFaults

(* The docstring of observe_role: an authorization that was read earlier   *)
(* does not overwrite the fingerprint of a newer one.                      *)
FingerprintsFollow == \A r \in configured : seen[r] <= fingerprint[r]

(* The role of an account that exists is a row, and it exists in Doris     *)
(* with its query user unless a fault has broken it: delete_role drops the *)
(* identity in Doris first and must not do so for a role in use.           *)
AssignedRolesWork ==
    \A u \in Existing :
        account[u].role # NoRole =>
            /\ account[u].role \in configured
            /\ account[u].role \notin broken => Readable(account[u].role)

(* Whatever create_role drops again after a failure, and without the lock, *)
(* nothing of a role stays in Doris without a row, and no other request's  *)
(* identity is dropped, unless a fault hit the repair itself.              *)
IdentitiesMatchRows ==
    \A r \in Roles \ broken :
        (\A a \in Admins : target[a] # r) =>
            /\ doris[r].role <=> r \in configured
            /\ doris[r].user <=> r \in configured

(* There is always an active administrator: the last one is not demoted    *)
(* and not deleted.                                                        *)
AdministratorRemains == ActiveAdmins # {}

RolesAreSafe ==
    FingerprintsFollow /\ AssignedRolesWork /\ IdentitiesMatchRows /\ AdministratorRemains

=============================================================================
