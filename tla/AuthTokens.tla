------------------------------ MODULE AuthTokens -----------------------------
(***************************************************************************)
(* The login sessions of one user: access tokens, which carry the user's   *)
(* auth_version, and families of refresh tokens, each replacing the one    *)
(* before.  Requests are transactions of PostgreSQL at READ COMMITTED:     *)
(* SELECT ... FOR UPDATE and UPDATE wait for the row, a statement sees     *)
(* what was committed when it began, and an UPDATE that had to wait looks  *)
(* at its rows once more.                                                  *)
(***************************************************************************)
EXTENDS Naturals, FiniteSets

CONSTANTS
    Requests,
    Kind,      \* what each request does
    Tokens,    \* refresh tokens, numbered in the order they are issued
    Nobody

Kinds == {"login", "refresh", "logout", "password", "update", "delete"}
AuthAssumption ==
    /\ Kind \in [Requests -> Kinds]
    /\ IsFiniteSet(Tokens) /\ Tokens = 1 .. Cardinality(Tokens)

VARIABLES
    user,       \* the row: auth_version, is_active
    token,      \* the rows of the refresh tokens
    userLock, tokenLock,
    security,   \* lock_security_mutation
    pc,
    shown,      \* token each refresh or logout presents
    known,      \* auth_version an administrator's update has read
    matched,    \* rows an UPDATE of a token family waits for
    access,     \* access tokens that were handed out
    epoch,      \* history: number of password changes, updates and deletions
    ended,      \* history: families that were logged out or reused
    stale,      \* history: an update wrote a version that was read too early
    missed      \* history: families whose UPDATE missed a newer token

lockVars == <<userLock, tokenLock, security>>
historyVars == <<epoch, ended, stale, missed>>
authVars == <<user, token, lockVars, pc, shown, known, matched, access, historyVars>>

Unissued == [family |-> 0, state |-> "none", born |-> 0]
Issued == {t \in Tokens : token[t].state # "none"}
LiveOf(f) == {t \in Tokens : token[t].state = "live" /\ token[t].family = f}
FirstFree == Cardinality(Issued) + 1

Init ==
    /\ user = [version |-> 1, active |-> TRUE]
    /\ token = [t \in Tokens |-> Unissued]
    /\ userLock = Nobody /\ security = Nobody
    /\ tokenLock = [t \in Tokens |-> Nobody]
    /\ pc = [r \in Requests |-> "start"]
    /\ shown = [r \in Requests |-> 0]
    /\ known = [r \in Requests |-> 0]
    /\ matched = [r \in Requests |-> {}]
    /\ access = {} /\ epoch = 0 /\ ended = {} /\ stale = FALSE /\ missed = {}

Goto(r, to) == pc' = [pc EXCEPT ![r] = to]
Advance(r, from, to) == pc[r] = from /\ Goto(r, to)

(* Rows that are free for r.                                               *)
TokensFree(r, T) == \A t \in T : tokenLock[t] \in {Nobody, r}
Unlocked(r) == [t \in Tokens |-> IF tokenLock[t] = r THEN Nobody ELSE tokenLock[t]]

Revoked(T) == [t \in Tokens |-> IF t \in T THEN [token[t] EXCEPT !.state = "revoked"] ELSE token[t]]

(* The pair that a login or a refresh hands out.                           *)
NewAccess == access \cup {[version |-> user.version, born |-> epoch]}
NewToken(family) == [family |-> family, state |-> "live", born |-> epoch]

-----------------------------------------------------------------------------
(* login                                                                   *)

(* The row of the user is locked while the password is verified.           *)
LocksUser(r) ==
    /\ pc[r] = "start" /\ Kind[r] \in {"login", "refresh", "password"}
    /\ userLock = Nobody /\ userLock' = r
    /\ Goto(r, "user")
    /\ IF Kind[r] = "refresh" THEN \E t \in Issued : shown' = [shown EXCEPT ![r] = t]
       ELSE UNCHANGED shown
    /\ UNCHANGED <<user, token, tokenLock, security, known, matched, access, historyVars>>

Login(r) ==
    /\ Kind[r] = "login" /\ Advance(r, "user", "done")
    /\ userLock' = Nobody
    /\ IF user.active
       THEN /\ FirstFree \in Tokens
            /\ token' = [token EXCEPT ![FirstFree] = NewToken(FirstFree)]
            /\ access' = NewAccess
       ELSE UNCHANGED <<token, access>>
    /\ UNCHANGED <<user, tokenLock, security, shown, known, matched, historyVars>>

-----------------------------------------------------------------------------
(* refresh and logout                                                      *)

LocksToken(r) ==
    LET t == shown'[r]
    IN  /\ \/ Kind[r] = "refresh" /\ pc[r] = "user" /\ UNCHANGED shown
           \/ Kind[r] = "logout" /\ pc[r] = "start"
              /\ \E x \in Issued : shown' = [shown EXCEPT ![r] = x]
        /\ tokenLock[t] = Nobody
        /\ tokenLock' = [tokenLock EXCEPT ![t] = r]
        /\ Goto(r, "token")
        /\ UNCHANGED <<user, token, userLock, security, known, matched, access, historyVars>>

(* The token is replaced; one commit.                                      *)
Rotates(r) ==
    /\ Kind[r] = "refresh" /\ pc[r] = "token"
    /\ token[shown[r]].state = "live"
    /\ userLock' = Nobody /\ tokenLock' = Unlocked(r)
    /\ Goto(r, "done")
    /\ IF user.active
       THEN /\ FirstFree \in Tokens
            /\ token' = [Revoked({shown[r]}) EXCEPT
                            ![FirstFree] = NewToken(token[shown[r]].family)]
            /\ access' = NewAccess
       ELSE UNCHANGED <<token, access>>
    /\ UNCHANGED <<user, security, shown, known, matched, historyVars>>

(* The UPDATE of the family begins, for a logout or for a token that was   *)
(* used before.                                                            *)
UpdatesFamily(r) ==
    /\ pc[r] = "token"
    /\ Kind[r] = "logout" \/ token[shown[r]].state = "revoked"
    /\ matched' = [matched EXCEPT ![r] = LiveOf(token[shown[r]].family)]
    /\ Goto(r, "family")
    /\ UNCHANGED <<user, token, lockVars, shown, known, access, historyVars>>

(* It has waited for its rows; the commit.                                 *)
EndsFamily(r) ==
    LET f == token[shown[r]].family
    IN  /\ Advance(r, "family", "done")
        /\ TokensFree(r, matched[r])
        /\ token' = Revoked(matched[r])
        /\ ended' = ended \cup {f}
        /\ missed' = IF LiveOf(f) \subseteq matched[r] THEN missed ELSE missed \cup {f}
        /\ userLock' = IF userLock = r THEN Nobody ELSE userLock
        /\ tokenLock' = Unlocked(r)
        /\ matched' = [matched EXCEPT ![r] = {}]
        /\ UNCHANGED <<user, security, shown, known, access, epoch, stale>>

-----------------------------------------------------------------------------
(* Password changes, updates by an administrator, deletion of the account. *)

LiveTokens == {t \in Tokens : token[t].state = "live"}

(* All tokens are revoked, in the transaction that has the user's row.     *)
RevokesAll(r) ==
    /\ TokensFree(r, LiveTokens)
    /\ token' = Revoked(LiveTokens)
    /\ epoch' = epoch + 1

ChangePassword(r) ==
    /\ Kind[r] = "password" /\ Advance(r, "user", "done")
    /\ IF user.active
       THEN RevokesAll(r) /\ user' = [user EXCEPT !.version = @ + 1]
       ELSE UNCHANGED <<token, epoch, user>>
    /\ userLock' = Nobody
    /\ UNCHANGED <<tokenLock, security, shown, known, matched, access, ended, stale, missed>>

LocksSecurity(r) ==
    /\ Kind[r] \in {"update", "delete"} /\ Advance(r, "start", "secure")
    /\ security = Nobody /\ security' = r
    /\ UNCHANGED <<user, token, userLock, tokenLock, shown, known, matched, access, historyVars>>

(* update_user reads the row and does not lock it.                         *)
UpdateReads(r) ==
    /\ Kind[r] = "update" /\ Advance(r, "secure", "read")
    /\ known' = [known EXCEPT ![r] = user.version]
    /\ UNCHANGED <<user, token, lockVars, shown, matched, access, historyVars>>

(* Mutant: the tokens are revoked before the row of the user is written.   *)
UpdateRevokesFirst(r) ==
    /\ Kind[r] = "update"
    /\ \/ /\ Advance(r, "read", "revoked")
          /\ TokensFree(r, LiveTokens) /\ token' = Revoked(LiveTokens)
          /\ UNCHANGED <<user, security, epoch, stale>>
       \/ /\ Advance(r, "revoked", "done") /\ userLock = Nobody
          /\ user' = [user EXCEPT !.version = known[r] + 1]
          /\ stale' = (stale \/ user.version # known[r])
          /\ security' = Nobody /\ epoch' = epoch + 1
          /\ UNCHANGED token
    /\ UNCHANGED <<userLock, tokenLock, shown, known, matched, access, ended, missed>>

(* The UPDATE waits for the row and writes the version that follows the    *)
(* one that was read; then the tokens are revoked.                         *)
UpdateCommits(r) ==
    /\ Kind[r] = "update" /\ Advance(r, "read", "done")
    /\ userLock = Nobody
    /\ user' = [user EXCEPT !.version = known[r] + 1]
    /\ stale' = (stale \/ user.version # known[r])
    /\ RevokesAll(r)
    /\ security' = Nobody
    /\ UNCHANGED <<userLock, tokenLock, shown, known, matched, access, ended, missed>>

(* The request of a deletion: it reads and locks the row at once.          *)
DeleteCommits(r) ==
    /\ Kind[r] = "delete" /\ Advance(r, "secure", "done")
    /\ userLock = Nobody
    /\ user' = [user EXCEPT !.active = FALSE]
    /\ RevokesAll(r)
    /\ security' = Nobody
    /\ UNCHANGED <<userLock, tokenLock, shown, known, matched, access, ended, stale, missed>>

Next ==
    \E r \in Requests :
        \/ LocksUser(r) \/ Login(r) \/ LocksToken(r) \/ Rotates(r)
        \/ UpdatesFamily(r) \/ EndsFamily(r)
        \/ ChangePassword(r) \/ LocksSecurity(r)
        \/ UpdateReads(r) \/ UpdateCommits(r) \/ DeleteCommits(r)

Spec == Init /\ [][Next]_authVars

-----------------------------------------------------------------------------
(* Properties.                                                             *)

TypeOK ==
    /\ user \in [version : Nat, active : BOOLEAN]
    /\ token \in [Tokens -> [family : {0} \cup Tokens, state : {"none", "live", "revoked"}, born : Nat]]
    /\ userLock \in Requests \cup {Nobody} /\ security \in Requests \cup {Nobody}
    /\ tokenLock \in [Tokens -> Requests \cup {Nobody}]
    /\ pc \in [Requests -> {"start", "user", "token", "family", "secure", "read", "done"}]
    /\ shown \in [Requests -> {0} \cup Tokens] /\ known \in [Requests -> Nat]
    /\ matched \in [Requests -> SUBSET Tokens]
    /\ access \subseteq [version : Nat, born : Nat] /\ epoch \in Nat
    /\ ended \subseteq Tokens /\ stale \in BOOLEAN /\ missed \subseteq Tokens

(* docs/02 on token families: a refresh token is used once.  Whatever      *)
(* requests overlap, a family has at most one live token, and none after a *)
(* logout or the reuse of a token, except that the UPDATE of an old token's*)
(* family does not see the token of a refresh that commits meanwhile.      *)
FamiliesEnd ==
    \A f \in Tokens :
        /\ Cardinality(LiveOf(f)) <= 1
        /\ f \in ended \ missed => LiveOf(f) = {}

(* The comment in update_user: once a password change, an update or the    *)
(* request of a deletion is committed, the old identity is void.  No       *)
(* refresh token from before it lives, and no access token from before it  *)
(* is accepted, except that an update may write a version that another     *)
(* transaction has already given out.                                      *)
Accepted(a) == user.active /\ a.version = user.version
OldCredentialsAreVoid ==
    /\ \A t \in LiveTokens : token[t].born = epoch
    /\ \A a \in access : a.born < epoch /\ ~stale => ~Accepted(a)

TokensAreSafe == FamiliesEnd /\ OldCredentialsAreVoid

=============================================================================
