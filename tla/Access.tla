-------------------------------- MODULE Access --------------------------------
(***************************************************************************)
(* Tokens, roles and rate limits share no state: one of them moves, or a   *)
(* component that is not here.                                             *)
(***************************************************************************)
EXTENDS Naturals, FiniteSets, Sequences, Parts

CONSTANTS AuthRequests, AuthKind, Tokens
VARIABLES user, token, userLock, tokenLock, authSecurity, authPc, shown, known, matched, access,
          epoch, ended, stale, missed
Auth == INSTANCE AuthTokens WITH
            Requests <- AuthRequests, Kind <- AuthKind, security <- authSecurity, pc <- authPc
authVars == <<user, token, userLock, tokenLock, authSecurity, authPc, shown, known, matched,
              access, epoch, ended, stale, missed>>

CONSTANTS Admins, Observers, RoleNames, Accounts, FirstAdmin, NoRole, MaxGrants, MaxRoleFaults
VARIABLES configured, default, fingerprint, account, doris, security, rowLock, pc, target,
          snapshot, seen, broken, faults
Roles == INSTANCE RoleAdministration WITH
             Roles <- RoleNames, Users <- Accounts, MaxVersion <- MaxGrants,
             MaxFaults <- MaxRoleFaults
roleVars == <<configured, default, fingerprint, account, doris, security, rowLock, pc, target,
              snapshot, seen, broken, faults>>

CONSTANTS RateKeys, RateLimit, RateWindow, MaxKeys, MaxTime
VARIABLES shared, clock, buckets, stamps, sequence, lives, active, setLives, flying, log, last, late
Rates == INSTANCE RateLimits WITH Keys <- RateKeys, Limit <- RateLimit, Window <- RateWindow
rateVars == <<shared, clock, buckets, stamps, sequence, lives, active, setLives, flying, log, last,
              late>>

ASSUME AccessAssumption ==
    Auth!AuthAssumption /\ Roles!RolesAssumption /\ Rates!RateAssumption

accessVars == <<part, authVars, roleVars, rateVars>>

AccessInit == Auth!Init /\ Roles!Init /\ Rates!Init

AuthStep == part = "auth" /\ Auth!Next /\ UNCHANGED <<part, roleVars, rateVars>>
RoleStep == part = "roles" /\ Roles!Next /\ UNCHANGED <<part, authVars, rateVars>>
RateStep == part = "rates" /\ Rates!Next /\ UNCHANGED <<part, authVars, roleVars>>

AccessNext == AuthStep \/ RoleStep \/ RateStep

AccessSpec == AccessInit /\ [][AccessNext]_accessVars

AccessTypes ==
    /\ part = "auth" => Auth!TypeOK
    /\ part = "roles" => Roles!TypeOK
    /\ part = "rates" => Rates!TypeOK

AccessIsSafe ==
    /\ part = "auth" => Auth!TokensAreSafe
    /\ part = "roles" => Roles!RolesAreSafe
    /\ part = "rates" => Rates!RatesAreLimited
=============================================================================
