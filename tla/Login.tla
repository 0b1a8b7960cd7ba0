------------------------------- MODULE Login -------------------------------
(***************************************************************************)
(* POST /auth/login and /auth/refresh and the check in front of every      *)
(* other endpoint (app/api/v1/auth.py, services/auth.py, api/deps.py), on  *)
(* top of the limiter.                                                     *)
(*                                                                         *)
(* Tokens are stateless: whoever has one can use it until it expires by the*)
(* wall clock, which is not the limiter's.  No endpoint deactivates a user;*)
(* an administrator of the database does.                                  *)
(***************************************************************************)
EXTENDS RateLimiter, FiniteSets

CONSTANTS
    Users,
    Slots,          \* logins, and other requests, served concurrently
    None

ASSUME LoginAssumption == None \notin Users \cup Keys /\ IsFiniteSet(Slots)

VARIABLES
    is_active,      \* users.is_active
    attempts,       \* the logins being served
    serving,        \* the user a request is being served for
    tokens,         \* the tokens that clients hold and that have not expired
    login_failed,   \* audit entries auth.login_failed, by ip_address
    login,          \* audit entries auth.login, by ip_address
    logged_in,      \* the users named in them
    died            \* history: logins that died, by address

authVars == <<is_active, attempts, serving, tokens, login_failed, login,
              logged_in, died>>
loginVars == <<vars, authVars>>

NoAttempt == [at |-> "idle", user |-> None, key |-> None]

Attempt == [at : {"allowed", "authenticated", "failed", "recorded"},
            user : Users, key : Keys]

\* The logins from an address that are being served.
InFlight(key) == {s \in Slots : attempts[s].key = key}

Token == [type : {"access", "refresh"}, user : Users]

TokensOf(u) == {t \in Token : t.user = u}

LoginInit ==
    /\ Init
    /\ is_active = [u \in Users |-> TRUE]
    /\ attempts = [s \in Slots |-> NoAttempt]
    /\ serving = [s \in Slots |-> None]
    /\ tokens = {}
    /\ login_failed = [key \in Keys |-> 0]
    /\ login = [key \in Keys |-> 0]
    /\ logged_in = {}
    /\ died = [key \in Keys |-> 0]

-----------------------------------------------------------------------------
(* POST /auth/login *)

\* The limiter lets the call in.
LoginAllowed(s, key, u) ==
    /\ attempts[s] = NoAttempt
    /\ Allow(key)
    /\ attempts' = [attempts EXCEPT ![s] = [at |-> "allowed", user |-> u,
                                            key |-> key]]
    /\ UNCHANGED <<is_active, serving, tokens, login_failed, login, logged_in,
                   died>>

\* 429, before the database is asked or an audit entry is added.
LoginRefused(key) == Refuse(key) /\ UNCHANGED authVars

\* The user is read and the password verified.
Authenticate(s) ==
    /\ attempts[s].at = "allowed"
    /\ \E at \in {"authenticated", "failed"} :
          /\ at = "authenticated" => is_active[attempts[s].user]
          /\ attempts' = [attempts EXCEPT ![s].at = at]
    /\ UNCHANGED <<vars, is_active, serving, tokens, login_failed, login,
                   logged_in, died>>

\* authenticate commits last_login_at.
RecordLogin(s) ==
    /\ attempts[s].at = "authenticated"
    /\ attempts' = [attempts EXCEPT ![s].at = "recorded"]
    /\ UNCHANGED <<vars, is_active, serving, tokens, login_failed, login,
                   logged_in, died>>

\* The audit entry is committed, then the tokens are issued; the answer may be
\* lost.
LoginCommit(s) ==
    LET u == attempts[s].user
    IN  /\ attempts[s].at = "recorded"
        /\ login' = [login EXCEPT ![attempts[s].key] = @ + 1]
        /\ logged_in' = logged_in \cup {u}
        /\ \/ tokens' = tokens \cup TokensOf(u)
           \/ UNCHANGED tokens
        /\ attempts' = [attempts EXCEPT ![s] = NoAttempt]
        /\ UNCHANGED <<vars, is_active, serving, login_failed, died>>

\* Mutated: the session rolls back with the exception.
LoginFailedRollback(s) ==
    /\ attempts[s].at = "failed"
    /\ attempts' = [attempts EXCEPT ![s] = NoAttempt]
    /\ UNCHANGED <<vars, is_active, serving, tokens, login_failed, login,
                   logged_in, died>>

\* 401 or 403, after the audit entry has been committed.
LoginFailed(s) ==
    /\ attempts[s].at = "failed"
    /\ login_failed' = [login_failed EXCEPT ![attempts[s].key] = @ + 1]
    /\ attempts' = [attempts EXCEPT ![s] = NoAttempt]
    /\ UNCHANGED <<vars, is_active, serving, tokens, login, logged_in, died>>

LoginDies(s) ==
    /\ attempts[s] # NoAttempt
    /\ died' = [died EXCEPT ![attempts[s].key] = @ + 1]
    /\ attempts' = [attempts EXCEPT ![s] = NoAttempt]
    /\ UNCHANGED <<vars, is_active, serving, tokens, login_failed, login,
                   logged_in>>

-----------------------------------------------------------------------------

\* Mutated: the tokens follow from the refresh token alone.
RefreshStateless(t) ==
    /\ t.type = "refresh"
    /\ tokens' = tokens \cup TokensOf(t.user)
    /\ UNCHANGED <<vars, is_active, attempts, serving, login_failed, login,
                   logged_in, died>>

\* POST /auth/refresh: a new pair; the old refresh token stays good.
Refresh(t) ==
    /\ t.type = "refresh"
    /\ is_active[t.user]
    /\ tokens' = tokens \cup TokensOf(t.user)
    /\ UNCHANGED <<vars, is_active, attempts, serving, login_failed, login,
                   logged_in, died>>

\* get_current_user lets a request in; its handler does not look again.
Call(s, t) ==
    /\ serving[s] = None
    /\ t.type = "access"
    /\ is_active[t.user]
    /\ serving' = [serving EXCEPT ![s] = t.user]
    /\ UNCHANGED <<vars, is_active, attempts, tokens, login_failed, login,
                   logged_in, died>>

CallEnds(s) ==
    /\ serving[s] # None
    /\ serving' = [serving EXCEPT ![s] = None]
    /\ UNCHANGED <<vars, is_active, attempts, tokens, login_failed, login,
                   logged_in, died>>

Expire(t) ==
    /\ tokens' = tokens \ {t}
    /\ UNCHANGED <<vars, is_active, attempts, serving, login_failed, login,
                   logged_in, died>>

Activate(u, active) ==
    /\ is_active' = [is_active EXCEPT ![u] = active]
    /\ UNCHANGED <<vars, attempts, serving, tokens, login_failed, login,
                   logged_in, died>>

LoginNext ==
    \/ Tick /\ UNCHANGED authVars
    \/ \E key \in Keys : \/ LoginRefused(key)
                         \/ \E s \in Slots, u \in Users : LoginAllowed(s, key, u)
    \/ \E s \in Slots : \/ Authenticate(s) \/ RecordLogin(s)
                        \/ LoginCommit(s) \/ LoginFailed(s) \/ LoginDies(s)
                        \/ CallEnds(s)
    \/ \E t \in tokens : \/ Refresh(t) \/ Expire(t)
                         \/ \E s \in Slots : Call(s, t)
    \/ \E u \in Users, active \in BOOLEAN : Activate(u, active)

LoginSpec == LoginInit /\ [][LoginNext]_loginVars

-----------------------------------------------------------------------------
(* Properties *)

LoginTypeOK ==
    /\ TypeOK
    /\ is_active \in [Users -> BOOLEAN]
    /\ attempts \in [Slots -> Attempt \cup {NoAttempt}]
    /\ serving \in [Slots -> Users \cup {None}]
    /\ tokens \subseteq Token
    /\ login_failed \in [Keys -> Nat] /\ login \in [Keys -> Nat]
    /\ logged_in \subseteq Users
    /\ died \in [Keys -> Nat]

\* Every call that the limiter let in, and so every password that was tried, is
\* in the audit trail once, under the address it was counted for, whether it
\* succeeded or raised, unless it is still being served or died.
AttemptsAreAudited ==
    \A key \in Keys :
        Len(allowed[key]) = login_failed[key] + login[key] + died[key]
                              + Cardinality(InFlight(key))

\* A user who has been deactivated is served no new request and gets no token,
\* whatever tokens he holds, but for a login that was past its check; nobody
\* ever holds a token without a login of his in the audit trail.
DeactivatedGetsNothing ==
    [][\A u \in Users :
          /\ \/ is_active[u]
             \/ /\ TokensOf(u) \cap tokens' \subseteq tokens
                /\ \A s \in Slots : serving'[s] = u => serving[s] = u
             \/ \E s \in Slots : /\ attempts[s].at = "recorded"
                                 /\ attempts[s].user = u
                                 /\ attempts'[s] = NoAttempt
          /\ TokensOf(u) \cap tokens' # {} => u \in logged_in']_loginVars
=============================================================================
