----------------------------- MODULE AuthSessions -----------------------------
(***************************************************************************)
(* The login sessions of one account: registration, login, refresh, logout *)
(* and the check every protected request makes when it enters.  A token    *)
(* only names its session; whether it is good is read from the row.        *)
(***************************************************************************)
CONSTANTS
    Requests,  \* HTTP requests that take more than a step, each served once
    Logins     \* sessions a login may create

VARIABLES
    account,      \* users: absent, stored before passwords existed, or able to log in
    authSession,  \* auth_sessions, by session
    accessToken,  \* whether a client holds an access token that has not expired
    request       \* what each request does, its next step and its session

authVars == <<account, authSession, accessToken, request>>

NoRow == [open |-> FALSE, revoked |-> FALSE, expired |-> FALSE]

Unserved == [op |-> "NONE", at |-> "idle", session |-> "none"]

AuthInit ==
    /\ account \in {"NONE", "HISTORICAL"}
    /\ authSession = [s \in Logins |-> NoRow]
    /\ accessToken = [s \in Logins |-> FALSE]
    /\ request = [r \in Requests |-> Unserved]

At(r, op, step) == request[r].op = op /\ request[r].at = step

Serve(r, op, step, s) ==
    /\ request[r] = Unserved
    /\ request' = [request EXCEPT ![r] = [op |-> op, at |-> step, session |-> s]]

Answer(r) == request' = [request EXCEPT ![r].at = "done"]

\* _get_usable_session; the digest of a refresh token is that of its session.
Usable(s) == authSession[s].open /\ ~authSession[s].revoked /\ ~authSession[s].expired

Authenticated(s) == accessToken[s] /\ Usable(s)

-----------------------------------------------------------------------------
\* The constraint on the name refuses an account that exists.
Register ==
    /\ account = "NONE" /\ account' = "ACTIVE"
    /\ UNCHANGED <<authSession, accessToken, request>>

\* A script gives a historical account its name and password.
SetExistingUserPassword ==
    /\ account = "HISTORICAL"
    /\ account' = "ACTIVE"
    /\ UNCHANGED <<authSession, accessToken, request>>

Login(s) ==
    /\ account = "ACTIVE" /\ ~authSession[s].open
    /\ authSession' = [authSession EXCEPT ![s].open = TRUE]
    /\ accessToken' = [accessToken EXCEPT ![s] = TRUE]
    /\ UNCHANGED <<account, request>>

RefreshRead(r, s) ==
    /\ Usable(s)
    /\ Serve(r, "REFRESH", "commit", s)
    /\ UNCHANGED <<account, authSession, accessToken>>

\* Faulty variant: the whole row is written back as it was loaded.
FaultyRefreshCommit(r) ==
    /\ At(r, "REFRESH", "commit")
    /\ authSession' = [authSession EXCEPT ![request[r].session].revoked = FALSE]
    /\ accessToken' = [accessToken EXCEPT ![request[r].session] = TRUE]
    /\ Answer(r)
    /\ UNCHANGED account

\* Only the changed column is written, updated_at; the new token is issued
\* although the session may have been revoked since it was read.
RefreshCommit(r) ==
    /\ At(r, "REFRESH", "commit")
    /\ accessToken' = [accessToken EXCEPT ![request[r].session] = TRUE]
    /\ Answer(r)
    /\ UNCHANGED <<account, authSession>>

LogoutEnter(r, s) ==
    /\ Authenticated(s)
    /\ Serve(r, "LOGOUT", "commit", s)
    /\ UNCHANGED <<account, authSession, accessToken>>

LogoutCommit(r) ==
    /\ At(r, "LOGOUT", "commit")
    /\ authSession' = [authSession EXCEPT ![request[r].session].revoked = TRUE]
    /\ Answer(r)
    /\ UNCHANGED <<account, accessToken>>

\* The database refuses a refresh or a logout.
CommitFails(r) ==
    /\ request[r].at = "commit"
    /\ Answer(r)
    /\ UNCHANGED <<account, authSession, accessToken>>

\* get_current_authentication, before the handler of a protected request.
Enter(r, s) ==
    /\ Authenticated(s)
    /\ Serve(r, "PROTECTED", "inside", s)
    /\ UNCHANGED <<account, authSession, accessToken>>

\* Time passes: an access token or a session expires.
Expire(s) ==
    /\ \/ /\ accessToken[s]
          /\ accessToken' = [accessToken EXCEPT ![s] = FALSE]
          /\ UNCHANGED authSession
       \/ /\ authSession[s].open /\ ~authSession[s].expired
          /\ authSession' = [authSession EXCEPT ![s].expired = TRUE]
          /\ UNCHANGED accessToken
    /\ UNCHANGED <<account, request>>

AuthStep(r) ==
    \/ RefreshCommit(r) \/ LogoutCommit(r) \/ CommitFails(r)
    \/ \E s \in Logins : RefreshRead(r, s) \/ LogoutEnter(r, s) \/ Enter(r, s)

AccountStep ==
    \/ Register \/ SetExistingUserPassword
    \/ \E s \in Logins : Login(s) \/ Expire(s)

AuthNext == AccountStep \/ \E r \in Requests : AuthStep(r)

-----------------------------------------------------------------------------

AuthTypeOK ==
    /\ account \in {"NONE", "HISTORICAL", "ACTIVE"}
    /\ authSession \in [Logins -> [open : BOOLEAN, revoked : BOOLEAN, expired : BOOLEAN]]
    /\ accessToken \in [Logins -> BOOLEAN]
    /\ request \in [Requests ->
           [op : {"NONE", "REFRESH", "LOGOUT", "PROTECTED"},
            at : {"idle", "commit", "inside", "done"},
            session : Logins \union {"none"}]]

\* Once a session has been logged out it stays so, whatever refreshes are under
\* way, and no request enters with it (AuthSession: a logout blocks the session
\* at once).
LoggedOutStaysOut ==
    \A s \in Logins : authSession[s].revoked =>
        /\ authSession'[s].revoked
        /\ \A r \in Requests :
               request'[r].session = s /\ request'[r].at = "inside" => request[r].at = "inside"

LogoutIsFinal == [][LoggedOutStaysOut]_authVars
=============================================================================
