----------------------------- MODULE OAuthTokens -----------------------------
(***************************************************************************)
(* The grants of the embedded authorization server (server/oauth): a login *)
(* is pending from /oauth2/authorize until /Callback turns it into an      *)
(* authorization code, /oauth2/token exchanges the code for a refresh      *)
(* token and rotates refresh tokens, /oauth2/revoke ends them.  They live  *)
(* in Maps of the process.  A request reads them, awaits Tableau or the    *)
(* encryption of its answer, and only then writes, so requests of clients  *)
(* that retry or work in parallel interleave at the awaits.                *)
(*                                                                         *)
(* A Tableau session (an access token and the refresh token that renews    *)
(* it) is a number; so is the id of an MCP refresh token.                  *)
(***************************************************************************)
EXTENDS Naturals, FiniteSets

CONSTANTS
    Login,       \* authorizations of users, by their authKey
    Request,     \* requests to /Callback and /oauth2/token that may overlap
    MaxTokens,   \* bound: refresh tokens, and Tableau sessions, ever issued
    None

\* What the constants are assumed to be.
OAuthAssumption == /\ MaxTokens \in Nat
                   /\ None \notin Nat \cup Login

VARIABLES
    pendingAuthorizations,  \* the logins that wait for their callback
    authorizationCodes,     \* [Login -> session behind its code, or None]
    codeExpired,            \* the codes past their expiresAt
    refreshTokens,          \* the Map: [id, login, session]
    refreshTokenIndex,      \* [session -> id, or None]
    timed,                  \* the tokens whose deletion is on a timer
    expired,                \* the tokens past their expiresAt
    pc,                     \* what each request awaits, and what it has read
    issued, sessions,       \* the numbers given out
    ended                   \* history: tokens used, revoked or lost in a restart

maps == <<pendingAuthorizations, authorizationCodes, codeExpired,
          refreshTokens, refreshTokenIndex, timed, expired>>
vars == <<maps, pc, issued, sessions, ended>>

Idle == [at |-> "idle"]
Session == 1 .. MaxTokens
Live == {t.id : t \in refreshTokens}

Init == /\ pendingAuthorizations = {}
        /\ authorizationCodes = [l \in Login |-> None]
        /\ codeExpired = {}
        /\ refreshTokens = {}
        /\ refreshTokenIndex = [s \in Session |-> None]
        /\ timed = {} /\ expired = {}
        /\ pc = [r \in Request |-> Idle]
        /\ issued = 0 /\ sessions = 0
        /\ ended = {}

-----------------------------------------------------------------------------
\* The request passed every check of /oauth2/authorize; one that fails leaves
\* no trace here.  A login's name is used again once nothing is left of it.
Authorize(l) ==
    /\ l \notin pendingAuthorizations
    /\ authorizationCodes[l] = None
    /\ \A t \in refreshTokens : t.login # l
    /\ \A r \in Request : pc[r] # Idle => pc[r].login # l
    /\ pendingAuthorizations' = pendingAuthorizations \cup {l}
    /\ UNCHANGED <<authorizationCodes, codeExpired, refreshTokens, timed,
                   expired, refreshTokenIndex, pc, issued, sessions, ended>>

PendingExpires(l) ==
    /\ l \in pendingAuthorizations
    /\ pendingAuthorizations' = pendingAuthorizations \ {l}
    /\ UNCHANGED <<authorizationCodes, codeExpired, refreshTokens, timed,
                   expired, refreshTokenIndex, pc, issued, sessions, ended>>

Await(r, what) == pc' = [pc EXCEPT ![r] = what]

\* /Callback with the state of a pending login; any other is refused.
CallbackStarts(r, l) ==
    /\ pc[r] = Idle
    /\ l \in pendingAuthorizations
    /\ Await(r, [at |-> "callback", login |-> l])
    /\ UNCHANGED <<maps, issued, sessions, ended>>

\* Tableau honours its own code once, so one callback of a login gets here.
CallbackSucceeds(r) ==
    /\ pc[r].at = "callback"
    /\ sessions < MaxTokens
    /\ authorizationCodes[pc[r].login] = None
    /\ sessions' = sessions + 1
    /\ authorizationCodes' = [authorizationCodes EXCEPT ![pc[r].login] = sessions + 1]
    /\ pendingAuthorizations' = pendingAuthorizations \ {pc[r].login}
    /\ Await(r, Idle)
    /\ UNCHANGED <<codeExpired, refreshTokens, refreshTokenIndex, timed, expired,
                   issued, ended>>

\* Tableau refuses the code or the session, or the host or site is another.
CallbackFails(r) ==
    /\ pc[r].at = "callback"
    /\ Await(r, Idle)
    /\ UNCHANGED <<maps, issued, sessions, ended>>

-----------------------------------------------------------------------------
\* The code is known, fresh, and matches verifier, redirect URI and client;
\* the await is the encryption of the access token.
ExchangeStarts(r, l) ==
    /\ pc[r] = Idle
    /\ authorizationCodes[l] # None
    /\ l \notin codeExpired
    /\ Await(r, [at |-> "exchange", login |-> l, session |-> authorizationCodes[l]])
    /\ UNCHANGED <<maps, issued, sessions, ended>>

\* A request with an expired code removes it.
ExchangeRefused(l) ==
    /\ l \in codeExpired
    /\ authorizationCodes' = [authorizationCodes EXCEPT ![l] = None]
    /\ codeExpired' = codeExpired \ {l}
    /\ UNCHANGED <<pendingAuthorizations, refreshTokens, refreshTokenIndex, timed,
                   expired, pc, issued, sessions, ended>>

NewToken(r, session) == [id |-> issued + 1, login |-> pc[r].login, session |-> session]

CodesAfter(l) == [authorizationCodes EXCEPT ![l] = None]

ExchangeAnswers(r) ==
    /\ pc[r].at = "exchange"
    /\ issued < MaxTokens
    /\ issued' = issued + 1
    /\ refreshTokens' = refreshTokens \cup {NewToken(r, pc[r].session)}
    /\ refreshTokenIndex' = [refreshTokenIndex EXCEPT ![pc[r].session] = issued + 1]
    /\ timed' = timed \cup {issued + 1}
    /\ authorizationCodes' = CodesAfter(pc[r].login)
    /\ codeExpired' = codeExpired \ {pc[r].login}
    /\ Await(r, Idle)
    /\ UNCHANGED <<pendingAuthorizations, expired, sessions, ended>>

-----------------------------------------------------------------------------
RefreshStarts(r, t) ==
    /\ pc[r] = Idle
    /\ t \in refreshTokens
    /\ t.id \notin expired
    /\ Await(r, [at |-> "refresh", login |-> t.login, session |-> t.session, id |-> t.id])
    /\ UNCHANGED <<maps, issued, sessions, ended>>

Forget(t) == /\ refreshTokens' = refreshTokens \ {t}
             /\ refreshTokenIndex' = [refreshTokenIndex EXCEPT ![t.session] = None]

\* A request with an expired token removes it.
RefreshRefused(t) ==
    /\ t \in refreshTokens
    /\ t.id \in expired
    /\ Forget(t)
    /\ UNCHANGED <<pendingAuthorizations, authorizationCodes, codeExpired, timed,
                   expired, pc, issued, sessions, ended>>

\* The id the rotation deletes: the one in the request.
Rotated(r) == pc[r].id

\* Mutant: the new token is filed under the old session.
IndexAfter_OldSession(r, session) ==
    [refreshTokenIndex EXCEPT ![pc[r].session] = issued + 1]

IndexAfter(r, session) ==
    [[refreshTokenIndex EXCEPT ![pc[r].session] = None] EXCEPT ![session] = issued + 1]

\* Tableau has renewed its session, or has failed to: then the old one is
\* stored again.  The rotated token gets no deletion timer.
RefreshAnswers(r, session) ==
    /\ pc[r].at = "refresh"
    /\ issued < MaxTokens
    /\ issued' = issued + 1
    /\ refreshTokens' = {t \in refreshTokens : t.id # Rotated(r)}
                            \cup {NewToken(r, session)}
    /\ refreshTokenIndex' = IndexAfter(r, session)
    /\ ended' = ended \cup {pc[r].id}
    /\ Await(r, Idle)
    /\ UNCHANGED <<pendingAuthorizations, authorizationCodes, codeExpired, timed,
                   expired>>

RefreshRenews(r) == /\ sessions < MaxTokens
                    /\ sessions' = sessions + 1
                    /\ RefreshAnswers(r, sessions + 1)

RefreshReuses(r) == /\ RefreshAnswers(r, pc[r].session)
                    /\ UNCHANGED sessions

-----------------------------------------------------------------------------
RevokeRefreshToken(t) ==
    /\ t \in refreshTokens
    /\ Forget(t)
    /\ ended' = ended \cup {t.id}
    /\ UNCHANGED <<pendingAuthorizations, authorizationCodes, codeExpired, timed,
                   expired, pc, issued, sessions>>

\* An access token is revoked through the session inside it.
RevokeAccessToken(s) ==
    /\ refreshTokenIndex[s] # None
    /\ refreshTokens' = {t \in refreshTokens : t.id # refreshTokenIndex[s]}
    /\ refreshTokenIndex' = [refreshTokenIndex EXCEPT ![s] = None]
    /\ ended' = ended \cup {refreshTokenIndex[s]}
    /\ UNCHANGED <<pendingAuthorizations, authorizationCodes, codeExpired, timed,
                   expired, pc, issued, sessions>>

-----------------------------------------------------------------------------
CodeExpires(l) ==
    /\ authorizationCodes[l] # None
    /\ codeExpired' = codeExpired \cup {l}
    /\ UNCHANGED <<pendingAuthorizations, authorizationCodes, refreshTokens, timed,
                   expired, refreshTokenIndex, pc, issued, sessions, ended>>

TokenExpires(id) ==
    /\ id \in Live
    /\ expired' = expired \cup {id}
    /\ UNCHANGED <<pendingAuthorizations, authorizationCodes, codeExpired,
                   refreshTokens, timed, refreshTokenIndex, pc, issued, sessions,
                   ended>>

\* The timer of a token leaves its index entry behind.
TimerDeletes(id) ==
    /\ id \in timed \cap expired
    /\ timed' = timed \ {id}
    /\ refreshTokens' = {t \in refreshTokens : t.id # id}
    /\ UNCHANGED <<pendingAuthorizations, authorizationCodes, codeExpired, expired,
                   refreshTokenIndex, pc, issued, sessions, ended>>

\* Nothing is persisted.
Restart ==
    /\ pendingAuthorizations' = {}
    /\ authorizationCodes' = [l \in Login |-> None]
    /\ codeExpired' = {}
    /\ refreshTokens' = {}
    /\ refreshTokenIndex' = [s \in Session |-> None]
    /\ timed' = {}
    /\ pc' = [r \in Request |-> Idle]
    /\ ended' = ended \cup Live
    /\ UNCHANGED <<expired, issued, sessions>>

Next == \/ \E l \in Login : \/ Authorize(l)
                            \/ PendingExpires(l)
                            \/ \E r \in Request : CallbackStarts(r, l) \/ ExchangeStarts(r, l)
                            \/ ExchangeRefused(l)
                            \/ CodeExpires(l)
        \/ \E r \in Request : \/ CallbackSucceeds(r)
                              \/ CallbackFails(r)
                              \/ ExchangeAnswers(r)
                              \/ RefreshRenews(r)
                              \/ RefreshReuses(r)
        \/ \E t \in refreshTokens : \/ \E r \in Request : RefreshStarts(r, t)
                                    \/ RefreshRefused(t)
                                    \/ RevokeRefreshToken(t)
        \/ \E s \in Session : RevokeAccessToken(s)
        \/ \E id \in 1 .. issued : TokenExpires(id) \/ TimerDeletes(id)
        \/ Restart

Spec == Init /\ [][Next]_vars

-----------------------------------------------------------------------------
(* Properties.                                                             *)

\* A refresh token a client was given ends only by its own use, its own
\* revocation, its own expiry or a restart, whatever other tokens of the same
\* login or session go through at the same time (token.ts:186-265).
OnlyItsOwnEnd ==
    1 .. issued \subseteq Live \cup ended \cup expired

\* The index never leads a revocation to the wrong token: what it finds
\* belongs to the session that is revoked, also through stale entries
\* (provider.ts:61-63, revoke.ts:138-143).
RevocationIsTargeted ==
    \A s \in Session : \A t \in refreshTokens :
        refreshTokenIndex[s] = t.id => t.session = s

\* A code is gone once an exchange of it was answered: an exchange that
\* starts later is refused (token.ts:134).
AnsweredCodeIsGone(r) ==
    pc[r].at = "exchange" /\ pc'[r] = Idle => authorizationCodes'[pc[r].login] = None

\* No step, of requests that overlap however they may, mixes up the tokens of
\* two logins or sessions or leaves an answered code behind (token.ts:69-285).
TokensAreSound ==
    [][/\ OnlyItsOwnEnd'
       /\ RevocationIsTargeted'
       /\ \A r \in Request : AnsweredCodeIsGone(r)]_vars

\* What the doc of tryRevokeAccessToken says: it deletes "any refresh tokens
\* from the Map that are associated with the same Tableau session token"
\* (revoke.ts:106-107).  The index knows one token of a session; two requests
\* that overlap, one of them a retry, file two.
RevocationIsComplete ==
    [][\A s \in Session : RevokeAccessToken(s)
            => \A t \in refreshTokens' : t.session # s]_vars
=============================================================================
