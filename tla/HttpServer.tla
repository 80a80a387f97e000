------------------------------- MODULE HttpServer -------------------------------
(***************************************************************************)
(* What an HTTP request meets before a tool runs: the gate (AuthGate), the *)
(* authorization server a refusal sends its client to (OAuthTokens), and   *)
(* the sessions (McpSessions).  Their handlers share no variable of the    *)
(* process, so their steps interleave freely.                              *)
(***************************************************************************)
EXTENDS Naturals

CONSTANTS
    None,
    \* the gate: requests that are authenticated, sessions with Tableau, tools
    \* with scopes
    Validation, TableauSession, ScopedTool, Enabled, McpScopes, ApiScopes, Interval,
    MaxEntries, RequestTimeout, TokenLife, MaxValidations, MaxTime,
    \* the authorization server: logins, requests for a grant
    Login, Grant, MaxTokens,
    \* the sessions: the requests of clients, tools a site may include
    Request, Client, User, Tool, Include, Exclude, DefaultLevel, NoticeLevel, MaxLevel

VARIABLES
    enforceScopes, advertiseApiScopes, ended, cache, pc, token, challenge, followed,
    answer, now,
    pendingAuthorizations, authorizationCodes, codeExpired, refreshTokens,
    refreshTokenIndex, timed, expired, granting, issued, sessionsIssued, endedTokens,
    stateless, breakGlass, started, req, sessions, server, level, asked, lastLog, measured

gateVars     == <<enforceScopes, advertiseApiScopes, ended, cache, pc, token, challenge,
                  followed, answer, now>>
oauthVars    == <<pendingAuthorizations, authorizationCodes, codeExpired, refreshTokens,
                  refreshTokenIndex, timed, expired, granting, issued, sessionsIssued,
                  endedTokens>>
sessionsVars == <<stateless, breakGlass, started, req, sessions, server, level, asked,
                  lastLog, measured>>

Gate == INSTANCE AuthGate WITH
            Request <- Validation, Session <- TableauSession, Tool <- ScopedTool

OAuth == INSTANCE OAuthTokens WITH
             Request <- Grant, pc <- granting, sessions <- sessionsIssued,
             ended <- endedTokens

Sessions == INSTANCE McpSessions

\* What the components assume of their constants.
ASSUME GateAssumption     == Gate!GateAssumption
ASSUME OAuthAssumption    == OAuth!OAuthAssumption
ASSUME SessionsAssumption == Sessions!SessionsAssumption

Init == Gate!Init /\ OAuth!Init /\ Sessions!Init

Next == \/ Gate!Next /\ UNCHANGED <<oauthVars, sessionsVars>>
        \/ OAuth!Next /\ UNCHANGED <<gateVars, sessionsVars>>
        \/ Sessions!Next /\ UNCHANGED <<gateVars, oauthVars>>

Spec == Init /\ [][Next]_<<gateVars, oauthVars, sessionsVars>>

-----------------------------------------------------------------------------
(* Properties.                                                             *)

\* Who is admitted had a live session not long ago (passthroughAuthMiddleware.ts:56-100).
AdmittedIsFresh == Gate!AdmittedIsFresh

\* Following a refusal to an authorization suffices (authMiddleware.ts:52-151).
StepUpSuffices == Gate!StepUpSuffices

\* Grants, rotations and revocations keep tokens apart (token.ts:69-285).
TokensAreSound == OAuth!TokensAreSound

\* revoke.ts:106-107: revoking an access token also deletes "any refresh tokens from
\* the Map that are associated with the same Tableau session token".
RevocationIsComplete == OAuth!RevocationIsComplete

\* Sessions, calls and refusals stay what they should be (sessions.ts, express.ts).
SessionsAreSound == Sessions!SessionsAreSound
=============================================================================
