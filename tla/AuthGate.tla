------------------------------- MODULE AuthGate -------------------------------
(***************************************************************************)
(* What a request to the MCP endpoint passes before it is served           *)
(* (server/passthroughAuthMiddleware.ts, server/oauth): the session token  *)
(* of a caller from Tableau, which is looked up in a cache or shown to     *)
(* Tableau, or else an OAuth token, which is validated, shown to Tableau   *)
(* and compared with the scopes the request requires.  A refusal names the *)
(* scopes to ask for; /oauth2/authorize grants them.                       *)
(*                                                                         *)
(* Requests overlap while Tableau is asked, which takes RequestTimeout at  *)
(* most; sessions end at any time.                                         *)
(***************************************************************************)
EXTENDS Naturals, FiniteSets

CONSTANTS
    Request,         \* requests that may overlap
    Session,         \* sessions of users with Tableau
    Tool, Enabled,   \* tools with scopes, and those that are registered
    McpScopes,       \* toolScopeMap[tool].mcp
    ApiScopes,       \* toolScopeMap[tool].api
    Interval,        \* passthroughAuthUserSessionCheckInterval, or 0
    MaxEntries,      \* PASSTHROUGH_AUTH_CACHE_MAX_ENTRIES
    RequestTimeout,  \* maxRequestTimeoutMs
    TokenLife,       \* accessTokenTimeoutMs
    MaxValidations,  \* bound: OAuth tokens shown to Tableau at a time
    MaxTime,         \* bound: ticks
    None

\* What the constants are assumed to be.
GateAssumption ==
    /\ Enabled \subseteq Tool
    /\ {Interval, MaxEntries, RequestTimeout, TokenLife, MaxValidations, MaxTime}
          \subseteq Nat
    /\ None \notin Session \cup Nat

\* What is asked for: a tool, or a message that is no call of a known tool.
Query == Tool \cup {"initialize", "other"}

VARIABLES
    enforceScopes, advertiseApiScopes,   \* configuration
    ended,      \* when a session ended, or None
    cache,      \* passthroughAuthInfoCache: when an entry expires, or None
    pc,         \* requests for which Tableau is being asked
    token,      \* the OAuth token the client holds, or None
    challenge,  \* the last refusal the client saw: the query, and the scopes named
    followed,   \* history: the query whose challenge the token was granted for
    answer,     \* history: an answer of now, and how long the session had been over
    now

config == <<enforceScopes, advertiseApiScopes>>
client == <<token, challenge, followed>>
vars == <<config, ended, cache, pc, client, answer, now>>

Idle == [at |-> "idle"]

Init == /\ enforceScopes \in BOOLEAN /\ advertiseApiScopes \in BOOLEAN
        /\ ended = [s \in Session |-> None]
        /\ cache = [s \in Session |-> None]
        /\ pc = [r \in Request |-> Idle]
        /\ token = None
        /\ challenge = None
        /\ followed = None
        /\ answer = None
        /\ now = 0

-----------------------------------------------------------------------------
(* Scopes.                                                                 *)

Held(scopesOf, tools) == UNION {scopesOf[t] : t \in tools}

\* getSupportedMcpScopes, getSupportedScopes: of the enabled tools.
SupportedMcp == Held(McpScopes, Enabled)
SupportedApi == IF advertiseApiScopes THEN Held(ApiScopes, Enabled) ELSE {}

\* getRequiredMcpScopesForRequest.
RequiredMcp(q) == IF q \in Tool THEN McpScopes[q] ELSE SupportedMcp

\* getRequiredApiScopesForRequest.
RequiredApi(q) == IF ~advertiseApiScopes THEN {}
                  ELSE IF q \in Tool THEN ApiScopes[q]
                  ELSE IF q = "initialize" THEN SupportedApi
                  ELSE {}

Required(q) == RequiredMcp(q) \cup RequiredApi(q)

\* Mutant: the refusal only names the MCP scopes.
Named_McpOnly(q) == IF enforceScopes THEN RequiredMcp(q) ELSE {}

\* The scope parameter of WWW-Authenticate, empty if there is none.
Named(q) == IF enforceScopes THEN Required(q) ELSE {}

Over(s) == IF ended[s] = None THEN 0 ELSE now - ended[s]

Answered(verdict, lag) == answer' = [verdict |-> verdict, lag |-> lag]

Refuse(q, verdict, named) ==
    /\ challenge' = [query |-> q, scopes |-> named]
    /\ Answered(verdict, 0)
    /\ UNCHANGED <<token, followed>>

\* No token, or one that is invalid or expired: 401.
Unauthenticated(q) ==
    /\ \/ /\ token = None
          /\ Refuse(q, "unauthorized", IF RequiredMcp(q) = {} THEN {} ELSE Named(q))
       \/ /\ token # None
          /\ token.exp < now
          /\ token' = None
          /\ followed' = None
          /\ Answered("invalid", 0)
          /\ UNCHANGED challenge
    /\ UNCHANGED <<config, ended, cache, pc, now>>

\* A fresh token is shown to Tableau.
ValidateStarts(r, q) ==
    /\ pc[r] = Idle
    /\ token # None
    /\ token.exp >= now
    /\ Cardinality({x \in Request : "query" \in DOMAIN pc[x]}) < MaxValidations
    /\ pc' = [pc EXCEPT ![r] = [at |-> "asked", query |-> q, session |-> token.session,
                                scopes |-> token.scopes, followed |-> followed,
                                since |-> now]]
    /\ UNCHANGED <<config, ended, cache, client, answer, now>>

\* Tableau looks at the session; its answer is still on its way.
TableauAnswers(r) ==
    /\ pc[r].at = "asked"
    /\ pc' = [pc EXCEPT ![r].at = IF ended[pc[r].session] = None THEN "alive" ELSE "over"]
    /\ UNCHANGED <<config, ended, cache, client, answer, now>>

\* Tableau reports no session, or does not answer in time: 401.
SessionRejected(r) ==
    /\ pc[r].at = "over" \/ (pc[r].at # "idle" /\ now = pc[r].since + RequestTimeout)
    /\ pc' = [pc EXCEPT ![r] = Idle]
    /\ Answered("invalid", 0)
    /\ UNCHANGED <<config, ended, cache, client, now>>

\* Every scope there is to check is held: req.auth is set.
Validated(r) ==
    /\ pc[r].at = "alive"
    /\ "query" \in DOMAIN pc[r]
    /\ pc' = [pc EXCEPT ![r] = Idle]
    /\ IF enforceScopes /\ ~(Required(pc[r].query) \subseteq pc[r].scopes)
       THEN Refuse(pc[r].query,
                   IF pc[r].query = pc[r].followed THEN "insufficient again" ELSE "insufficient",
                   Named(pc[r].query))
       ELSE Answered("admitted", Over(pc[r].session)) /\ UNCHANGED client
    /\ UNCHANGED <<config, ended, cache, now>>

\* /oauth2/authorize, the login and /oauth2/token: unsupported scopes are
\* refused, no scopes stand for all of them.  A client asks for what one of
\* its requests was refused for.
Authorize(s) ==
    /\ ended[s] = None
    /\ challenge # None
    /\ challenge.scopes \subseteq SupportedMcp \cup SupportedApi
    /\ LET granted == IF challenge.scopes # {} THEN challenge.scopes
                      ELSE IF enforceScopes THEN SupportedMcp \cup SupportedApi
                      ELSE {}
       IN  token' = [scopes |-> granted, session |-> s, exp |-> now + TokenLife]
    /\ followed' = challenge.query
    /\ challenge' = None
    /\ UNCHANGED <<config, ended, cache, pc, answer, now>>

-----------------------------------------------------------------------------
(* The session token of a caller that is already signed in to Tableau.     *)

Cached(s) == cache[s] # None

PassthroughHit(s) ==
    /\ Cached(s)
    /\ Answered("admitted", Over(s))
    /\ UNCHANGED <<config, ended, cache, pc, client, now>>

PassthroughMiss(r, s) ==
    /\ pc[r] = Idle
    /\ ~Cached(s)
    /\ pc' = [pc EXCEPT ![r] = [at |-> "asked", session |-> s, since |-> now]]
    /\ UNCHANGED <<config, ended, cache, client, answer, now>>

\* The session is remembered while there is room; it may be there already, by
\* a request that overlapped.
PassthroughAdmits(r) ==
    /\ pc[r].at = "alive"
    /\ "query" \notin DOMAIN pc[r]
    /\ cache' = IF Interval > 0 /\ Cardinality({s \in Session : Cached(s)}) < MaxEntries
                THEN [cache EXCEPT ![pc[r].session] = now + Interval]
                ELSE cache
    /\ pc' = [pc EXCEPT ![r] = Idle]
    /\ Answered("admitted", Over(pc[r].session))
    /\ UNCHANGED <<config, ended, client, now>>

-----------------------------------------------------------------------------
SessionEnds(s) ==
    /\ ended[s] = None
    /\ ended' = [ended EXCEPT ![s] = now]
    /\ UNCHANGED <<config, cache, pc, client, answer, now>>

\* Mutant: an entry has no timer.
Remembered_Forever == cache

\* The entries whose timers are not due a tick later.
Remembered == [s \in Session |-> IF cache[s] = now + 1 THEN None ELSE cache[s]]

\* Requests are answered, or given up, in time.
Tick ==
    /\ now < MaxTime
    /\ \A r \in Request : pc[r] # Idle => now < pc[r].since + RequestTimeout
    /\ now' = now + 1
    /\ cache' = Remembered
    /\ answer' = None
    /\ UNCHANGED <<config, ended, pc, client>>

Next == \/ \E q \in Query : \/ Unauthenticated(q)
                            \/ \E r \in Request : ValidateStarts(r, q)
        \/ \E r \in Request : \/ TableauAnswers(r)
                              \/ SessionRejected(r)
                              \/ Validated(r)
                              \/ PassthroughAdmits(r)
                              \/ \E s \in Session : PassthroughMiss(r, s)
        \/ \E s \in Session : PassthroughHit(s) \/ SessionEnds(s) \/ Authorize(s)
        \/ Tick

Spec == Init /\ [][Next]_vars

-----------------------------------------------------------------------------
(* Properties.                                                             *)

\* Who is admitted has, or had no longer than an Interval and the time of one
\* request ago, a live session with Tableau: also when validations of one
\* token overlap and the answer of an early one comes late
\* (passthroughAuthMiddleware.ts:56-100, accessTokenValidator.ts:73-86).
AdmittedIsFresh ==
    answer # None /\ answer.verdict = "admitted" => answer.lag <= Interval + RequestTimeout

\* A refusal never sends the client for scopes it cannot be granted, and a
\* client that was granted what the refusal of a query named is not refused
\* that query for its scopes again - all for queries the server supports
\* (authMiddleware.ts:52-64, 103-151, authorize.ts:116-139).
StepUpSuffices ==
    challenge # None /\ challenge.query \notin Tool \ Enabled =>
        /\ challenge.scopes \subseteq SupportedMcp \cup SupportedApi
        /\ answer # None => answer.verdict # "insufficient again"

\* What scopes.ts:423-425 says: the scopes of tools that are not registered
\* "must not be advertised or enforced either - otherwise a client could be
\* asked to hold scopes for tools that don't exist".
NoScopesOfMissingTools ==
    challenge # None => challenge.scopes \subseteq SupportedMcp \cup SupportedApi
=============================================================================
