---------------------------- MODULE HttpServerProofs ----------------------------
(***************************************************************************)
(* Proofs about HttpServer, for every set of requests, sessions, users,    *)
(* logins and tools, every assignment of scopes, and with the three        *)
(* components interleaved freely.                                          *)
(***************************************************************************)
EXTENDS HttpServer, TLAPS

-----------------------------------------------------------------------------
(* The authorization server.                                               *)

\* What a request to /Callback or /oauth2/token has read before its await.
GrantState == {OAuth!Idle}
              \cup [at : {"callback"}, login : Login]
              \cup [at : {"exchange"}, login : Login, session : OAuth!Session]
              \cup [at : {"refresh"}, login : Login, session : OAuth!Session, id : Nat]

Token == [id : Nat, login : Login, session : OAuth!Session]

GrantsTypeOK ==
    /\ issued \in Nat /\ sessionsIssued \in Nat
    /\ authorizationCodes \in [Login -> OAuth!Session \cup {None}]
    /\ refreshTokens \subseteq Token
    /\ refreshTokenIndex \in [OAuth!Session -> Nat \cup {None}]
    /\ granting \in [Grant -> GrantState]

\* Numbers are given out once: neither a token nor the index is ahead of them.
NumbersAreIssued ==
    /\ \A t \in refreshTokens : t.id <= issued
    /\ \A s \in OAuth!Session : refreshTokenIndex[s] # None => refreshTokenIndex[s] <= issued

GrantsInv == /\ GrantsTypeOK
             /\ NumbersAreIssued
             /\ OAuth!OnlyItsOwnEnd
             /\ OAuth!RevocationIsTargeted

LEMMA GrantsInit == OAuth!Init => GrantsInv
BY OAuthAssumption
   DEF OAuth!Init, OAuth!OAuthAssumption, OAuth!Session, OAuth!Idle, GrantsInv, GrantsTypeOK,
       NumbersAreIssued, GrantState, OAuth!OnlyItsOwnEnd, OAuth!RevocationIsTargeted


\* A step that files no token keeps the invariant if every token it forgets is ended
\* or expired, and if it leads the index to no other token.
LEMMA ForgetsTokens ==
    ASSUME GrantsInv, GrantsTypeOK', UNCHANGED issued,
           refreshTokens' \subseteq refreshTokens,
           \A t \in refreshTokens \ refreshTokens' : t.id \in endedTokens' \cup expired',
           endedTokens \subseteq endedTokens', expired \subseteq expired',
           \A s \in OAuth!Session : refreshTokenIndex'[s] \in {None, refreshTokenIndex[s]}
    PROVE  GrantsInv'
<1> USE DEF GrantsInv
<1>1. NumbersAreIssued'
  BY DEF NumbersAreIssued
<1>2. OAuth!OnlyItsOwnEnd'
  BY DEF OAuth!OnlyItsOwnEnd, OAuth!Live
<1>3. OAuth!RevocationIsTargeted'
  BY OAuthAssumption
     DEF OAuth!RevocationIsTargeted, OAuth!OAuthAssumption, GrantsTypeOK, Token
<1>4. QED
  BY <1>1, <1>2, <1>3

\* A step that files a token forgets others only by ending them, and leads the index of
\* the new token's session, and no other, to it.
LEMMA FilesToken ==
    ASSUME GrantsInv, GrantsTypeOK', UNCHANGED expired, issued' = issued + 1,
           NEW new, new \in Token, new.id = issued + 1, new \in refreshTokens',
           refreshTokens' \subseteq refreshTokens \cup {new},
           \A t \in refreshTokens \ refreshTokens' : t.id \in endedTokens',
           endedTokens \subseteq endedTokens',
           \A s \in OAuth!Session :
               refreshTokenIndex'[s] \in
                   {None, IF s = new.session THEN issued + 1 ELSE refreshTokenIndex[s]}
    PROVE  GrantsInv'
<1> USE DEF GrantsInv, GrantsTypeOK
<1>1. NumbersAreIssued'
  BY DEF NumbersAreIssued, Token
<1>2. OAuth!OnlyItsOwnEnd'
  <2> SUFFICES ASSUME NEW n \in 1 .. issued + 1
               PROVE  n \in OAuth!Live' \cup endedTokens' \cup expired
    BY DEF OAuth!OnlyItsOwnEnd
  <2>1. CASE n = issued + 1
    BY <2>1 DEF OAuth!Live
  <2>2. CASE n # issued + 1
    <3>1. n \in OAuth!Live \cup endedTokens \cup expired
      BY <2>2 DEF OAuth!OnlyItsOwnEnd
    <3>2. QED
      BY <3>1 DEF OAuth!Live
  <2>3. QED
    BY <2>1, <2>2
<1>3. OAuth!RevocationIsTargeted'
  <2> SUFFICES ASSUME NEW s \in OAuth!Session, NEW t \in refreshTokens',
                      refreshTokenIndex'[s] = t.id
               PROVE  t.session = s
    BY DEF OAuth!RevocationIsTargeted
  <2>0. t \in Token
    OBVIOUS
  <2>1. CASE t = new
    BY <2>1, OAuthAssumption DEF NumbersAreIssued, OAuth!OAuthAssumption
  <2>2. CASE t # new
    <3>1. t \in refreshTokens /\ t.id <= issued /\ t.id \in Nat
      BY <2>0, <2>2 DEF NumbersAreIssued, Token
    <3>2. refreshTokenIndex[s] = t.id
      BY <3>1, OAuthAssumption DEF OAuth!OAuthAssumption
    <3>3. QED
      BY <3>1, <3>2 DEF OAuth!RevocationIsTargeted
  <2>3. QED
    BY <2>1, <2>2
<1>4. QED
  BY <1>1, <1>2, <1>3

\* Which record a request holds while it awaits something.
LEMMA Awaiting ==
    ASSUME GrantsTypeOK, NEW r \in Grant
    PROVE  /\ granting[r].at = "callback" => granting[r] \in [at : {"callback"}, login : Login]
           /\ granting[r].at = "exchange" =>
                granting[r] \in [at : {"exchange"}, login : Login, session : OAuth!Session]
           /\ granting[r].at = "refresh" =>
                granting[r] \in [at : {"refresh"}, login : Login,
                                 session : OAuth!Session, id : Nat]
           /\ granting[r] = OAuth!Idle => granting[r].at = "idle"
BY DEF GrantsTypeOK, GrantState, OAuth!Idle

\* What a step must keep: the invariant, and no answered code.
GrantsStep == GrantsInv' /\ \A r \in Grant : OAuth!AnsweredCodeIsGone(r)

LEMMA LoginsKeep ==
    ASSUME GrantsInv, NEW l \in Login,
           \/ OAuth!Authorize(l) \/ OAuth!PendingExpires(l) \/ OAuth!CodeExpires(l)
           \/ OAuth!ExchangeRefused(l)
           \/ \E r \in Grant : OAuth!CallbackStarts(r, l) \/ OAuth!ExchangeStarts(r, l)
    PROVE  GrantsStep
<1> USE DEF GrantsInv
<1>1. UNCHANGED <<refreshTokens, refreshTokenIndex, issued, expired, endedTokens>>
  BY DEF OAuth!Authorize, OAuth!PendingExpires, OAuth!CodeExpires, OAuth!ExchangeRefused,
         OAuth!CallbackStarts, OAuth!ExchangeStarts, OAuth!maps
<1>2. GrantsTypeOK' /\ \A r \in Grant : OAuth!AnsweredCodeIsGone(r)
  <2>1. CASE UNCHANGED <<granting, sessionsIssued>> /\
             (authorizationCodes' = authorizationCodes
              \/ authorizationCodes' = [authorizationCodes EXCEPT ![l] = None])
    BY <1>1, <2>1, Awaiting DEF GrantsTypeOK, OAuth!AnsweredCodeIsGone
  <2>2. ASSUME NEW r \in Grant, OAuth!CallbackStarts(r, l)
        PROVE  GrantsTypeOK' /\ \A x \in Grant : OAuth!AnsweredCodeIsGone(x)
    <3>1. [at |-> "callback", login |-> l] \in GrantState
      BY DEF GrantState
    <3>2. GrantsTypeOK'
      BY <1>1, <2>2, <3>1 DEF OAuth!CallbackStarts, OAuth!Await, OAuth!maps, GrantsTypeOK
    <3>3. QED
      BY <2>2, <3>2, Awaiting
         DEF OAuth!CallbackStarts, OAuth!Await, OAuth!Idle, OAuth!AnsweredCodeIsGone, GrantsTypeOK
  <2>3. ASSUME NEW r \in Grant, OAuth!ExchangeStarts(r, l)
        PROVE  GrantsTypeOK' /\ \A x \in Grant : OAuth!AnsweredCodeIsGone(x)
    <3>1. [at |-> "exchange", login |-> l, session |-> authorizationCodes[l]] \in GrantState
      BY <2>3 DEF GrantState, GrantsTypeOK, OAuth!ExchangeStarts
    <3>2. GrantsTypeOK'
      BY <1>1, <2>3, <3>1 DEF OAuth!ExchangeStarts, OAuth!Await, OAuth!maps, GrantsTypeOK
    <3>3. QED
      BY <2>3, <3>2, Awaiting
         DEF OAuth!ExchangeStarts, OAuth!Await, OAuth!Idle, OAuth!AnsweredCodeIsGone, GrantsTypeOK
  <2>4. QED
    BY <2>1, <2>2, <2>3
       DEF OAuth!Authorize, OAuth!PendingExpires, OAuth!CodeExpires, OAuth!ExchangeRefused
<1>3. QED
  BY <1>1, <1>2, ForgetsTokens DEF GrantsStep

LEMMA CallbackKeeps ==
    ASSUME GrantsInv, NEW r \in Grant, OAuth!CallbackSucceeds(r) \/ OAuth!CallbackFails(r)
    PROVE  GrantsStep
<1> USE DEF GrantsInv
<1>1. UNCHANGED <<refreshTokens, refreshTokenIndex, issued, expired, endedTokens>>
  BY DEF OAuth!CallbackSucceeds, OAuth!CallbackFails, OAuth!maps
<1>2. granting' = [granting EXCEPT ![r] = OAuth!Idle] /\ OAuth!Idle \in GrantState
  BY DEF OAuth!CallbackSucceeds, OAuth!CallbackFails, OAuth!Await, GrantState
<1>3. \A x \in Grant : OAuth!AnsweredCodeIsGone(x)
  BY <1>2, Awaiting
     DEF OAuth!CallbackSucceeds, OAuth!CallbackFails, OAuth!AnsweredCodeIsGone, GrantsTypeOK,
         OAuth!Idle
<1>4. /\ sessionsIssued' \in Nat
      /\ authorizationCodes' \in [Login -> OAuth!Session \cup {None}]
  <2>1. CASE OAuth!CallbackSucceeds(r)
    <3>1. sessionsIssued + 1 \in OAuth!Session
      BY <2>1, OAuthAssumption
         DEF OAuth!CallbackSucceeds, GrantsTypeOK, OAuth!Session, OAuth!OAuthAssumption
    <3>2. sessionsIssued' \in Nat
      BY <2>1 DEF OAuth!CallbackSucceeds, GrantsTypeOK
    <3>3. authorizationCodes' =
            [authorizationCodes EXCEPT ![granting[r].login] = sessionsIssued + 1]
      BY <2>1 DEF OAuth!CallbackSucceeds
    <3>4. QED
      BY <3>1, <3>2, <3>3 DEF GrantsTypeOK
  <2>2. CASE OAuth!CallbackFails(r)
    BY <2>2 DEF OAuth!CallbackFails, OAuth!maps, GrantsTypeOK
  <2>3. QED
    BY <2>1, <2>2
<1>5. GrantsTypeOK'
  BY <1>1, <1>2, <1>4 DEF GrantsTypeOK
<1>6. QED
  BY <1>1, <1>3, <1>5, ForgetsTokens DEF GrantsStep

LEMMA ExchangeKeeps ==
    ASSUME GrantsInv, NEW r \in Grant, OAuth!ExchangeAnswers(r)
    PROVE  GrantsStep
<1> DEFINE new == OAuth!NewToken(r, granting[r].session)
<1> USE DEF GrantsInv
<1>1. granting[r].login \in Login /\ granting[r].session \in OAuth!Session
  BY Awaiting DEF OAuth!ExchangeAnswers
<1>2. /\ new \in Token /\ new.id = issued + 1 /\ new.session = granting[r].session
      /\ new \in refreshTokens'
  BY <1>1 DEF OAuth!NewToken, OAuth!ExchangeAnswers, Token, GrantsTypeOK
<1>3. /\ OAuth!Idle \in GrantState
      /\ granting' = [granting EXCEPT ![r] = OAuth!Idle]
      /\ authorizationCodes' = [authorizationCodes EXCEPT ![granting[r].login] = None]
      /\ refreshTokenIndex' = [refreshTokenIndex EXCEPT ![new.session] = issued + 1]
      /\ refreshTokens' = refreshTokens \cup {new}
      /\ issued' = issued + 1
      /\ UNCHANGED <<expired, sessionsIssued, endedTokens>>
  BY <1>2 DEF OAuth!ExchangeAnswers, OAuth!Await, OAuth!CodesAfter, GrantState
<1> HIDE DEF new
<1>4. GrantsTypeOK'
  BY <1>1, <1>2, <1>3 DEF GrantsTypeOK
<1>5. \A s \in OAuth!Session :
          refreshTokenIndex'[s] \in
              {None, IF s = new.session THEN issued + 1 ELSE refreshTokenIndex[s]}
  BY <1>3 DEF GrantsTypeOK
<1>6. GrantsInv'
  BY <1>2, <1>3, <1>4, <1>5, FilesToken
<1>7. \A x \in Grant : OAuth!AnsweredCodeIsGone(x)
  BY <1>1, <1>3, Awaiting DEF OAuth!AnsweredCodeIsGone, GrantsTypeOK
<1>8. QED
  BY <1>6, <1>7 DEF GrantsStep

LEMMA RefreshStartKeeps ==
    ASSUME GrantsInv, NEW r \in Grant, NEW t \in refreshTokens, OAuth!RefreshStarts(r, t)
    PROVE  GrantsStep
<1> USE DEF GrantsInv
<1>1. [at |-> "refresh", login |-> t.login, session |-> t.session, id |-> t.id] \in GrantState
  BY DEF GrantState, GrantsTypeOK, Token
<1>2. GrantsTypeOK'
  BY <1>1 DEF OAuth!RefreshStarts, OAuth!Await, OAuth!maps, GrantsTypeOK
<1>3. GrantsInv'
  BY <1>2, ForgetsTokens DEF OAuth!RefreshStarts, OAuth!maps
<1>4. \A x \in Grant : OAuth!AnsweredCodeIsGone(x)
  BY Awaiting
     DEF OAuth!RefreshStarts, OAuth!Await, OAuth!Idle, OAuth!AnsweredCodeIsGone, GrantsTypeOK
<1>5. QED
  BY <1>3, <1>4 DEF GrantsStep

LEMMA RefreshKeeps ==
    ASSUME GrantsInv, NEW r \in Grant, OAuth!RefreshRenews(r) \/ OAuth!RefreshReuses(r)
    PROVE  GrantsStep
<1> USE DEF GrantsInv
<1>1. /\ granting[r].at = "refresh" /\ granting[r].login \in Login
      /\ granting[r].session \in OAuth!Session
  BY Awaiting DEF OAuth!RefreshRenews, OAuth!RefreshReuses, OAuth!RefreshAnswers
<1>2. PICK session \in OAuth!Session :
          OAuth!RefreshAnswers(r, session) /\ sessionsIssued' \in Nat
  BY <1>1, OAuthAssumption
     DEF OAuth!RefreshRenews, OAuth!RefreshReuses, GrantsTypeOK, OAuth!Session,
         OAuth!OAuthAssumption
<1> DEFINE new == OAuth!NewToken(r, session)
<1>3. /\ new \in Token /\ new.id = issued + 1 /\ new.session = session
      /\ new \in refreshTokens'
  BY <1>1, <1>2 DEF OAuth!NewToken, OAuth!RefreshAnswers, Token, GrantsTypeOK
<1>4. /\ OAuth!Idle \in GrantState
      /\ granting' = [granting EXCEPT ![r] = OAuth!Idle]
      /\ refreshTokenIndex' = [[refreshTokenIndex EXCEPT ![granting[r].session] = None]
                                 EXCEPT ![new.session] = issued + 1]
      /\ refreshTokens' = {t \in refreshTokens : t.id # granting[r].id} \cup {new}
      /\ issued' = issued + 1
      /\ endedTokens' = endedTokens \cup {granting[r].id}
      /\ UNCHANGED <<expired, authorizationCodes>>
  BY <1>2, <1>3
     DEF OAuth!RefreshAnswers, OAuth!Await, OAuth!IndexAfter, OAuth!Rotated, GrantState
<1> HIDE DEF new
<1>5. GrantsTypeOK'
  BY <1>1, <1>2, <1>3, <1>4 DEF GrantsTypeOK
<1>6. \A s \in OAuth!Session :
          refreshTokenIndex'[s] \in
              {None, IF s = new.session THEN issued + 1 ELSE refreshTokenIndex[s]}
  BY <1>4 DEF GrantsTypeOK
<1>7. GrantsInv'
  BY <1>3, <1>4, <1>5, <1>6, FilesToken
<1>8. \A x \in Grant : OAuth!AnsweredCodeIsGone(x)
  BY <1>1, <1>4, Awaiting DEF OAuth!AnsweredCodeIsGone, GrantsTypeOK
<1>9. QED
  BY <1>7, <1>8 DEF GrantsStep

LEMMA EndsKeep ==
    ASSUME GrantsInv,
           \/ \E t \in refreshTokens : OAuth!RefreshRefused(t) \/ OAuth!RevokeRefreshToken(t)
           \/ \E s \in OAuth!Session : OAuth!RevokeAccessToken(s)
           \/ \E id \in 1 .. issued : OAuth!TokenExpires(id) \/ OAuth!TimerDeletes(id)
    PROVE  GrantsStep
<1> USE DEF GrantsInv
<1>1. UNCHANGED <<issued, sessionsIssued, authorizationCodes, granting>>
  BY DEF OAuth!RefreshRefused, OAuth!RevokeRefreshToken, OAuth!RevokeAccessToken,
         OAuth!TokenExpires, OAuth!TimerDeletes
<1>2. /\ refreshTokens' \subseteq refreshTokens
      /\ \A t \in refreshTokens \ refreshTokens' : t.id \in endedTokens' \cup expired'
      /\ endedTokens \subseteq endedTokens' /\ expired \subseteq expired'
  BY DEF OAuth!RefreshRefused, OAuth!RevokeRefreshToken, OAuth!RevokeAccessToken,
         OAuth!TokenExpires, OAuth!TimerDeletes, OAuth!Forget
<1>3. \/ UNCHANGED refreshTokenIndex
      \/ \E s \in OAuth!Session :
            refreshTokenIndex' = [refreshTokenIndex EXCEPT ![s] = None]
  BY DEF OAuth!RefreshRefused, OAuth!RevokeRefreshToken, OAuth!RevokeAccessToken,
         OAuth!TokenExpires, OAuth!TimerDeletes, OAuth!Forget, GrantsTypeOK, Token
<1>4. GrantsTypeOK' /\ \A s \in OAuth!Session : refreshTokenIndex'[s] \in {None, refreshTokenIndex[s]}
  BY <1>1, <1>2, <1>3 DEF GrantsTypeOK
<1>5. GrantsInv'
  BY <1>1, <1>2, <1>4, ForgetsTokens
<1>6. \A x \in Grant : OAuth!AnsweredCodeIsGone(x)
  BY <1>1, Awaiting DEF OAuth!AnsweredCodeIsGone
<1>7. QED
  BY <1>5, <1>6 DEF GrantsStep

LEMMA RestartKeeps ==
    ASSUME GrantsInv, OAuth!Restart
    PROVE  GrantsStep
<1> USE DEF GrantsInv
<1>1. GrantsTypeOK'
  BY DEF OAuth!Restart, GrantsTypeOK, GrantState
<1>2. GrantsInv'
  BY <1>1, ForgetsTokens DEF OAuth!Restart, OAuth!Live
<1>3. \A r \in Grant : OAuth!AnsweredCodeIsGone(r)
  BY Awaiting DEF OAuth!Restart, OAuth!AnsweredCodeIsGone
<1>4. QED
  BY <1>2, <1>3 DEF GrantsStep

LEMMA GrantsNext == GrantsInv /\ OAuth!Next => GrantsStep
BY LoginsKeep, CallbackKeeps, ExchangeKeeps, RefreshStartKeeps, RefreshKeeps, EndsKeep,
   RestartKeeps DEF OAuth!Next

\* A step that leaves the authorization server alone.
LEMMA GrantsStutter == GrantsInv /\ UNCHANGED oauthVars => GrantsStep
BY Awaiting
   DEF oauthVars, GrantsInv, GrantsStep, GrantsTypeOK, NumbersAreIssued, OAuth!OnlyItsOwnEnd,
       OAuth!Live, OAuth!RevocationIsTargeted, OAuth!AnsweredCodeIsGone

\* Grants keep tokens apart: a refresh token ends only by its own use, revocation, expiry
\* or a restart, the index leads no revocation to the token of another session, and an
\* answered code is gone - whatever requests overlap (token.ts:69-285, revoke.ts:106-167).
THEOREM GrantsAreSound == Spec => TokensAreSound
<1>1. Init => GrantsInv
  BY GrantsInit DEF Init
<1>2. GrantsInv /\ [Next]_<<gateVars, oauthVars, sessionsVars>> => GrantsStep
  BY GrantsNext, GrantsStutter DEF Next
<1>3. GrantsStep => GrantsInv'
  BY DEF GrantsStep
<1>4. GrantsStep => [/\ OAuth!OnlyItsOwnEnd'
                     /\ OAuth!RevocationIsTargeted'
                     /\ \A r \in Grant : OAuth!AnsweredCodeIsGone(r)]_(OAuth!vars)
  BY DEF GrantsStep, GrantsInv
<1>5. QED
  BY <1>1, <1>2, <1>3, <1>4, PTL DEF Spec, TokensAreSound, OAuth!TokensAreSound
-----------------------------------------------------------------------------
(* The gate.                                                               *)

Stage == {"asked", "alive", "over"}

\* What a request carries while Tableau is asked: its query and scopes are known if it
\* came with an OAuth token.
Passing(p) == p = [at |-> p.at, session |-> p.session, since |-> p.since]

Validating(p) ==
    /\ p = [at |-> p.at, query |-> p.query, session |-> p.session, scopes |-> p.scopes,
            followed |-> p.followed, since |-> p.since]
    /\ p.query \in Gate!Query

Asking(p) == /\ p.at \in Stage /\ p.session \in TableauSession /\ p.since \in Nat
             /\ Passing(p) \/ Validating(p)

GateTypeOK ==
    /\ now \in Nat
    /\ ended \in [TableauSession -> Nat \cup {None}]
    /\ cache \in [TableauSession -> Nat \cup {None}]
    /\ \A r \in Validation : pc[r] = Gate!Idle \/ Asking(pc[r])
    /\ DOMAIN pc = Validation
    /\ token # None => token.session \in TableauSession
    /\ challenge # None => challenge.query \in Gate!Query

\* A session is not over since a time to come.
EndsPassed == \A s \in TableauSession : ended[s] # None => ended[s] <= now

\* An entry of the cache is not yet due, and stays no longer than an Interval and the
\* time of one request after its session ended.
CacheIsFresh ==
    \A s \in TableauSession : cache[s] # None =>
        /\ now < cache[s] /\ cache[s] <= now + Interval
        /\ ended[s] # None => cache[s] <= ended[s] + Interval + RequestTimeout

\* A request waits no longer than its time, and a session that was found alive did not
\* end before the request began.
WaitsAreBounded ==
    \A r \in Validation : pc[r] # Gate!Idle =>
        /\ pc[r].since <= now /\ now <= pc[r].since + RequestTimeout
        /\ pc[r].at = "alive" /\ ended[pc[r].session] # None =>
             pc[r].since <= ended[pc[r].session]

FreshInv == /\ GateTypeOK
            /\ EndsPassed
            /\ CacheIsFresh
            /\ WaitsAreBounded
            /\ AdmittedIsFresh

LEMMA FreshInit == Gate!Init => FreshInv
BY GateAssumption
   DEF Gate!Init, Gate!GateAssumption, FreshInv, GateTypeOK, EndsPassed, CacheIsFresh,
       WaitsAreBounded, AdmittedIsFresh, Gate!AdmittedIsFresh
LEMMA AskingFacts ==
    ASSUME NEW p, Asking(p)
    PROVE  p # Gate!Idle /\ ("query" \in DOMAIN p <=> Validating(p))
BY DEF Asking, Passing, Validating, Stage, Gate!Idle

\* What Tableau's answer changes of a request is its stage.
LEMMA AnswerMovesOn ==
    ASSUME NEW p, Asking(p), NEW stage \in Stage
    PROVE  LET q == [p EXCEPT !.at = stage] IN
           /\ Asking(q) /\ q.at = stage /\ q.session = p.session /\ q.since = p.since
           /\ Validating(q) <=> Validating(p)
           /\ Validating(p) => q.query = p.query /\ q.scopes = p.scopes
                                                 /\ q.followed = p.followed
<1>1. CASE Passing(p)
  <2>1. [p EXCEPT !.at = stage] = [at |-> stage, session |-> p.session, since |-> p.since]
    BY <1>1 DEF Passing
  <2>2. QED
    BY <1>1, <2>1 DEF Asking, Passing, Validating
<1>2. CASE Validating(p)
  <2>1. [p EXCEPT !.at = stage] =
            [at |-> stage, query |-> p.query, session |-> p.session, scopes |-> p.scopes,
             followed |-> p.followed, since |-> p.since]
    BY <1>2 DEF Validating
  <2>2. QED
    BY <1>2, <2>1 DEF Asking, Passing, Validating
<1>3. QED
  BY <1>1, <1>2 DEF Asking

\* The answer of Tableau, written out.
LEMMA TableauStep ==
    ASSUME GateTypeOK, NEW r \in Validation, Gate!TableauAnswers(r)
    PROVE  \E stage \in {"alive", "over"} :
             /\ pc' = [pc EXCEPT ![r] = [pc[r] EXCEPT !.at = stage]]
             /\ stage = "alive" => ended[pc[r].session] = None
             /\ Asking(pc[r])
<1>1. Asking(pc[r])
  BY DEF Gate!TableauAnswers, GateTypeOK, Gate!Idle
<1> DEFINE stage == IF ended[pc[r].session] = None THEN "alive" ELSE "over"
<1>2. pc' = [pc EXCEPT ![r] = [pc[r] EXCEPT !.at = stage]]
  BY DEF Gate!TableauAnswers
<1>3. stage \in {"alive", "over"} /\ (stage = "alive" => ended[pc[r].session] = None)
  OBVIOUS
<1> HIDE DEF stage
<1>4. QED
  BY <1>1, <1>2, <1>3
LEMMA RefusedStep ==
    ASSUME NEW q, NEW verdict, NEW named, Gate!Refuse(q, verdict, named)
    PROVE  /\ challenge' = [query |-> q, scopes |-> named]
           /\ answer' = [verdict |-> verdict, lag |-> 0]
           /\ UNCHANGED <<token, followed>>
BY Zenon DEF Gate!Refuse, Gate!Answered

\* The end of a validation: a refusal, or an admission.
LEMMA ValidatedStep ==
    ASSUME GateTypeOK, NEW r \in Validation, Gate!Validated(r)
    PROVE  /\ Asking(pc[r]) /\ Validating(pc[r]) /\ pc[r].at = "alive"
           /\ pc' = [pc EXCEPT ![r] = Gate!Idle]
           /\ UNCHANGED <<enforceScopes, advertiseApiScopes, ended, cache, token, followed, now>>
           /\ \/ /\ enforceScopes
                 /\ ~(Gate!Required(pc[r].query) \subseteq pc[r].scopes)
                 /\ challenge' = [query |-> pc[r].query, scopes |-> Gate!Named(pc[r].query)]
                 /\ \/ answer' = [verdict |-> "insufficient", lag |-> 0]
                    \/ /\ pc[r].query = pc[r].followed
                       /\ answer' = [verdict |-> "insufficient again", lag |-> 0]
              \/ /\ UNCHANGED challenge
                 /\ answer' = [verdict |-> "admitted", lag |-> Gate!Over(pc[r].session)]
<1>1. /\ pc[r].at = "alive" /\ "query" \in DOMAIN pc[r]
      /\ pc' = [pc EXCEPT ![r] = Gate!Idle]
      /\ UNCHANGED <<enforceScopes, advertiseApiScopes, ended, cache, now>>
  BY Zenon DEF Gate!Validated, Gate!config
<1>2. Asking(pc[r]) /\ Validating(pc[r])
  <2>1. Asking(pc[r])
    BY <1>1 DEF GateTypeOK, Gate!Idle
  <2>2. QED
    BY <1>1, <2>1, AskingFacts
<1>3. CASE enforceScopes /\ ~(Gate!Required(pc[r].query) \subseteq pc[r].scopes)
  <2>1. CASE pc[r].query = pc[r].followed
    <3>1. Gate!Refuse(pc[r].query, "insufficient again", Gate!Named(pc[r].query))
      BY <1>3, <2>1, Zenon DEF Gate!Validated
    <3>2. QED
      BY <1>1, <1>2, <1>3, <2>1, <3>1, RefusedStep
  <2>2. CASE pc[r].query # pc[r].followed
    <3>1. Gate!Refuse(pc[r].query, "insufficient", Gate!Named(pc[r].query))
      BY <1>3, <2>2, Zenon DEF Gate!Validated
    <3>2. QED
      BY <1>1, <1>2, <1>3, <3>1, RefusedStep
  <2>3. QED
    BY <2>1, <2>2
<1>4. CASE ~(enforceScopes /\ ~(Gate!Required(pc[r].query) \subseteq pc[r].scopes))
  <2>1. /\ UNCHANGED <<token, challenge, followed>>
        /\ answer' = [verdict |-> "admitted", lag |-> Gate!Over(pc[r].session)]
    BY <1>4, Zenon DEF Gate!Validated, Gate!Answered, Gate!client
  <2>2. QED
    BY <1>1, <1>2, <2>1
<1>5. QED
  BY <1>3, <1>4

\* Another token than before is one for a session; what the client was refused is a query.
LEMMA ClientTypes ==
    ASSUME GateTypeOK, Gate!Next
    PROVE  /\ token' # None => token'.session \in TableauSession
           /\ challenge' # None => challenge'.query \in Gate!Query
<1>1. ASSUME NEW q \in Gate!Query, Gate!Unauthenticated(q)
      PROVE  /\ token' # None => token'.session \in TableauSession
             /\ challenge' # None => challenge'.query \in Gate!Query
  BY <1>1 DEF GateTypeOK, Gate!Unauthenticated, Gate!Refuse
<1>2. ASSUME NEW r \in Validation, Gate!Validated(r)
      PROVE  /\ token' # None => token'.session \in TableauSession
             /\ challenge' # None => challenge'.query \in Gate!Query
  <2>1. Validating(pc[r])
    BY <1>2, ValidatedStep
  <2>2. pc[r].query \in Gate!Query
    BY <2>1 DEF Validating
  <2>3. token' = token
    BY <1>2, ValidatedStep
  <2>4. \/ challenge' = challenge
        \/ challenge' = [query |-> pc[r].query, scopes |-> Gate!Named(pc[r].query)]
    BY <1>2, ValidatedStep, Zenon
  <2>5. QED
    BY <2>2, <2>3, <2>4 DEF GateTypeOK
<1>3. ASSUME NEW s \in TableauSession, Gate!Authorize(s)
      PROVE  /\ token' # None => token'.session \in TableauSession
             /\ challenge' # None => challenge'.query \in Gate!Query
  BY <1>3 DEF GateTypeOK, Gate!Authorize
<1>4. CASE UNCHANGED <<token, challenge>>
  BY <1>4 DEF GateTypeOK
<1>5. QED
  BY <1>1, <1>2, <1>3, <1>4
     DEF Gate!Next, Gate!ValidateStarts, Gate!TableauAnswers, Gate!SessionRejected,
         Gate!PassthroughAdmits, Gate!PassthroughMiss, Gate!PassthroughHit,
         Gate!SessionEnds, Gate!Tick, Gate!client

\* What a step makes of a request's wait.
PcStep ==
    \/ UNCHANGED pc
    \/ \E r \in Validation : pc' = [pc EXCEPT ![r] = Gate!Idle]
    \/ \E r \in Validation, p \in [at : {"asked"}, session : TableauSession, since : {now}] :
          pc' = [pc EXCEPT ![r] = p]
    \/ \E r \in Validation, q \in Gate!Query :
          LET p == [at |-> "asked", query |-> q, session |-> token.session,
                    scopes |-> token.scopes, followed |-> followed, since |-> now] IN
          pc' = [pc EXCEPT ![r] = p] /\ token # None
    \/ \E r \in Validation : Gate!TableauAnswers(r)

LEMMA GatePcStep == Gate!Next => PcStep
<1> SUFFICES ASSUME Gate!Next PROVE PcStep
  OBVIOUS
<1>1. ASSUME NEW r \in Validation, NEW s \in TableauSession, Gate!PassthroughMiss(r, s)
      PROVE  PcStep
  <2>1. [at |-> "asked", session |-> s, since |-> now]
           \in [at : {"asked"}, session : TableauSession, since : {now}]
    OBVIOUS
  <2>2. QED
    BY <1>1, <2>1 DEF Gate!PassthroughMiss, PcStep
<1>2. ASSUME NEW r \in Validation, NEW q \in Gate!Query, Gate!ValidateStarts(r, q)
      PROVE  PcStep
  BY <1>2 DEF Gate!ValidateStarts, PcStep
<1>3. ASSUME NEW r \in Validation,
             Gate!SessionRejected(r) \/ Gate!Validated(r) \/ Gate!PassthroughAdmits(r)
      PROVE  PcStep
  BY <1>3 DEF Gate!SessionRejected, Gate!Validated, Gate!PassthroughAdmits, PcStep
<1>4. ASSUME NEW r \in Validation, Gate!TableauAnswers(r)
      PROVE  PcStep
  BY <1>4 DEF PcStep
<1>5. CASE UNCHANGED pc
  BY <1>5 DEF PcStep
<1>6. QED
  BY <1>1, <1>2, <1>3, <1>4, <1>5
     DEF Gate!Next, Gate!Unauthenticated, Gate!PassthroughHit, Gate!SessionEnds,
         Gate!Authorize, Gate!Tick
LEMMA PcTypes ==
    ASSUME GateTypeOK, PcStep
    PROVE  /\ \A r \in Validation : pc'[r] = Gate!Idle \/ Asking(pc'[r])
           /\ DOMAIN pc' = Validation
<1>1. CASE UNCHANGED pc
  BY <1>1 DEF GateTypeOK
<1>2. ASSUME NEW r \in Validation, NEW p, p = Gate!Idle \/ Asking(p),
             pc' = [pc EXCEPT ![r] = p]
      PROVE  /\ \A x \in Validation : pc'[x] = Gate!Idle \/ Asking(pc'[x])
             /\ DOMAIN pc' = Validation
  BY <1>2 DEF GateTypeOK
<1>3. \A p \in [at : {"asked"}, session : TableauSession, since : {now}] : Asking(p)
  BY DEF Asking, Passing, Stage, GateTypeOK
<1>4. ASSUME NEW q \in Gate!Query, token # None
      PROVE  Asking([at |-> "asked", query |-> q, session |-> token.session,
                     scopes |-> token.scopes, followed |-> followed, since |-> now])
  BY <1>4 DEF Asking, Validating, Stage, GateTypeOK
<1>5. ASSUME NEW r \in Validation, Gate!TableauAnswers(r)
      PROVE  /\ \A x \in Validation : pc'[x] = Gate!Idle \/ Asking(pc'[x])
             /\ DOMAIN pc' = Validation
  <2>1. PICK stage \in {"alive", "over"} :
           Asking(pc[r]) /\ pc' = [pc EXCEPT ![r] = [pc[r] EXCEPT !.at = stage]]
    BY <1>5, TableauStep, Zenon
  <2>2. Asking([pc[r] EXCEPT !.at = stage])
    BY <2>1, AnswerMovesOn, Zenon DEF Stage
  <2>3. QED
    BY <2>1, <2>2, <1>2, Zenon
<1>6. QED
  BY <1>1, <1>2, <1>3, <1>4, <1>5, Zenon DEF PcStep

\* What a step does to the sessions, the cache and the clock.
ClockStep ==
    \/ UNCHANGED <<now, ended, cache>>
    \/ \E s \in TableauSession : ended' = [ended EXCEPT ![s] = now] /\ UNCHANGED <<now, cache>>
    \/ \E r \in Validation : /\ pc[r].at = "alive" /\ Interval > 0
                             /\ cache' = [cache EXCEPT ![pc[r].session] = now + Interval]
                             /\ UNCHANGED <<now, ended>>
    \/ Gate!Tick

LEMMA GateClockStep == Gate!Next => ClockStep
<1> SUFFICES ASSUME Gate!Next PROVE ClockStep
  OBVIOUS
<1>1. ASSUME NEW r \in Validation, Gate!PassthroughAdmits(r)
      PROVE  ClockStep
  <2>1. CASE cache' = cache
    BY <1>1, <2>1 DEF Gate!PassthroughAdmits, ClockStep
  <2>2. CASE cache' # cache
    <3>1. Interval > 0 /\ cache' = [cache EXCEPT ![pc[r].session] = now + Interval]
      BY <1>1, <2>2, Zenon DEF Gate!PassthroughAdmits
    <3>2. pc[r].at = "alive" /\ UNCHANGED <<now, ended>>
      BY <1>1, Zenon DEF Gate!PassthroughAdmits
    <3>3. QED
      BY <3>1, <3>2 DEF ClockStep
  <2>3. QED
    BY <2>1, <2>2
<1>2. ASSUME NEW s \in TableauSession, Gate!SessionEnds(s)
      PROVE  ClockStep
  BY <1>2 DEF Gate!SessionEnds, ClockStep
<1>3. CASE Gate!Tick
  BY <1>3 DEF ClockStep
<1>4. CASE UNCHANGED <<now, ended, cache>>
  BY <1>4 DEF ClockStep
<1>5. QED
  BY <1>1, <1>2, <1>3, <1>4
     DEF Gate!Next, Gate!Unauthenticated, Gate!ValidateStarts, Gate!TableauAnswers,
         Gate!SessionRejected, Gate!Validated, Gate!PassthroughMiss, Gate!PassthroughHit,
         Gate!Authorize

LEMMA ClockTypes ==
    ASSUME GateTypeOK, ClockStep
    PROVE  /\ now' \in Nat
           /\ ended' \in [TableauSession -> Nat \cup {None}]
           /\ cache' \in [TableauSession -> Nat \cup {None}]
BY GateAssumption
   DEF ClockStep, GateTypeOK, Gate!GateAssumption, Gate!Tick, Gate!Remembered

LEMMA GateTypeNext == GateTypeOK /\ Gate!Next => GateTypeOK'
BY GatePcStep, PcTypes, GateClockStep, ClockTypes, ClientTypes, Zenon DEF GateTypeOK
\* A session found alive by a request ended no longer ago than the request may take.
LEMMA AliveIsRecent ==
    ASSUME GateTypeOK, WaitsAreBounded, EndsPassed, NEW r \in Validation, pc[r].at = "alive"
    PROVE  /\ Asking(pc[r]) /\ pc[r].session \in TableauSession
           /\ ended[pc[r].session] # None =>
                /\ now <= ended[pc[r].session] + RequestTimeout
                /\ ended[pc[r].session] <= now
                /\ ended[pc[r].session] \in Nat
<1>1. Asking(pc[r]) /\ pc[r] # Gate!Idle
  BY DEF GateTypeOK, Gate!Idle
<1>2. QED
  BY <1>1, GateAssumption
     DEF GateTypeOK, WaitsAreBounded, EndsPassed, Asking, Gate!GateAssumption

LEMMA ClockKeeps ==
    ASSUME GateTypeOK, EndsPassed, CacheIsFresh, WaitsAreBounded, ClockStep
    PROVE  EndsPassed' /\ CacheIsFresh'
<1> USE GateAssumption DEF GateTypeOK, EndsPassed, CacheIsFresh, Gate!GateAssumption
<1>1. ASSUME NEW r \in Validation, pc[r].at = "alive", Interval > 0,
             cache' = [cache EXCEPT ![pc[r].session] = now + Interval],
             UNCHANGED <<now, ended>>
      PROVE  EndsPassed' /\ CacheIsFresh'
  BY <1>1, AliveIsRecent
<1>2. ASSUME NEW s \in TableauSession, ended' = [ended EXCEPT ![s] = now], UNCHANGED <<now, cache>>
      PROVE  EndsPassed' /\ CacheIsFresh'
  BY <1>2
<1>3. CASE Gate!Tick
  <2>1. now' = now + 1 /\ ended' = ended /\ cache' = Gate!Remembered
    BY <1>3 DEF Gate!Tick
  <2>2. QED
    BY <2>1 DEF Gate!Remembered
<1>4. CASE UNCHANGED <<now, ended, cache>>
  BY <1>4
<1>5. QED
  BY <1>1, <1>2, <1>3, <1>4 DEF ClockStep

\* What a request waits for, after a step of the gate.
LEMMA WaitsKeep ==
    ASSUME GateTypeOK, EndsPassed, WaitsAreBounded, Gate!Next
    PROVE  WaitsAreBounded'
<1> SUFFICES ASSUME NEW r \in Validation, pc'[r] # Gate!Idle
             PROVE  /\ pc'[r].since <= now' /\ now' <= pc'[r].since + RequestTimeout
                    /\ pc'[r].at = "alive" /\ ended'[pc'[r].session] # None =>
                         pc'[r].since <= ended'[pc'[r].session]
  BY DEF WaitsAreBounded
<1> USE GateAssumption DEF Gate!GateAssumption
<1>1. CASE UNCHANGED pc
  <2>1. Asking(pc[r]) /\ pc[r] # Gate!Idle
    BY <1>1 DEF GateTypeOK
  <2>2. CASE Gate!Tick
    BY <1>1, <2>1, <2>2 DEF Gate!Tick, WaitsAreBounded, Asking, GateTypeOK
  <2>3. CASE \/ UNCHANGED <<now, ended>>
             \/ \E s \in TableauSession : ended' = [ended EXCEPT ![s] = now] /\ UNCHANGED now
    BY <1>1, <2>1, <2>3 DEF WaitsAreBounded, Asking, GateTypeOK
  <2>4. QED
    BY <2>2, <2>3, GateClockStep DEF ClockStep
<1>2. CASE pc' # pc
  <2>1. UNCHANGED <<now, ended>>
    BY <1>2 DEF Gate!Next, Gate!Unauthenticated, Gate!ValidateStarts, Gate!TableauAnswers,
         Gate!SessionRejected, Gate!Validated, Gate!PassthroughAdmits, Gate!PassthroughMiss,
         Gate!PassthroughHit, Gate!SessionEnds, Gate!Authorize, Gate!Tick, Gate!config
  <2>2. ASSUME NEW x \in Validation, NEW p, pc' = [pc EXCEPT ![x] = p],
               p = Gate!Idle \/ (p.at = "asked" /\ p.since = now)
        PROVE  /\ pc'[r].since <= now' /\ now' <= pc'[r].since + RequestTimeout
               /\ pc'[r].at = "alive" /\ ended'[pc'[r].session] # None =>
                    pc'[r].since <= ended'[pc'[r].session]
    <3>1. CASE pc'[r] = p
      BY <2>1, <2>2, <3>1 DEF GateTypeOK
    <3>2. CASE pc'[r] = pc[r]
      BY <2>1, <3>2 DEF WaitsAreBounded
    <3>3. QED
      BY <2>2, <3>1, <3>2 DEF GateTypeOK
  <2>3. ASSUME NEW x \in Validation, Gate!TableauAnswers(x)
        PROVE  /\ pc'[r].since <= now' /\ now' <= pc'[r].since + RequestTimeout
               /\ pc'[r].at = "alive" /\ ended'[pc'[r].session] # None =>
                    pc'[r].since <= ended'[pc'[r].session]
    <3>1. PICK stage \in {"alive", "over"} :
             /\ pc' = [pc EXCEPT ![x] = [pc[x] EXCEPT !.at = stage]]
             /\ stage = "alive" => ended[pc[x].session] = None
             /\ Asking(pc[x])
      BY <2>3, TableauStep, Zenon
    <3> DEFINE p == [pc[x] EXCEPT !.at = stage]
    <3>2. p.at = stage /\ p.session = pc[x].session /\ p.since = pc[x].since
      <4>1. stage \in Stage
        BY DEF Stage
      <4>2. QED
        BY <3>1, <4>1, AnswerMovesOn, Zenon
    <3>3. pc' = [pc EXCEPT ![x] = p] /\ pc[x] # Gate!Idle
      BY <3>1, AskingFacts, Zenon
    <3> HIDE DEF p
    <3>4. CASE r = x
      BY <2>1, <3>1, <3>2, <3>3, <3>4 DEF WaitsAreBounded, GateTypeOK
    <3>5. CASE r # x
      BY <2>1, <3>3, <3>5 DEF WaitsAreBounded, GateTypeOK
    <3>6. QED
      BY <3>4, <3>5
  <2>4. QED
    BY <1>2, <2>2, <2>3, GatePcStep, Zenon DEF PcStep
<1>3. QED
  BY <1>1, <1>2
\* What a step answers.
AnswerStep ==
    \/ UNCHANGED answer
    \/ answer' = None
    \/ \E verdict \in {"unauthorized", "invalid", "insufficient"} :
          answer' = [verdict |-> verdict, lag |-> 0]
    \/ \E r \in Validation :
          \/ /\ Gate!Validated(r)
             /\ answer' = [verdict |-> "insufficient again", lag |-> 0]
          \/ /\ pc[r].at = "alive" /\ UNCHANGED <<now, ended>>
             /\ answer' = [verdict |-> "admitted", lag |-> Gate!Over(pc[r].session)]
    \/ \E s \in TableauSession :
          /\ cache[s] # None /\ UNCHANGED <<now, ended>>
          /\ answer' = [verdict |-> "admitted", lag |-> Gate!Over(s)]

LEMMA GateAnswerStep == GateTypeOK /\ Gate!Next => AnswerStep
<1> SUFFICES ASSUME GateTypeOK, Gate!Next PROVE AnswerStep
  OBVIOUS
<1>1. ASSUME NEW r \in Validation, Gate!Validated(r)
      PROVE  AnswerStep
  BY <1>1, ValidatedStep, Zenon DEF AnswerStep
<1>2. ASSUME NEW r \in Validation, Gate!PassthroughAdmits(r)
      PROVE  AnswerStep
  BY <1>2, Zenon DEF Gate!PassthroughAdmits, Gate!Answered, AnswerStep
<1>3. ASSUME NEW s \in TableauSession, Gate!PassthroughHit(s)
      PROVE  AnswerStep
  BY <1>3, Zenon DEF Gate!PassthroughHit, Gate!Answered, Gate!Cached, AnswerStep
<1>4. ASSUME NEW r \in Validation, Gate!SessionRejected(r)
      PROVE  AnswerStep
  BY <1>4, Zenon DEF Gate!SessionRejected, Gate!Answered, AnswerStep
<1>5. ASSUME NEW q \in Gate!Query, Gate!Unauthenticated(q)
      PROVE  AnswerStep
  BY <1>5, RefusedStep, Zenon DEF Gate!Unauthenticated, Gate!Answered, AnswerStep
<1>6. CASE UNCHANGED answer
  BY <1>6 DEF AnswerStep
<1>7. CASE Gate!Tick
  BY <1>7 DEF Gate!Tick, AnswerStep
<1>8. QED
  BY <1>1, <1>2, <1>3, <1>4, <1>5, <1>6, <1>7
     DEF Gate!Next, Gate!ValidateStarts, Gate!TableauAnswers, Gate!PassthroughMiss,
         Gate!SessionEnds, Gate!Authorize

LEMMA FreshNext == FreshInv /\ Gate!Next => FreshInv'
<1> SUFFICES ASSUME FreshInv, Gate!Next PROVE FreshInv'
  OBVIOUS
<1> USE DEF FreshInv
<1>1. GateTypeOK' /\ EndsPassed' /\ CacheIsFresh' /\ WaitsAreBounded'
  BY GateTypeNext, GateClockStep, ClockKeeps, WaitsKeep, Zenon
<1>2. AdmittedIsFresh'
  <2> USE GateAssumption DEF AdmittedIsFresh, Gate!AdmittedIsFresh, Gate!GateAssumption
  <2>1. CASE answer' = answer \/ answer' = None
    BY <2>1
  <2>2. ASSUME NEW verdict, verdict # "admitted", answer' = [verdict |-> verdict, lag |-> 0]
        PROVE  AdmittedIsFresh'
    BY <2>2
  <2>3. ASSUME NEW r \in Validation, pc[r].at = "alive",
               answer' = [verdict |-> "admitted", lag |-> Gate!Over(pc[r].session)]
        PROVE  AdmittedIsFresh'
    <3>1. Gate!Over(pc[r].session) <= RequestTimeout
      BY <2>3, AliveIsRecent DEF Gate!Over, GateTypeOK
    <3>2. Gate!Over(pc[r].session) \in Nat
      BY <2>3, AliveIsRecent DEF Gate!Over, GateTypeOK
    <3>3. QED
      BY <2>3, <3>1, <3>2
  <2>4. ASSUME NEW s \in TableauSession, cache[s] # None,
               answer' = [verdict |-> "admitted", lag |-> Gate!Over(s)]
        PROVE  AdmittedIsFresh'
    <3>1. Gate!Over(s) <= Interval + RequestTimeout
      BY <2>4 DEF CacheIsFresh, EndsPassed, Gate!Over, GateTypeOK
    <3>2. QED
      BY <2>4, <3>1
  <2>5. QED
    BY <2>1, <2>2, <2>3, <2>4, GateAnswerStep DEF AnswerStep
<1>3. QED
  BY <1>1, <1>2

LEMMA FreshStutter == FreshInv /\ UNCHANGED gateVars => FreshInv'
BY DEF gateVars, FreshInv, GateTypeOK, EndsPassed, CacheIsFresh, WaitsAreBounded,
       AdmittedIsFresh, Gate!AdmittedIsFresh

\* Who is admitted had a live session with Tableau no longer ago than the cache may
\* remember it and one request may take, also when validations overlap and answers come
\* late (passthroughAuthMiddleware.ts:56-100, accessTokenValidator.ts:73-86).
THEOREM AdmissionsAreFresh == Spec => []AdmittedIsFresh
<1>1. Init => FreshInv
  BY FreshInit DEF Init
<1>2. FreshInv /\ [Next]_<<gateVars, oauthVars, sessionsVars>> => FreshInv'
  BY FreshNext, FreshStutter DEF Next
<1>3. FreshInv => AdmittedIsFresh
  BY DEF FreshInv
<1>4. QED
  BY <1>1, <1>2, <1>3, PTL DEF Spec
-----------------------------------------------------------------------------
(* Refusals that name scopes.                                              *)

Supported == Gate!SupportedMcp \cup Gate!SupportedApi

\* What the server supports is what it knows how to name: queries of no tool, and of the
\* tools that are registered.
Served == Gate!Query \ (ScopedTool \ Enabled)

\* A token with scopes sc was granted for a refusal of query q.
GrantedFor(q, sc) == enforceScopes /\ q \in Served => Gate!Required(q) \subseteq sc

NamedScopes == challenge # None =>
                   challenge.scopes \in {{}, Gate!Named(challenge.query)}

TokenFollows == token # None => GrantedFor(followed, token.scopes)

AskingFollows ==
    \A r \in Validation : Validating(pc[r]) => GrantedFor(pc[r].followed, pc[r].scopes)

StepUpInv == /\ GateTypeOK
             /\ NamedScopes
             /\ TokenFollows
             /\ AskingFollows
             /\ StepUpSuffices

\* What a query of the server's requires is among the scopes it supports.
LEMMA RequiredIsSupported ==
    ASSUME NEW q \in Served
    PROVE  Gate!Required(q) \subseteq Supported
<1>1. q \in ScopedTool => q \in Enabled
  BY DEF Served
<1>2. Gate!RequiredMcp(q) \subseteq Gate!SupportedMcp
  BY <1>1 DEF Gate!RequiredMcp, Gate!SupportedMcp, Gate!Held
<1>3. Gate!RequiredApi(q) \subseteq Gate!SupportedApi
  BY <1>1 DEF Gate!RequiredApi, Gate!SupportedApi, Gate!Held
<1>4. QED
  BY <1>2, <1>3 DEF Gate!Required, Supported

LEMMA StepUpInit == Gate!Init => StepUpInv
<1> SUFFICES ASSUME Gate!Init PROVE StepUpInv
  OBVIOUS
<1>1. GateTypeOK
  BY FreshInit DEF FreshInv
<1>2. \A r \in Validation : ~Validating(pc[r])
  BY DEF Gate!Init, Gate!Idle, Validating
<1>3. QED
  BY <1>1, <1>2
     DEF Gate!Init, StepUpInv, NamedScopes, TokenFollows, AskingFollows, StepUpSuffices,
         Gate!StepUpSuffices

\* A client that follows a refusal is granted what the refused query requires.
LEMMA AuthorizeGrants ==
    ASSUME StepUpInv, NEW s \in TableauSession, Gate!Authorize(s)
    PROVE  GrantedFor(followed', token'.scopes)
<1> SUFFICES ASSUME enforceScopes, followed' \in Served
             PROVE  Gate!Required(followed') \subseteq token'.scopes
  BY DEF GrantedFor
<1>1. challenge # None /\ followed' = challenge.query
  BY DEF Gate!Authorize
<1>2. CASE challenge.scopes # {}
  <2>1. token'.scopes = challenge.scopes
    BY <1>2 DEF Gate!Authorize
  <2>2. challenge.scopes = Gate!Required(challenge.query)
    BY <1>1, <1>2 DEF StepUpInv, NamedScopes, Gate!Named
  <2>3. QED
    BY <1>1, <2>1, <2>2
<1>3. CASE challenge.scopes = {}
  <2>1. token'.scopes = Supported
    BY <1>3 DEF Gate!Authorize, Supported
  <2>2. QED
    BY <2>1, RequiredIsSupported
<1>4. QED
  BY <1>2, <1>3

\* What a step does to the client's side.
ClientStep ==
    \/ /\ UNCHANGED <<token, challenge, followed>>
       /\ answer' # None /\ answer' # answer => answer'.verdict # "insufficient again"
    \/ /\ token' = None
       /\ UNCHANGED challenge
       /\ answer' = [verdict |-> "invalid", lag |-> 0]
    \/ /\ UNCHANGED <<token, followed>>
       /\ challenge'.scopes \in {{}, Gate!Named(challenge'.query)}
       /\ answer'.verdict = "insufficient again" => challenge'.query \notin Served
    \/ /\ \E s \in TableauSession : Gate!Authorize(s)
       /\ challenge' = None
LEMMA ConfigKept == Gate!Next => UNCHANGED <<enforceScopes, advertiseApiScopes>>
BY Zenon
   DEF Gate!Next, Gate!Unauthenticated, Gate!ValidateStarts, Gate!TableauAnswers,
       Gate!SessionRejected, Gate!Validated, Gate!PassthroughAdmits, Gate!PassthroughMiss,
       Gate!PassthroughHit, Gate!SessionEnds, Gate!Authorize, Gate!Tick, Gate!config

LEMMA GateClientStep == StepUpInv /\ Gate!Next => ClientStep
<1> SUFFICES ASSUME StepUpInv, Gate!Next PROVE ClientStep
  OBVIOUS
<1>1. ASSUME NEW q \in Gate!Query, Gate!Unauthenticated(q)
      PROVE  ClientStep
  <2>1. CASE token = None
    <3>1. PICK named \in {{}, Gate!Named(q)} : Gate!Refuse(q, "unauthorized", named)
      BY <1>1, <2>1, Zenon DEF Gate!Unauthenticated
    <3>2. /\ challenge' = [query |-> q, scopes |-> named]
          /\ answer' = [verdict |-> "unauthorized", lag |-> 0]
          /\ UNCHANGED <<token, followed>>
      BY <3>1, RefusedStep, Zenon
    <3>3. QED
      BY <3>2 DEF ClientStep
  <2>2. CASE token # None
    BY <1>1, <2>2, Zenon DEF Gate!Unauthenticated, Gate!Answered, ClientStep
  <2>3. QED
    BY <2>1, <2>2
<1>2. ASSUME NEW r \in Validation, Gate!Validated(r)
      PROVE  ClientStep
  <2>1. /\ Validating(pc[r]) /\ pc[r].query \in Gate!Query
        /\ UNCHANGED <<token, followed>>
    BY <1>2, ValidatedStep, Zenon DEF StepUpInv, Validating
  <2>2. CASE /\ UNCHANGED challenge
             /\ answer' = [verdict |-> "admitted", lag |-> Gate!Over(pc[r].session)]
    <3>1. answer'.verdict # "insufficient again"
      BY <2>2
    <3>2. QED
      BY <2>1, <2>2, <3>1 DEF ClientStep
  <2>3. CASE /\ challenge' = [query |-> pc[r].query, scopes |-> Gate!Named(pc[r].query)]
             /\ answer' = [verdict |-> "insufficient", lag |-> 0]
    BY <2>1, <2>3 DEF ClientStep
  <2>4. CASE /\ enforceScopes
             /\ ~(Gate!Required(pc[r].query) \subseteq pc[r].scopes)
             /\ challenge' = [query |-> pc[r].query, scopes |-> Gate!Named(pc[r].query)]
             /\ pc[r].query = pc[r].followed
             /\ answer' = [verdict |-> "insufficient again", lag |-> 0]
    <3>1. pc[r].query \notin Served
      BY <2>1, <2>4 DEF StepUpInv, AskingFollows, GrantedFor
    <3>2. QED
      BY <2>1, <2>4, <3>1 DEF ClientStep
  <2>5. QED
    BY <1>2, <2>2, <2>3, <2>4, ValidatedStep, Zenon DEF StepUpInv
<1>3. ASSUME NEW s \in TableauSession, Gate!Authorize(s)
      PROVE  ClientStep
  BY <1>3, Zenon DEF Gate!Authorize, ClientStep
<1>4. ASSUME NEW r \in Validation, Gate!PassthroughAdmits(r)
      PROVE  ClientStep
  <2>1. /\ UNCHANGED <<token, challenge, followed>>
        /\ answer' = [verdict |-> "admitted", lag |-> Gate!Over(pc[r].session)]
    BY <1>4, Zenon DEF Gate!PassthroughAdmits, Gate!Answered, Gate!client
  <2>2. QED
    BY <2>1 DEF ClientStep
<1>5. ASSUME NEW s \in TableauSession, Gate!PassthroughHit(s)
      PROVE  ClientStep
  <2>1. /\ UNCHANGED <<token, challenge, followed>>
        /\ answer' = [verdict |-> "admitted", lag |-> Gate!Over(s)]
    BY <1>5, Zenon DEF Gate!PassthroughHit, Gate!Answered, Gate!client
  <2>2. QED
    BY <2>1 DEF ClientStep
<1>6. ASSUME NEW r \in Validation, Gate!SessionRejected(r)
      PROVE  ClientStep
  <2>1. /\ UNCHANGED <<token, challenge, followed>>
        /\ answer' = [verdict |-> "invalid", lag |-> 0]
    BY <1>6, Zenon DEF Gate!SessionRejected, Gate!Answered, Gate!client
  <2>2. QED
    BY <2>1 DEF ClientStep
<1>7. CASE UNCHANGED <<token, challenge, followed>> /\ (answer' = answer \/ answer' = None)
  BY <1>7 DEF ClientStep
<1>8. QED
  BY <1>1, <1>2, <1>3, <1>4, <1>5, <1>6, <1>7
     DEF Gate!Next, Gate!ValidateStarts, Gate!TableauAnswers, Gate!PassthroughMiss,
         Gate!SessionEnds, Gate!Tick, Gate!client
LEMMA StepUpNext == StepUpInv /\ Gate!Next => StepUpInv'
<1> SUFFICES ASSUME StepUpInv, Gate!Next PROVE StepUpInv'
  OBVIOUS
<1>1. GateTypeOK'
  BY GateTypeNext DEF StepUpInv
<1>2. UNCHANGED <<enforceScopes, advertiseApiScopes>>
  BY ConfigKept
<1>3. \A q : /\ Gate!Required(q)' = Gate!Required(q)
             /\ Gate!Named(q)' = Gate!Named(q)
  BY <1>2
     DEF Gate!Required, Gate!Named, Gate!RequiredMcp, Gate!RequiredApi, Gate!SupportedMcp,
         Gate!SupportedApi
<1>4. NamedScopes'
  BY <1>3, GateClientStep DEF ClientStep, StepUpInv, NamedScopes
<1>5. TokenFollows'
  BY <1>2, <1>3, GateClientStep, AuthorizeGrants
     DEF ClientStep, StepUpInv, TokenFollows, GrantedFor
<1>6. AskingFollows'
  <2> SUFFICES ASSUME NEW r \in Validation, Validating(pc[r])'
               PROVE  GrantedFor(pc[r].followed, pc[r].scopes)'
    BY DEF AskingFollows
  <2>0. Validating(pc'[r])
    BY DEF Validating, Gate!Query
  <2>2. GrantedFor(pc'[r].followed, pc'[r].scopes)
    <3>1. CASE pc'[r] = pc[r]
      BY <2>0, <3>1 DEF StepUpInv, AskingFollows
    <3>2. CASE pc'[r] = Gate!Idle
      BY <2>0, <3>2 DEF Validating, Gate!Idle
    <3>3. CASE pc'[r] \in [at : {"asked"}, session : TableauSession, since : {now}]
      BY <2>0, <3>3 DEF Validating
    <3>4. CASE token # None /\ pc'[r].followed = followed /\ pc'[r].scopes = token.scopes
      BY <3>4 DEF StepUpInv, TokenFollows
    <3>5. ASSUME Gate!TableauAnswers(r)
          PROVE  GrantedFor(pc'[r].followed, pc'[r].scopes)
      <4>1. PICK stage \in {"alive", "over"} :
               /\ pc' = [pc EXCEPT ![r] = [pc[r] EXCEPT !.at = stage]]
               /\ Asking(pc[r])
        BY <3>5, TableauStep, Zenon DEF StepUpInv
      <4>2. stage \in Stage
        BY DEF Stage
      <4>3. pc'[r] = [pc[r] EXCEPT !.at = stage]
        BY <4>1, Zenon DEF StepUpInv, GateTypeOK
      <4> DEFINE p == [pc[r] EXCEPT !.at = stage]
      <4>a. /\ Validating(p) <=> Validating(pc[r])
            /\ Validating(pc[r]) => p.scopes = pc[r].scopes /\ p.followed = pc[r].followed
        BY <4>1, <4>2, AnswerMovesOn, Zenon
      <4> HIDE DEF p
      <4>4. /\ Validating(pc[r])
            /\ pc'[r].scopes = pc[r].scopes /\ pc'[r].followed = pc[r].followed
        <5>1. pc'[r] = p
          BY <4>3 DEF p
        <5>2. QED
          BY <2>0, <4>a, <5>1, Zenon
      <4>5. QED
        BY <4>4 DEF StepUpInv, AskingFollows
    <3>6. ASSUME NEW x \in Validation, x # r, NEW p, pc' = [pc EXCEPT ![x] = p]
          PROVE  pc'[r] = pc[r]
      BY <3>6 DEF StepUpInv, GateTypeOK
    <3>7. ASSUME NEW p, pc' = [pc EXCEPT ![r] = p]
          PROVE  pc'[r] = p
      BY <3>7 DEF StepUpInv, GateTypeOK
    <3>8. ASSUME NEW x \in Validation, NEW q \in Gate!Query, token # None,
                 pc' = [pc EXCEPT ![x] =
                           [at |-> "asked", query |-> q, session |-> token.session,
                            scopes |-> token.scopes, followed |-> followed, since |-> now]]
          PROVE  GrantedFor(pc'[r].followed, pc'[r].scopes)
      BY <3>1, <3>4, <3>6, <3>7, <3>8
    <3>9. ASSUME NEW x \in Validation, x # r, Gate!TableauAnswers(x)
          PROVE  pc'[r] = pc[r]
      BY <3>6, <3>9, TableauStep, Zenon DEF StepUpInv
    <3>10. ASSUME NEW x \in Validation, NEW p, pc' = [pc EXCEPT ![x] = p],
                 p = Gate!Idle \/ p \in [at : {"asked"}, session : TableauSession, since : {now}]
           PROVE  GrantedFor(pc'[r].followed, pc'[r].scopes)
      BY <3>1, <3>2, <3>3, <3>6, <3>7, <3>10, Zenon
    <3>11. ASSUME NEW x \in Validation, Gate!TableauAnswers(x)
           PROVE  GrantedFor(pc'[r].followed, pc'[r].scopes)
      BY <3>1, <3>5, <3>9, <3>11, Zenon
    <3>12. CASE UNCHANGED pc
      BY <3>1, <3>12
    <3>13. QED
      BY <3>8, <3>10, <3>11, <3>12, GatePcStep, Zenon DEF PcStep
  <2>3. QED
    BY <1>2, <1>3, <2>2 DEF GrantedFor, Served, Gate!Query
<1>7. StepUpSuffices'
  <2> SUFFICES ASSUME challenge' # None, challenge'.query \notin ScopedTool \ Enabled
               PROVE  /\ challenge'.scopes \subseteq Supported'
                      /\ answer' # None => answer'.verdict # "insufficient again"
    BY DEF StepUpSuffices, Gate!StepUpSuffices, Supported
  <2>1. challenge'.query \in Served
    BY <1>1 DEF GateTypeOK, Served, Gate!Query
  <2>2. Supported' = Supported
    BY <1>2 DEF Supported, Gate!SupportedMcp, Gate!SupportedApi
  <2>3. challenge'.scopes \subseteq Supported'
    <3>1. challenge'.scopes \subseteq Gate!Required(challenge'.query)
      BY <1>3, <1>4 DEF NamedScopes, Gate!Named
    <3>2. QED
      BY <2>1, <2>2, <3>1, RequiredIsSupported
  <2>4. answer' # None => answer'.verdict # "insufficient again"
    <3>1. CASE UNCHANGED <<challenge, answer>>
      BY <3>1, <2>1 DEF StepUpInv, StepUpSuffices, Gate!StepUpSuffices, Served
    <3>2. CASE UNCHANGED challenge /\ answer' # answer
      <4>1. \/ answer' = None \/ answer'.verdict # "insufficient again"
            \/ answer' = [verdict |-> "invalid", lag |-> 0]
            \/ challenge'.query \notin Served
        BY <3>2, GateClientStep, Zenon DEF ClientStep
      <4>2. CASE answer' = [verdict |-> "invalid", lag |-> 0]
        BY <4>2
      <4>3. QED
        BY <2>1, <4>1, <4>2, Zenon
    <3>3. CASE challenge' # challenge
      BY <2>1, <3>3, GateClientStep, Zenon DEF ClientStep
    <3>4. QED
      BY <3>1, <3>2, <3>3
  <2>5. QED
    BY <2>3, <2>4
<1>8. QED
  BY <1>1, <1>4, <1>5, <1>6, <1>7 DEF StepUpInv

LEMMA StepUpStutter == StepUpInv /\ UNCHANGED gateVars => StepUpInv'
<1> SUFFICES ASSUME StepUpInv, UNCHANGED gateVars PROVE StepUpInv'
  OBVIOUS
<1> USE DEF gateVars, StepUpInv
<1>1. \A q : /\ Gate!Required(q)' = Gate!Required(q)
             /\ Gate!Named(q)' = Gate!Named(q)
  BY DEF Gate!Required, Gate!Named, Gate!RequiredMcp, Gate!RequiredApi, Gate!SupportedMcp,
         Gate!SupportedApi
<1>2. GateTypeOK'
  BY DEF GateTypeOK
<1>3. NamedScopes'
  BY <1>1 DEF NamedScopes
<1>4. TokenFollows' /\ AskingFollows'
  BY <1>1 DEF TokenFollows, AskingFollows, GrantedFor
<1>5. StepUpSuffices'
  BY DEF StepUpSuffices, Gate!StepUpSuffices, Gate!SupportedMcp, Gate!SupportedApi
<1>6. QED
  BY <1>2, <1>3, <1>4, <1>5

\* A client that follows a refusal to an authorization is never refused the same query
\* for its scopes again, nor sent for scopes it cannot be granted, for every query the
\* server supports (authMiddleware.ts:52-151, authorize.ts:116-139).
THEOREM FollowingARefusalSuffices == Spec => []StepUpSuffices
<1>1. Init => StepUpInv
  BY StepUpInit DEF Init
<1>2. StepUpInv /\ [Next]_<<gateVars, oauthVars, sessionsVars>> => StepUpInv'
  BY StepUpNext, StepUpStutter DEF Next
<1>3. StepUpInv => StepUpSuffices
  BY DEF StepUpInv
<1>4. QED
  BY <1>1, <1>2, <1>3, PTL DEF Spec
-----------------------------------------------------------------------------
(* The sessions.                                                           *)

\* A request under way or over for session s's sake: its tool was allowed by what the
\* maker of its server was allowed, and its header and the switch let it run.
Allowed(r) ==
    LET ask == req[r].ask IN
    /\ ask.header # "malformed" /\ ~breakGlass
    /\ stateless => ask.tool \in Sessions!ToolsToRegister(ask.user)
    /\ ~stateless => /\ ask.sid \in Request
                     /\ req[ask.sid].at = "done" /\ req[ask.sid].how = "initialized"
                     /\ ask.tool \in Sessions!ToolsToRegister(req[ask.sid].ask.user)

Initialized(r) == req[r].at = "done" /\ req[r].how = "initialized"
Closed(r) == req[r].at = "done" /\ req[r].how = "closed"

\* Nothing is under way in a program that has exited.
RequestsOK ==
    /\ DOMAIN req = Request /\ DOMAIN server = Request
    /\ \A r \in Request : req[r].at \in {"idle", "registering", "calling", "done"}
    /\ started = "exited" => \A r \in Request : req[r].at \in {"idle", "done"}

SessionsLive ==
    started # "exited" =>
        \A s : s \in sessions <=>
            /\ s \in Request /\ ~stateless /\ Initialized(s)
            /\ \A x \in Request : Closed(x) => req[x].ask.sid # s

\* What was closed had been initialized, in a server with sessions.
ClosedHadOne ==
    \A x \in Request : Closed(x) =>
        ~stateless /\ req[x].ask.sid \in Request /\ Initialized(req[x].ask.sid)

RegisteringOK ==
    \A r \in Request : req[r].at = "registering" =>
        /\ req[r].ask.kind \notin {"ping", "stream", "delete"}
        /\ stateless \/ req[r].ask.kind = "initialize"
        /\ server[r] = [tools |-> server[r].tools, client |-> server[r].client]

\* The server of a session has the tools its user is allowed.
ServersKnown ==
    \A s \in Request : started # "exited" /\ ~stateless /\ Initialized(s) =>
        server[s].tools = Sessions!ToolsToRegister(req[s].ask.user)

CallingOK ==
    \A r \in Request : req[r].at = "calling" =>
        /\ req[r] = [at |-> "calling", ask |-> req[r].ask, on |-> req[r].on,
                     luid |-> req[r].luid]
        /\ req[r].ask.kind = "call"
        /\ req[r].luid \in {None, req[r].ask.user}
        /\ Allowed(r)

CalledOK ==
    \A r \in Request : req[r].at = "done" /\ req[r].how = "called" =>
        /\ req[r].user = req[r].ask.user /\ Allowed(r)
        /\ r \in measured

RejectedOK ==
    \A r \in Request : req[r].at = "done" /\ req[r].how = "400" =>
        \/ req[r].ask.kind = "initialize" \/ req[r].ask.sid = None
        \/ \E x \in Request : Closed(x) /\ req[x].ask.sid = req[r].ask.sid

MeasuredOK ==
    \A r \in measured : r \in Request /\ req[r].at = "done" /\ req[r].ask.kind = "call"

SessionsInv == /\ RequestsOK /\ SessionsLive /\ ClosedHadOne /\ RegisteringOK
               /\ ServersKnown /\ CallingOK /\ CalledOK /\ RejectedOK /\ MeasuredOK

LEMMA SessionsInit == Sessions!Init => SessionsInv
BY DEF Sessions!Init, Sessions!Idle, SessionsInv, RequestsOK, SessionsLive, ClosedHadOne,
       RegisteringOK, ServersKnown, CallingOK, CalledOK, RejectedOK, MeasuredOK, Initialized,
       Closed

\* The invariant says what the property says, and more.
LEMMA SessionsInvSuffices == SessionsInv => SessionsAreSound
<1> SUFFICES ASSUME SessionsInv PROVE SessionsAreSound
  OBVIOUS
<1> USE DEF SessionsInv, Sessions!Has, Sessions!At, Sessions!Q
<1>1. Sessions!SessionsAreLive
  BY DEF SessionsLive, Initialized, Closed, Sessions!SessionsAreLive
<1>2. Sessions!CallsAreTheirOwn
  BY DEF CalledOK, Allowed, Sessions!CallsAreTheirOwn
<1>3. Sessions!RejectedHadNone
  BY DEF RejectedOK, Closed, Sessions!RejectedHadNone
<1>4. Sessions!MeasuredAreCalls
  BY DEF CalledOK, MeasuredOK, Sessions!MeasuredAreCalls
<1>5. QED
  BY <1>1, <1>2, <1>3, <1>4 DEF SessionsAreSound, Sessions!SessionsAreSound
\* A step of request r alone: its record is p afterwards, and its server may be new.
StepOf(r, p) == /\ req' = [req EXCEPT ![r] = p]
                /\ DOMAIN server' = Request
                /\ \A s \in Request \ {r} : server'[s] = server[s]
                /\ UNCHANGED <<stateless, breakGlass, started>>

\* What is allowed stays so: what it rests on is over.
LEMMA AllowedKeeps ==
    ASSUME UNCHANGED <<stateless, breakGlass>>,
           \A x \in Request : req[x].at = "done" => req'[x] = req[x],
           NEW r \in Request, Allowed(r), req'[r].ask = req[r].ask
    PROVE  Allowed(r)'
<1> DEFINE ask == req[r].ask
<1>1. \A u : Sessions!ToolsToRegister(u)' = Sessions!ToolsToRegister(u)
  BY DEF Sessions!ToolsToRegister
<1>2. ~stateless => req'[ask.sid] = req[ask.sid]
  BY DEF Allowed
<1>3. ask' = ask
  OBVIOUS
<1>4. /\ ask.header # "malformed" /\ ~breakGlass
      /\ stateless => ask.tool \in Sessions!ToolsToRegister(ask.user)
      /\ ~stateless => /\ ask.sid \in Request
                       /\ req[ask.sid].at = "done" /\ req[ask.sid].how = "initialized"
                       /\ ask.tool \in Sessions!ToolsToRegister(req[ask.sid].ask.user)
  BY DEF Allowed
<1>5. /\ ask'.header # "malformed" /\ ~breakGlass'
      /\ stateless' => ask'.tool \in Sessions!ToolsToRegister(ask'.user)
      /\ ~stateless' => /\ ask'.sid \in Request
                        /\ req'[ask'.sid].at = "done" /\ req'[ask'.sid].how = "initialized"
                        /\ ask'.tool \in Sessions!ToolsToRegister(req'[ask'.sid].ask.user)
  <2> HIDE DEF ask
  <2>1. QED
    BY <1>2, <1>3, <1>4
<1>6. QED
  BY <1>5, <1>1 DEF Allowed, Sessions!ToolsToRegister

\* An answer that opens or closes no session.
LEMMA Settles ==
    ASSUME SessionsInv, NEW r \in Request, req[r].at # "done",
           NEW p, StepOf(r, p), UNCHANGED sessions,
           p.at = "done", p.how \notin {"initialized", "closed"},
           p.how = "called" => /\ p.user = p.ask.user /\ r \in measured'
                               /\ p.ask = req[r].ask /\ Allowed(r),
           p.how = "400" =>
               \/ p.ask.kind = "initialize" \/ p.ask.sid = None
               \/ \E x \in Request : Closed(x) /\ req[x].ask.sid = p.ask.sid,
           measured' = measured \/ (measured' = measured \cup {r} /\ p.ask.kind = "call")
    PROVE  SessionsInv'
<1> USE DEF SessionsInv, StepOf, RequestsOK, Initialized, Closed
<1>1. \A x \in Request : req'[x] = IF x = r THEN p ELSE req[x]
  OBVIOUS
<1>2. RequestsOK'
  BY <1>1
<1>3. \A x \in Request : /\ Initialized(x)' <=> Initialized(x)
                         /\ Closed(x)' <=> Closed(x)
                         /\ req[x].at = "done" => req'[x] = req[x]
  BY <1>1
<1>4. SessionsLive' /\ ClosedHadOne'
  BY <1>3 DEF SessionsLive, ClosedHadOne
<1>5. RegisteringOK'
  BY <1>1 DEF RegisteringOK
<1>6. ServersKnown'
  BY <1>3 DEF ServersKnown, Sessions!ToolsToRegister
<1>7. \A x \in Request : Allowed(x) /\ req'[x].ask = req[x].ask => Allowed(x)'
  BY <1>3, AllowedKeeps
<1>8. CallingOK' /\ CalledOK'
  BY <1>1, <1>7 DEF CallingOK, CalledOK
<1>9. RejectedOK'
  BY <1>1, <1>3 DEF RejectedOK
<1>10. MeasuredOK'
  BY <1>1 DEF MeasuredOK
<1>11. QED
  BY <1>2, <1>4, <1>5, <1>6, <1>8, <1>9, <1>10
\* A request that makes a server, or whose tool runs.
LEMMA Proceeds ==
    ASSUME SessionsInv, NEW r \in Request, req[r].at # "done", started # "exited",
           NEW p, StepOf(r, p), UNCHANGED <<sessions, measured>>,
           \/ /\ p.at = "registering"
              /\ p.ask.kind \notin {"ping", "stream", "delete"}
              /\ stateless \/ p.ask.kind = "initialize"
              /\ server'[r] = [tools |-> server'[r].tools, client |-> server'[r].client]
           \/ /\ p = [at |-> "calling", ask |-> p.ask, on |-> p.on, luid |-> p.luid]
              /\ p.ask.kind = "call"
              /\ p.luid \in {None, p.ask.user}
              /\ Allowed(r)'
    PROVE  SessionsInv'
<1> USE DEF SessionsInv, StepOf, RequestsOK, Initialized, Closed
<1>1. \A x \in Request : req'[x] = IF x = r THEN p ELSE req[x]
  OBVIOUS
<1>2. RequestsOK'
  BY <1>1
<1>3. \A x \in Request : /\ Initialized(x)' <=> Initialized(x)
                         /\ Closed(x)' <=> Closed(x)
                         /\ req[x].at = "done" => req'[x] = req[x]
  BY <1>1
<1>4. SessionsLive' /\ ClosedHadOne'
  BY <1>3 DEF SessionsLive, ClosedHadOne
<1>5. RegisteringOK'
  BY <1>1 DEF RegisteringOK
<1>6. ServersKnown'
  BY <1>3 DEF ServersKnown, Sessions!ToolsToRegister
<1>7. \A x \in Request : Allowed(x) /\ req'[x].ask = req[x].ask => Allowed(x)'
  BY <1>3, AllowedKeeps
<1>8. CallingOK' /\ CalledOK'
  BY <1>1, <1>7 DEF CallingOK, CalledOK
<1>9. RejectedOK'
  BY <1>1, <1>3 DEF RejectedOK
<1>10. MeasuredOK'
  BY <1>1 DEF MeasuredOK
<1>11. QED
  BY <1>2, <1>4, <1>5, <1>6, <1>8, <1>9, <1>10

\* An initialize request that is answered files its session, if there are any.
LEMMA Initializes ==
    ASSUME SessionsInv, NEW r \in Request, req[r].at = "registering",
           NEW p, StepOf(r, p), p.at = "done", p.how = "initialized", p.ask = req[r].ask,
           p.ask.kind = "initialize",
           server'[r].tools = Sessions!ToolsToRegister(p.ask.user),
           sessions' = IF stateless THEN sessions ELSE sessions \cup {r},
           UNCHANGED measured
    PROVE  SessionsInv'
<1> USE DEF SessionsInv, StepOf, RequestsOK, Initialized, Closed
<1>1. \A x \in Request : req'[x] = IF x = r THEN p ELSE req[x]
  OBVIOUS
<1>2. RequestsOK'
  BY <1>1
<1>3. \A x \in Request : /\ Initialized(x)' <=> (x = r \/ Initialized(x))
                         /\ Closed(x)' <=> Closed(x)
                         /\ req[x].at = "done" => req'[x] = req[x]
  BY <1>1
<1>4. \A x \in Request : Closed(x) => req[x].ask.sid # r
  BY DEF ClosedHadOne
<1>5. SessionsLive'
  BY <1>3, <1>4 DEF SessionsLive
<1>6. ClosedHadOne'
  BY <1>3 DEF ClosedHadOne
<1>7. RegisteringOK'
  BY <1>1 DEF RegisteringOK
<1>8. ServersKnown'
  BY <1>1, <1>3 DEF ServersKnown, Sessions!ToolsToRegister
<1>9. \A x \in Request : Allowed(x) /\ req'[x].ask = req[x].ask => Allowed(x)'
  BY <1>3, AllowedKeeps
<1>10. CallingOK' /\ CalledOK'
  BY <1>1, <1>9 DEF CallingOK, CalledOK
<1>11. RejectedOK'
  BY <1>1, <1>3 DEF RejectedOK
<1>12. MeasuredOK'
  BY <1>1 DEF MeasuredOK
<1>13. QED
  BY <1>2, <1>5, <1>6, <1>7, <1>8, <1>10, <1>11, <1>12

\* A delete closes its session and drops the calls that run on it.
LEMMA Deletes ==
    ASSUME SessionsInv, NEW r \in Request, req[r].at = "idle", started # "exited",
           ~stateless, NEW ask, ask.sid \in sessions,
           sessions' = sessions \ {ask.sid},
           NEW Dropped, Dropped = {x \in Request : req[x].at = "calling" /\ req[x].on = ask.sid},
           req' = [x \in Request |->
                     IF x = r THEN [at |-> "done", ask |-> ask, how |-> "closed"]
                     ELSE IF x \in Dropped
                          THEN [at |-> "done", ask |-> req[x].ask, how |-> "dropped"]
                     ELSE req[x]],
           measured' = measured \cup Dropped,
           UNCHANGED <<stateless, breakGlass, started, server>>
    PROVE  SessionsInv'
<1> USE DEF SessionsInv, RequestsOK, Initialized, Closed
<1>1. RequestsOK'
  OBVIOUS
<1>2. /\ ask.sid \in Request /\ Initialized(ask.sid) /\ ask.sid # r
      /\ req'[r].ask.sid = ask.sid
  BY DEF SessionsLive
<1>3. \A x \in Request : /\ Initialized(x)' <=> Initialized(x)
                         /\ Closed(x)' <=> (x = r \/ Closed(x))
                         /\ req[x].at = "done" => req'[x] = req[x]
  OBVIOUS
<1>4. SessionsLive'
  BY <1>2, <1>3 DEF SessionsLive
<1>5. ClosedHadOne'
  BY <1>2, <1>3 DEF ClosedHadOne
<1>6. RegisteringOK'
  BY DEF RegisteringOK
<1>7. ServersKnown'
  BY <1>3 DEF ServersKnown, Sessions!ToolsToRegister
<1>8. \A x \in Request : Allowed(x) /\ req'[x].ask = req[x].ask => Allowed(x)'
  BY <1>3, AllowedKeeps
<1>9. CallingOK' /\ CalledOK'
  BY <1>8 DEF CallingOK, CalledOK
<1>10. RejectedOK'
  BY <1>3 DEF RejectedOK
<1>11. MeasuredOK'
  BY DEF MeasuredOK, CallingOK
<1>12. QED
  BY <1>1, <1>4, <1>5, <1>6, <1>7, <1>9, <1>10, <1>11

\* The program exits: what is not over is gone.
LEMMA Exits == SessionsInv /\ Sessions!ServerInfoFails => SessionsInv'
<1> SUFFICES ASSUME SessionsInv, Sessions!ServerInfoFails PROVE SessionsInv'
  OBVIOUS
<1> USE DEF SessionsInv, RequestsOK, Initialized, Closed, Sessions!ServerInfoFails, Sessions!At,
            Sessions!Idle, Sessions!config, Sessions!notices
<1>1. RequestsOK' /\ SessionsLive' /\ RegisteringOK' /\ ServersKnown'
  BY DEF SessionsLive, RegisteringOK, ServersKnown
<1>2. \A x \in Request : /\ Initialized(x)' <=> Initialized(x)
                         /\ Closed(x)' <=> Closed(x)
                         /\ req[x].at = "done" => req'[x] = req[x]
                         /\ req'[x].at = "done" => req'[x] = req[x]
                         /\ req'[x].at # "calling"
  OBVIOUS
<1>3. ClosedHadOne'
  BY <1>2 DEF ClosedHadOne
<1>4. \A x \in Request : Allowed(x) /\ req'[x].ask = req[x].ask => Allowed(x)'
  BY <1>2, AllowedKeeps
<1>5. CallingOK' /\ CalledOK'
  BY <1>2, <1>4 DEF CallingOK, CalledOK
<1>6. RejectedOK'
  BY <1>2 DEF RejectedOK
<1>7. MeasuredOK'
  BY <1>2 DEF MeasuredOK
<1>8. QED
  BY <1>1, <1>3, <1>5, <1>6, <1>7
\* An answer for want of anything more: sessions and other servers stay.
LEMMA Answered ==
    ASSUME SessionsInv, NEW r \in Request, req[r].at # "done", NEW ask, NEW how,
           Sessions!Answer(r, ask, how), UNCHANGED <<stateless, breakGlass, started, sessions>>,
           DOMAIN server' = Request, \A s \in Request \ {r} : server'[s] = server[s],
           how \notin {"initialized", "closed", "called"},
           how = "400" =>
               \/ ask.kind = "initialize" \/ ask.sid = None
               \/ \E x \in Request : Closed(x) /\ req[x].ask.sid = ask.sid
    PROVE  SessionsInv'
<1> DEFINE p == [at |-> "done", ask |-> ask, how |-> how]
<1>1. StepOf(r, p)
  BY DEF StepOf, Sessions!Answer
<1>2. p.at = "done" /\ p.how = how /\ p.ask = ask
  OBVIOUS
<1>3. measured' = measured \/ (measured' = measured \cup {r} /\ p.ask.kind = "call")
  BY DEF Sessions!Answer
<1> HIDE DEF p
<1>4. QED
  BY <1>1, <1>2, <1>3, Settles

\* What the tools of a server are, for a request to it.
Permits(ask, tools) ==
    /\ stateless => tools = Sessions!ToolsToRegister(ask.user)
    /\ ~stateless => /\ ask.sid \in Request /\ Initialized(ask.sid)
                     /\ tools = Sessions!ToolsToRegister(req[ask.sid].ask.user)

LEMMA RefusalFacts ==
    ASSUME NEW ask, NEW tools
    PROVE  /\ Sessions!Refusal(ask, tools) = None =>
                ask.tool \in tools /\ ~breakGlass /\ ask.header # "malformed"
           /\ Sessions!Refusal(ask, tools) \in {None} \cup Sessions!Refusals
BY SessionsAssumption DEF Sessions!SessionsAssumption, Sessions!Refusal, Sessions!Refusals

LEMMA Calls ==
    ASSUME SessionsInv, NEW r \in Request, req[r].at \in {"idle", "registering"},
           started # "exited", NEW ask, NEW s, NEW tools, ask.kind = "call",
           Sessions!CallTool(r, ask, s, tools), Permits(ask, tools),
           UNCHANGED <<stateless, breakGlass, started, sessions>>,
           DOMAIN server' = Request, \A x \in Request \ {r} : server'[x] = server[x]
    PROVE  SessionsInv'
<1>1. CASE Sessions!Refusal(ask, tools) # None
  <2>1. Sessions!Answer(r, ask, Sessions!Refusal(ask, tools))
    BY <1>1, Zenon DEF Sessions!CallTool
  <2>2. Sessions!Refusal(ask, tools) \notin {"initialized", "closed", "called", "400"}
    BY <1>1, RefusalFacts DEF Sessions!Refusals
  <2> DEFINE how == Sessions!Refusal(ask, tools)
  <2> HIDE DEF how
  <2>3. Sessions!Answer(r, ask, how) /\ how \notin {"initialized", "closed", "called", "400"}
    BY <2>1, <2>2 DEF how
  <2>4. req[r].at # "done"
    OBVIOUS
  <2>5. QED
    BY <2>3, <2>4, Answered
<1>2. CASE Sessions!Refusal(ask, tools) = None
  <2> DEFINE p == [at |-> "calling", ask |-> ask, on |-> s, luid |-> None]
  <2>1. req' = [req EXCEPT ![r] = p] /\ UNCHANGED measured
    BY <1>2, Zenon DEF Sessions!CallTool
  <2>2. /\ ask.tool \in tools /\ ~breakGlass /\ ask.header # "malformed"
    BY <1>2, RefusalFacts
  <2>3. /\ p = [at |-> "calling", ask |-> p.ask, on |-> p.on, luid |-> p.luid]
        /\ p.ask = ask /\ p.luid = None
    OBVIOUS
  <2> HIDE DEF p
  <2>4. /\ StepOf(r, p) /\ req[r].at # "done"
        /\ req'[r].ask = ask
        /\ \A x \in Request : req[x].at = "done" => req'[x] = req[x]
    BY <2>1, <2>3 DEF StepOf, SessionsInv, RequestsOK
  <2>5. Allowed(r)'
    <3>1. \A u : Sessions!ToolsToRegister(u)' = Sessions!ToolsToRegister(u)
      BY DEF Sessions!ToolsToRegister
    <3>2. /\ ask.header # "malformed" /\ ~breakGlass
          /\ stateless => ask.tool \in Sessions!ToolsToRegister(ask.user)
          /\ ~stateless => /\ ask.sid \in Request
                           /\ req'[ask.sid].at = "done" /\ req'[ask.sid].how = "initialized"
                           /\ ask.tool \in Sessions!ToolsToRegister(req'[ask.sid].ask.user)
      BY <2>2, <2>4 DEF Permits, Initialized
    <3>3. QED
      BY <2>4, <3>1, <3>2 DEF Allowed, Sessions!ToolsToRegister
  <2>6. QED
    BY <2>1, <2>3, <2>4, <2>5, Proceeds
<1>3. QED
  BY <1>1, <1>2
\* An id a client sends is one it was given.
LEMMA SidsAreGiven ==
    ASSUME NEW c \in Client, NEW u \in User, NEW ask \in Sessions!Asks(c, u), ask.sid # None
    PROVE  ask.sid \in Request /\ ~stateless /\ Initialized(ask.sid)
<1>1. ask.sid \in Sessions!Known(c)
  BY DEF Sessions!Asks
<1>2. QED
  BY <1>1 DEF Sessions!Known, Sessions!Has, Sessions!At, Initialized

\* A request to a session on file.
LEMMA OnSessionKeeps ==
    ASSUME SessionsInv, NEW r \in Request, req[r].at = "idle", started # "exited", NEW ask,
           Sessions!OnSession(r, ask), UNCHANGED <<stateless, breakGlass, started>>
    PROVE  SessionsInv'
<1>1. ~stateless /\ ask.sid \in sessions /\ UNCHANGED server
  BY Zenon DEF Sessions!OnSession
<1>2. ask.sid \in Request /\ Initialized(ask.sid)
  BY <1>1 DEF SessionsInv, SessionsLive
<1>3. DOMAIN server' = Request /\ \A x \in Request \ {r} : server'[x] = server[x]
  BY <1>1 DEF SessionsInv, RequestsOK
<1>4. CASE ask.kind = "initialize" /\ Sessions!Answer(r, ask, "400") /\ UNCHANGED sessions
  <2>1. req[r].at # "done" /\ "400" \notin {"initialized", "closed", "called"}
    OBVIOUS
  <2>2. QED
    BY <1>3, <1>4, <2>1, Answered
<1>5. CASE ask.kind = "call" /\ Sessions!CallTool(r, ask, ask.sid, server[ask.sid].tools)
           /\ UNCHANGED sessions
  <2>1. Permits(ask, server[ask.sid].tools)
    BY <1>1, <1>2 DEF Permits, SessionsInv, ServersKnown
  <2>2. req[r].at \in {"idle", "registering"}
    OBVIOUS
  <2>3. QED
    BY <1>3, <1>5, <2>1, <2>2, Calls
<1>6. CASE ask.kind = "delete" /\ Sessions!Deliver(r, ask, ask.sid, server[ask.sid].tools)
  <2> DEFINE Dropped == {x \in Request : req[x].at = "calling" /\ req[x].on = ask.sid}
  <2>1. /\ sessions' = sessions \ {ask.sid}
        /\ req' = [x \in Request |->
                     IF x = r THEN [at |-> "done", ask |-> ask, how |-> "closed"]
                     ELSE IF req[x].at = "calling" /\ req[x].on = ask.sid
                          THEN [at |-> "done", ask |-> req[x].ask, how |-> "dropped"]
                     ELSE req[x]]
        /\ measured' = measured \cup Dropped
    <3>1. ask.kind \notin {"call", "stream", "setLevel"}
      BY <1>6
    <3>2. QED
      BY <1>6, <3>1, Zenon
         DEF Sessions!Deliver, Sessions!DeleteSession, Sessions!At, Sessions!Q
  <2>2. req' = [x \in Request |->
                  IF x = r THEN [at |-> "done", ask |-> ask, how |-> "closed"]
                  ELSE IF x \in Dropped
                       THEN [at |-> "done", ask |-> req[x].ask, how |-> "dropped"]
                  ELSE req[x]]
    BY <2>1
  <2>3. Dropped = {x \in Request : req[x].at = "calling" /\ req[x].on = ask.sid}
    OBVIOUS
  <2> HIDE DEF Dropped
  <2>4. QED
    BY <1>1, <2>1, <2>2, <2>3, Deletes
<1>7. CASE Sessions!Answer(r, ask, "ok") /\ UNCHANGED sessions
  <2>1. req[r].at # "done" /\ "ok" \notin {"initialized", "closed", "called", "400"}
    OBVIOUS
  <2>2. QED
    BY <1>3, <1>7, <2>1, Answered
<1>8. QED
  BY <1>4, <1>5, <1>6, <1>7, Zenon DEF Sessions!OnSession, Sessions!Deliver

LEMMA ReceiveKeeps ==
    ASSUME SessionsInv, NEW r \in Request, NEW c \in Client, NEW u \in User,
           NEW ask \in Sessions!Asks(c, u), Sessions!Receive(r, ask)
    PROVE  SessionsInv'
<1>1. /\ req[r].at = "idle" /\ started # "exited"
      /\ UNCHANGED <<stateless, breakGlass, started>>
  BY Zenon DEF Sessions!Receive, Sessions!At, Sessions!config
<1>2. req[r].at # "done"
  BY <1>1
<1>3. UNCHANGED server => /\ DOMAIN server' = Request
                          /\ \A x \in Request \ {r} : server'[x] = server[x]
  BY DEF SessionsInv, RequestsOK
<1>4. CASE Sessions!Ping(r, ask) \/ Sessions!MethodNotAllowed(r, ask)
  <2>1. PICK how \in {"pong", "405"} :
           Sessions!Answer(r, ask, how) /\ UNCHANGED <<sessions, server>>
    BY <1>4, Zenon DEF Sessions!Ping, Sessions!MethodNotAllowed
  <2>2. how \notin {"initialized", "closed", "called", "400"}
    OBVIOUS
  <2>3. QED
    BY <1>1, <1>2, <1>3, <2>1, <2>2, Answered
<1>5. CASE Sessions!Rejected(r, ask)
  <2>1. /\ Sessions!Answer(r, ask, "400") /\ UNCHANGED <<sessions, server>>
        /\ ask.sid \notin sessions
    BY <1>5, Zenon DEF Sessions!Rejected
  <2>2. \/ ask.sid = None
        \/ \E x \in Request : Closed(x) /\ req[x].ask.sid = ask.sid
    BY <1>1, <2>1, SidsAreGiven DEF SessionsInv, SessionsLive
  <2>3. "400" \notin {"initialized", "closed", "called"}
    OBVIOUS
  <2>4. QED
    BY <1>1, <1>2, <1>3, <2>1, <2>2, <2>3, Answered
<1>6. CASE Sessions!NewServer(r, ask)
  <2> DEFINE p == [at |-> "registering", ask |-> ask]
             new == [tools |-> {}, client |-> IF stateless THEN None ELSE ask.client]
  <2>1. /\ ask.kind \notin {"ping", "stream", "delete"}
        /\ stateless \/ ask.kind = "initialize"
        /\ server' = [server EXCEPT ![r] = new]
        /\ req' = [req EXCEPT ![r] = p]
        /\ UNCHANGED <<sessions, measured>>
    BY <1>6, Zenon DEF Sessions!NewServer, Sessions!MakesServer
  <2>2. /\ p.at = "registering" /\ p.ask = ask
        /\ new = [tools |-> new.tools, client |-> new.client]
    OBVIOUS
  <2> HIDE DEF p, new
  <2>3. StepOf(r, p) /\ server'[r] = new
    BY <1>1, <2>1 DEF StepOf, SessionsInv, RequestsOK
  <2>4. QED
    BY <1>1, <1>2, <2>1, <2>2, <2>3, Proceeds
<1>7. CASE Sessions!OnSession(r, ask)
  BY <1>1, <1>7, OnSessionKeeps
<1>8. QED
  BY <1>4, <1>5, <1>6, <1>7, Zenon DEF Sessions!Receive
\* Records of servers and of calls with one field replaced.
LEMMA ReplacedFields ==
    /\ \A p, t : p = [tools |-> p.tools, client |-> p.client] =>
          /\ [p EXCEPT !.tools = t] = [tools |-> t, client |-> p.client]
          /\ [p EXCEPT !.client = t] = [tools |-> p.tools, client |-> t]
    /\ \A p, u : p = [at |-> p.at, ask |-> p.ask, on |-> p.on, luid |-> p.luid] =>
          [p EXCEPT !.luid = u] = [at |-> p.at, ask |-> p.ask, on |-> p.on, luid |-> u]
OBVIOUS

\* The tools of a server that was made are those its user is allowed.
LEMMA ConnectedFacts ==
    ASSUME SessionsInv, NEW r \in Request, req[r].at = "registering"
    PROVE  LET tools == Sessions!ToolsToRegister(req[r].ask.user) IN
           /\ Sessions!Connected(r) = [tools |-> tools, client |-> server[r].client]
           /\ \A c : [Sessions!Connected(r) EXCEPT !.client = c]
                        = [tools |-> tools, client |-> c]
<1> DEFINE tools == Sessions!ToolsToRegister(req[r].ask.user)
<1>1. server[r] = [tools |-> server[r].tools, client |-> server[r].client]
  BY DEF SessionsInv, RegisteringOK
<1>2. Sessions!Connected(r) = [server[r] EXCEPT !.tools = tools]
  BY Zenon DEF Sessions!Connected, Sessions!Q
<1> HIDE DEF tools
<1>3. Sessions!Connected(r) = [tools |-> tools, client |-> server[r].client]
  BY <1>1, <1>2, ReplacedFields, Zenon
<1>4. /\ Sessions!Connected(r).tools = tools
      /\ Sessions!Connected(r) = [tools |-> Sessions!Connected(r).tools,
                                 client |-> Sessions!Connected(r).client]
  BY <1>3
<1>5. \A c : [Sessions!Connected(r) EXCEPT !.client = c] = [tools |-> tools, client |-> c]
  BY <1>4, ReplacedFields, Zenon
<1>6. QED
  BY <1>3, <1>5, Zenon DEF tools

LEMMA RegisteredKeeps ==
    ASSUME SessionsInv, NEW r \in Request, Sessions!Registered(r)
    PROVE  SessionsInv'
<1> DEFINE ask == req[r].ask
           tools == Sessions!ToolsToRegister(ask.user)
<1>1. /\ req[r].at = "registering" /\ UNCHANGED <<stateless, breakGlass, started>>
  BY Zenon DEF Sessions!Registered, Sessions!At, Sessions!config
<1>2. /\ ask.kind \notin {"ping", "stream", "delete"}
      /\ stateless \/ ask.kind = "initialize"
      /\ started # "exited"
  BY <1>1 DEF SessionsInv, RegisteringOK, RequestsOK
<1>3. CASE ask.kind = "initialize"
  <2> DEFINE p == [at |-> "done", ask |-> ask, how |-> "initialized"]
             new == [tools |-> tools, client |-> ask.client]
  <2>1. /\ server' = [server EXCEPT ![r] =
                         [Sessions!Connected(r) EXCEPT !.client = ask.client]]
        /\ Sessions!Answer(r, ask, "initialized")
        /\ sessions' = IF stateless THEN sessions ELSE sessions \cup {r}
    BY <1>3, Zenon DEF Sessions!Registered, Sessions!Q
  <2>2. server' = [server EXCEPT ![r] = new]
    BY <1>1, <2>1, ConnectedFacts, Zenon
  <2>3. req' = [req EXCEPT ![r] = p] /\ UNCHANGED measured
    BY <1>3, <2>1 DEF Sessions!Answer
  <2>4. p.at = "done" /\ p.how = "initialized" /\ p.ask = ask /\ new.tools = tools
    OBVIOUS
  <2> HIDE DEF p, new, ask
  <2>5. StepOf(r, p) /\ server'[r].tools = tools
    BY <1>1, <2>2, <2>3, <2>4 DEF StepOf, SessionsInv, RequestsOK
  <2>6. QED
    BY <1>1, <1>3, <2>1, <2>3, <2>4, <2>5, Initializes DEF ask
<1>4. CASE ask.kind # "initialize"
  <2>1. /\ server' = [server EXCEPT ![r] = Sessions!Connected(r)]
        /\ Sessions!Deliver(r, ask, r, Sessions!Connected(r).tools)
    BY <1>4, Zenon DEF Sessions!Registered, Sessions!Q
  <2>2. DOMAIN server' = Request /\ \A x \in Request \ {r} : server'[x] = server[x]
    BY <2>1 DEF SessionsInv, RequestsOK
  <2>3. CASE ask.kind = "call" /\ UNCHANGED sessions
             /\ Sessions!CallTool(r, ask, r, Sessions!Connected(r).tools)
    <3>1. Sessions!Connected(r) = [tools |-> tools, client |-> server[r].client]
      BY <1>1, ConnectedFacts, Zenon
    <3>2. Sessions!Connected(r).tools = tools
      BY <3>1
    <3>3. Permits(ask, Sessions!Connected(r).tools)
      BY <1>2, <1>4, <3>2 DEF Permits
    <3>4. req[r].at \in {"idle", "registering"}
      BY <1>1
    <3>5. QED
      BY <1>1, <1>2, <2>2, <2>3, <3>3, <3>4, Calls
  <2>4. CASE Sessions!Answer(r, ask, "ok") /\ UNCHANGED sessions
    <3>1. req[r].at # "done" /\ "ok" \notin {"initialized", "closed", "called", "400"}
      BY <1>1
    <3>2. QED
      BY <1>1, <2>2, <2>4, <3>1, Answered
  <2>5. ask.kind # "delete"
    BY <1>2
  <2>6. QED
    BY <2>1, <2>3, <2>4, <2>5, Zenon DEF Sessions!Deliver
<1>5. QED
  BY <1>3, <1>4

LEMMA RegisterFailsKeeps ==
    ASSUME SessionsInv, NEW r \in Request, Sessions!RegisterFails(r)
    PROVE  SessionsInv'
<1>1. /\ req[r].at = "registering" /\ Sessions!Answer(r, req[r].ask, "500")
      /\ UNCHANGED <<stateless, breakGlass, started, sessions, server>>
  BY Zenon DEF Sessions!RegisterFails, Sessions!At, Sessions!Q, Sessions!OnFile, Sessions!config
<1>2. /\ DOMAIN server' = Request /\ \A x \in Request \ {r} : server'[x] = server[x]
      /\ req[r].at # "done" /\ "500" \notin {"initialized", "closed", "called", "400"}
  BY <1>1 DEF SessionsInv, RequestsOK
<1>3. QED
  BY <1>1, <1>2, Answered

\* The steps of a tool that runs.
LEMMA CallingKeeps ==
    ASSUME SessionsInv, NEW r \in Request,
           Sessions!SignsIn(r) \/ Sessions!Answers(r) \/ Sessions!HangsUp(r)
    PROVE  SessionsInv'
<1> DEFINE ask == req[r].ask
<1>1. /\ req[r].at = "calling" /\ UNCHANGED <<stateless, breakGlass, started, sessions, server>>
  BY Zenon DEF Sessions!SignsIn, Sessions!Answers, Sessions!HangsUp, Sessions!At, Sessions!config
<1>2. /\ req[r] = [at |-> "calling", ask |-> ask, on |-> req[r].on, luid |-> req[r].luid]
      /\ ask.kind = "call" /\ req[r].luid \in {None, ask.user} /\ Allowed(r)
      /\ started # "exited" /\ req[r].at # "done"
  BY <1>1 DEF SessionsInv, CallingOK, RequestsOK
<1>3. \A p : req' = [req EXCEPT ![r] = p] => StepOf(r, p)
  BY <1>1 DEF StepOf, SessionsInv, RequestsOK
<1>4. CASE Sessions!SignsIn(r)
  <2> DEFINE p == [at |-> "calling", ask |-> ask, on |-> req[r].on, luid |-> ask.user]
  <2>1. req' = [req EXCEPT ![r] = [req[r] EXCEPT !.luid = ask.user]] /\ UNCHANGED measured
    BY <1>4, Zenon DEF Sessions!SignsIn, Sessions!SetUserLuid, Sessions!Q
  <2>2. [req[r] EXCEPT !.luid = ask.user] = p
    <3>1. req[r] = [at |-> req[r].at, ask |-> req[r].ask, on |-> req[r].on,
                    luid |-> req[r].luid]
      BY <1>1, <1>2
    <3>2. [req[r] EXCEPT !.luid = ask.user] = [at |-> req[r].at, ask |-> req[r].ask,
                                              on |-> req[r].on, luid |-> ask.user]
      BY <3>1, ReplacedFields, Zenon
    <3>3. QED
      BY <1>1, <3>2, Zenon
  <2>3. req' = [req EXCEPT ![r] = p]
    BY <2>1, <2>2, Zenon
  <2>4. /\ p = [at |-> "calling", ask |-> p.ask, on |-> p.on, luid |-> p.luid]
        /\ p.ask = ask /\ p.luid = ask.user
    OBVIOUS
  <2> HIDE DEF p
  <2>5. /\ req'[r].ask = req[r].ask
        /\ \A x \in Request : req[x].at = "done" => req'[x] = req[x]
    BY <1>2, <2>3, <2>4 DEF SessionsInv, RequestsOK
  <2>6. Allowed(r)'
    BY <1>1, <1>2, <2>5, AllowedKeeps
  <2>7. QED
    BY <1>1, <1>2, <1>3, <2>1, <2>3, <2>4, <2>6, Proceeds
<1>5. CASE Sessions!Answers(r)
  <2> DEFINE p == [at |-> "done", ask |-> ask, how |-> "called", user |-> Sessions!UserLuid(r),
                   client |-> server[req[r].on].client]
  <2>1. req' = [req EXCEPT ![r] = p] /\ measured' = measured \cup {r}
    BY <1>5, Zenon DEF Sessions!Answers, Sessions!Q
  <2>2. Sessions!UserLuid(r) = ask.user
    BY <1>2 DEF Sessions!UserLuid, Sessions!Q
  <2>3. p.at = "done" /\ p.how = "called" /\ p.ask = ask /\ p.user = ask.user
    BY <2>2
  <2> HIDE DEF p
  <2>4. "called" \notin {"initialized", "closed", "400"} /\ r \in measured'
    BY <2>1
  <2>5. QED
    BY <1>1, <1>2, <1>3, <2>1, <2>3, <2>4, Settles
<1>6. CASE Sessions!HangsUp(r)
  <2> DEFINE p == [at |-> "done", ask |-> ask, how |-> "dropped"]
  <2>1. req' = [req EXCEPT ![r] = p] /\ UNCHANGED measured
    BY <1>6, Zenon DEF Sessions!HangsUp, Sessions!Q
  <2>2. p.at = "done" /\ p.how = "dropped" /\ p.ask = ask
    OBVIOUS
  <2> HIDE DEF p
  <2>3. "dropped" \notin {"initialized", "closed", "called", "400"}
    OBVIOUS
  <2>4. QED
    BY <1>1, <1>2, <1>3, <2>1, <2>2, <2>3, Settles
<1>7. QED
  BY <1>4, <1>5, <1>6

\* A step that leaves the requests, the servers and the files alone.
LEMMA RequestsUntouched ==
    ASSUME SessionsInv, UNCHANGED <<stateless, breakGlass, req, sessions, server, measured>>,
           started' = started \/ (started # "exited" /\ started' # "exited")
    PROVE  SessionsInv'
<1> USE DEF SessionsInv, Initialized, Closed
<1>1. RequestsOK' /\ SessionsLive' /\ ClosedHadOne' /\ RegisteringOK'
  BY DEF RequestsOK, SessionsLive, ClosedHadOne, RegisteringOK
<1>2. \A x \in Request : Allowed(x) => Allowed(x)'
  BY AllowedKeeps
<1>3. ServersKnown' /\ CallingOK' /\ CalledOK'
  BY <1>2 DEF ServersKnown, CallingOK, CalledOK, Sessions!ToolsToRegister
<1>4. RejectedOK' /\ MeasuredOK'
  BY DEF RejectedOK, MeasuredOK
<1>5. QED
  BY <1>1, <1>3, <1>4

LEMMA SessionsNext == SessionsInv /\ Sessions!Next => SessionsInv'
<1> SUFFICES ASSUME SessionsInv, Sessions!Next PROVE SessionsInv'
  OBVIOUS
<1>1. CASE Sessions!ServerInfoReady
  BY <1>1, RequestsUntouched DEF Sessions!ServerInfoReady, Sessions!config
<1>2. ASSUME NEW r \in Request, NEW l \in Sessions!Level, Sessions!Logs(r, l)
      PROVE  SessionsInv'
  <2>1. UNCHANGED <<stateless, breakGlass, req, sessions, server, measured, started>>
    BY <1>2, Zenon DEF Sessions!Logs, Sessions!config
  <2>2. QED
    BY <2>1, RequestsUntouched
<1>3. QED
  BY <1>1, <1>2, Exits, ReceiveKeeps, RegisterFailsKeeps, RegisteredKeeps, CallingKeeps, Zenon
     DEF Sessions!Next

\* Whatever requests, deletes and failures overlap: the sessions on file are those that
\* were initialized and not closed, a call runs for its own user with its own overrides and
\* an allowed tool, what is refused for want of a session has none, and latencies are those
\* of calls (sessions.ts, express.ts:100-190, server.web.ts:49-160).
THEOREM SessionsStaySound == Spec => []SessionsAreSound
<1>1. Init => SessionsInv
  BY SessionsInit DEF Init
<1>2. SessionsInv /\ UNCHANGED sessionsVars => SessionsInv'
  BY RequestsUntouched DEF sessionsVars
<1>3. SessionsInv /\ [Next]_<<gateVars, oauthVars, sessionsVars>> => SessionsInv'
  BY <1>2, SessionsNext DEF Next
<1>4. QED
  BY <1>1, <1>3, SessionsInvSuffices, PTL DEF Spec
=============================================================================
