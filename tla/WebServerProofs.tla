------------------------- MODULE WebServerProofs -------------------------
(***************************************************************************)
(* Proofs about what serves a web tool.                                    *)
(*                                                                         *)
(* SiteSettings and OverridableConfig: for every number of overlapping     *)
(* requests, every interval and timeout, and every set of texts of the     *)
(* environment, of the site and of the requests.                           *)
(*                                                                         *)
(* WebTools: for every set of calls whose scripts are sound (ScriptChecks) *)
(* and every way of signing in, whatever fails and however the content     *)
(* moves.  The inductive invariant (ToolInv) is that what is known of a    *)
(* script before its next step is so in the state.                         *)
(***************************************************************************)
EXTENDS ScriptChecks, SiteSettings, TLAPS

-----------------------------------------------------------------------------
(* Types.                                                                  *)

\* What a request may be configured with: a version of the site's settings, or none.
Settings == SitesSettings \cup {NoSettings}

KeptSettings == [settings : Settings, version : Nat, until : Nat]

Configs == {{}} \cup {OverridableConfig(e, s, may, o) :
                         e \in Environments, s \in Settings, may \in BOOLEAN, o \in Overrides}

ToolSets == {{}} \cup {ToolsAllowed(e, s, Tools) : e \in Environments, s \in Settings}

Request == [phase : {"idle", "reading", "read", "done", "error"}, over : Overrides,
            since : Nat, read : KeptSettings,
            outcome : {"none", "ok", "403", "500", "other", "thrown"},
            config : Configs, tools : ToolSets]

SiteTypes ==
    /\ env \in Environments
    /\ sitesMay \in BOOLEAN
    /\ now \in 0 .. MaxTime
    /\ versions \in Seq([settings : SitesSettings, replaced : Nat])
    /\ Len(versions) > 0
    /\ cache \in KeptSettings
    /\ request \in [Requests -> Request]

LEMMA IsElement == ASSUME NEW S, NEW s \in Seq(S), NEW n \in 1 .. Len(s) PROVE s[n] \in S
OBVIOUS

LEMMA LastIsIndex == SiteTypes => Len(versions) \in 1 .. Len(versions)
BY DEF SiteTypes

LEMMA NothingIsKept == Nothing \in KeptSettings
BY DEF Nothing, KeptSettings, Settings

LEMMA TypesInit == SettingsInit => SiteTypes
<1> SUFFICES ASSUME SettingsInit PROVE SiteTypes
  OBVIOUS
<1>1. \A o \in Overrides : [Idle EXCEPT !.over = o] \in Request
  BY NothingIsKept DEF Idle, Request, Configs, ToolSets
<1>2. request \in [Requests -> Request]
  BY <1>1 DEF SettingsInit
<1>3. PICK s \in SitesSettings : versions = << [settings |-> s, replaced |-> MaxTime + 1] >>
  BY DEF SettingsInit
<1>4. versions \in Seq([settings : SitesSettings, replaced : Nat]) /\ Len(versions) > 0
  BY <1>3, ClockAssumption
<1>5. QED
  BY <1>2, <1>4, NothingIsKept, ClockAssumption DEF SettingsInit, SiteTypes

LEMMA ConfiguredIsTyped ==
    ASSUME SiteTypes, NEW r \in Requests, NEW s \in Settings, NEW v \in Nat
    PROVE  Configured(r, s, v) \in Request
<1>1. request[r] \in Request /\ env \in Environments /\ sitesMay \in BOOLEAN /\ now \in Nat
  BY DEF SiteTypes
<1>2. request[r].over \in Overrides
  BY <1>1 DEF Request
<1>3. [settings |-> s, version |-> v, until |-> 0] \in KeptSettings
  BY DEF KeptSettings
<1>4. OverridableConfig(env, s, sitesMay, request[r].over) \in Configs
  BY <1>1, <1>2 DEF Configs
<1>5. ToolsAllowed(env, s, Tools) \in ToolSets
  BY <1>1 DEF ToolSets
<1>6. QED
  BY <1>1, <1>3, <1>4, <1>5 DEF Configured, Request

LEMMA TypesStep == SiteTypes /\ [SettingsNext]_siteVars => SiteTypes'
<1> SUFFICES ASSUME SiteTypes, [SettingsNext]_siteVars PROVE SiteTypes'
  OBVIOUS
<1>1. ASSUME NEW r \in Requests, Unread(r) PROVE SiteTypes'
  <2>1. Configured(r, NoSettings, 0) \in Request
    BY ConfiguredIsTyped DEF Settings
  <2>2. QED
    BY <1>1, <2>1 DEF Unread, SiteTypes
<1>2. ASSUME NEW r \in Requests, CacheHit(r) PROVE SiteTypes'
  <2>1. Configured(r, cache.settings, cache.version) \in Request
    BY ConfiguredIsTyped DEF SiteTypes, KeptSettings
  <2>2. QED
    BY <1>2, <2>1 DEF CacheHit, SiteTypes
<1>3. ASSUME NEW r \in Requests, CacheMiss(r) PROVE SiteTypes'
  <2>0. request[r] \in Request /\ now \in Nat
    BY DEF SiteTypes
  <2>1. [request[r] EXCEPT !.phase = "reading", !.since = now] \in Request
    BY <2>0 DEF Request
  <2>2. request' \in [Requests -> Request]
    BY <1>3, <2>1 DEF CacheMiss, SiteTypes
  <2>3. QED
    BY <1>3, <2>2 DEF CacheMiss, SiteTypes
<1>4. ASSUME NEW r \in Requests, SiteAnswers(r) PROVE SiteTypes'
  <2>0. Len(versions) \in Nat /\ Current \in SitesSettings /\ request[r] \in Request
    <3>1. versions[Len(versions)] \in [settings : SitesSettings, replaced : Nat]
      BY IsElement, LastIsIndex DEF SiteTypes
    <3>2. QED
      BY <3>1 DEF SiteTypes, Current
  <2>1. [settings |-> Current, version |-> Len(versions), until |-> 0] \in KeptSettings
    BY <2>0 DEF KeptSettings, Settings
  <2>2. PICK o \in {"ok", "403", "500", "other", "thrown"}, k \in KeptSettings :
          request' = [request EXCEPT ![r].phase = "read", ![r].outcome = o, ![r].read = k]
    BY <1>4, <2>1, NothingIsKept DEF SiteAnswers
  <2>4. [request[r] EXCEPT !.phase = "read", !.outcome = o, !.read = k] \in Request
    BY <2>0 DEF Request
  <2>5. request' \in [Requests -> Request]
    BY <2>2, <2>4 DEF SiteTypes
  <2>3. QED
    BY <1>4, <2>5 DEF SiteAnswers, SiteTypes
<1>5. ASSUME NEW r \in Requests, Keeps(r) PROVE SiteTypes'
  <2>1. request[r].read \in KeptSettings
    BY DEF SiteTypes, Request
  <2>2. Configured(r, request[r].read.settings, request[r].read.version) \in Request
    BY <2>1, ConfiguredIsTyped DEF KeptSettings
  <2>3. cache' \in KeptSettings
    <3>1. now + Interval \in Nat
      BY ClockAssumption DEF SiteTypes
    <3>2. cache' = [request[r].read EXCEPT !.until = now + Interval]
      BY <1>5 DEF Keeps
    <3>3. QED
      BY <2>1, <3>1, <3>2 DEF KeptSettings
  <2>4. QED
    BY <1>5, <2>2, <2>3 DEF Keeps, SiteTypes
<1>6. ASSUME NEW r \in Requests, Throws(r) PROVE SiteTypes'
  <2>1. [request[r] EXCEPT !.phase = "error"] \in Request
    BY DEF SiteTypes, Request
  <2>2. request' \in [Requests -> Request]
    BY <1>6, <2>1 DEF Throws, SiteTypes
  <2>3. QED
    BY <1>6, <2>2 DEF Throws, SiteTypes
<1>7. CASE SiteChanges
  <2>1. PICK s \in SitesSettings :
          versions' = Append([versions EXCEPT ![Len(versions)].replaced = now],
                             [settings |-> s, replaced |-> MaxTime + 1])
    BY <1>7 DEF SiteChanges
  <2> DEFINE Version == [settings : SitesSettings, replaced : Nat]
  <2>2. [versions EXCEPT ![Len(versions)].replaced = now] \in Seq(Version)
    <3>1. versions[Len(versions)] \in Version
      BY IsElement, LastIsIndex DEF SiteTypes
    <3>4. now \in Nat
      BY DEF SiteTypes
    <3>2. [versions[Len(versions)] EXCEPT !.replaced = now] \in Version
      BY <3>1, <3>4
    <3>3. QED
      BY <3>2 DEF SiteTypes
  <2>4. [settings |-> s, replaced |-> MaxTime + 1] \in Version
    BY ClockAssumption
  <2>5. versions' \in Seq(Version) /\ Len(versions') > 0
    <3> HIDE DEF Version
    <3> QED
      BY <2>1, <2>2, <2>4
  <2>3. QED
    BY <1>7, <2>5 DEF SiteChanges, SiteTypes
<1>8. CASE Tick
  BY <1>8, ClockAssumption DEF Tick, SiteTypes
<1>9. CASE UNCHANGED siteVars
  BY <1>9 DEF siteVars, SiteTypes
<1>10. QED
  BY <1>1, <1>2, <1>3, <1>4, <1>5, <1>6, <1>7, <1>8, <1>9 DEF SettingsNext, Proceeds

-----------------------------------------------------------------------------
(* How old settings may be.                                                *)

\* When a version was replaced, as far as time has gone.
Gone(v) == IF v = Len(versions) THEN now ELSE versions[v].replaced

\* A request reads no longer than Timeout, and what it reads was not replaced before it
\* began; what a request was configured with was not replaced too long before.
Recent(q) ==
    /\ q.read.version <= Len(versions)
    /\ q.phase \in {"reading", "read"} => q.since <= now /\ now <= q.since + Timeout
    /\ q.phase = "read" /\ q.read.version # 0 => q.since <= Gone(q.read.version)
    /\ q.phase = "done" /\ q.read.version # 0 =>
          q.since < Gone(q.read.version) + Interval + Timeout

\* What is cached goes in time, whichever of two overlapping reads was kept last.
CacheGoesInTime ==
    /\ cache.version <= Len(versions)
    /\ cache.version # 0 => cache.until <= Gone(cache.version) + Interval + Timeout

RecencyInv ==
    /\ SiteTypes
    /\ versions[Len(versions)].replaced = MaxTime + 1
    /\ CacheGoesInTime
    /\ \A r \in Requests : Recent(request[r])

LEMMA RecencyInit == SettingsInit => RecencyInv
<1> SUFFICES ASSUME SettingsInit PROVE RecencyInv
  OBVIOUS
<1>1. SiteTypes
  BY TypesInit
<1>2. versions[Len(versions)].replaced = MaxTime + 1
  BY DEF SettingsInit
<1>3. CacheGoesInTime
  BY <1>1 DEF SettingsInit, CacheGoesInTime, Nothing, SiteTypes
<1>4. ASSUME NEW r \in Requests PROVE Recent(request[r])
  <2>1. request[r].phase = "idle" /\ request[r].read = Nothing
    BY DEF SettingsInit, Idle
  <2>2. QED
    BY <1>1, <2>1 DEF Recent, Nothing, SiteTypes
<1>5. QED
  BY <1>1, <1>2, <1>3, <1>4 DEF RecencyInv

\* Time only makes a version go later.
LEMMA GoneIsTime == ASSUME SiteTypes, NEW v \in 1 .. Len(versions) PROVE Gone(v) \in Nat
<1>1. versions[v] \in [settings : SitesSettings, replaced : Nat]
  BY IsElement DEF SiteTypes
<1>2. QED
  BY <1>1 DEF Gone, SiteTypes

\* A step that leaves the versions and the clock alone.
LEMMA StillRecent ==
    ASSUME RecencyInv, UNCHANGED <<versions, now>>, NEW r \in Requests, NEW q \in Request,
           SiteTypes', CacheGoesInTime', Recent(q), request' = [request EXCEPT ![r] = q]
    PROVE  RecencyInv'
<1>1. ASSUME NEW x \in Requests PROVE Recent(request[x])'
  <2>1. Recent(request'[x])
    BY DEF RecencyInv, SiteTypes
  <2>2. QED
    BY <2>1 DEF Recent, Gone
<1>2. QED
  BY <1>1 DEF RecencyInv

LEMMA RequestsStayRecent ==
    ASSUME RecencyInv, SiteTypes', NEW r \in Requests, Proceeds(r)
    PROVE  RecencyInv'
<1> USE ClockAssumption
<1> DEFINE q == request[r]
<1>1. /\ q \in Request /\ Recent(q) /\ cache \in KeptSettings /\ CacheGoesInTime /\ now \in Nat
      /\ Len(versions) \in Nat \ {0} /\ SiteTypes
  BY DEF RecencyInv, SiteTypes
<1>2. q.since \in Nat /\ q.read.version \in Nat /\ cache.version \in Nat /\ cache.until \in Nat
  BY <1>1 DEF Request, KeptSettings
<1>3. /\ q.read.version # 0 => Gone(q.read.version) \in Nat
      /\ cache.version # 0 => Gone(cache.version) \in Nat
  BY <1>1, <1>2, GoneIsTime DEF Recent, CacheGoesInTime
<1>4. request \in [Requests -> Request] /\ request' \in [Requests -> Request]
  BY DEF RecencyInv, SiteTypes
<1>5. ASSUME NEW s, NEW v \in Nat, request' = [request EXCEPT ![r] = Configured(r, s, v)],
             UNCHANGED <<versions, now>>, CacheGoesInTime', v <= Len(versions),
             v # 0 => now < Gone(v) + Interval + Timeout
      PROVE  RecencyInv'
  <2>1. Configured(r, s, v) \in Request
    BY <1>4, <1>5
  <2>2. Recent(Configured(r, s, v))
    BY <1>5 DEF Recent, Configured
  <2>3. QED
    BY <1>5, <2>1, <2>2, StillRecent
<1>6. UNCHANGED <<cache, versions, now>> => CacheGoesInTime'
  BY <1>1 DEF CacheGoesInTime, Gone
<1>7. CASE Unread(r)
  <2>1. 0 \in Nat /\ 0 <= Len(versions)
    BY <1>1
  <2>2. /\ UNCHANGED <<versions, cache, now>>
        /\ request' = [request EXCEPT ![r] = Configured(r, NoSettings, 0)]
    BY <1>7 DEF Unread
  <2>3. QED
    BY <1>5, <1>6, <2>1, <2>2
<1>8. CASE CacheHit(r)
  <2>1. cache.version # 0 => now < Gone(cache.version) + Interval + Timeout
    BY <1>1, <1>2, <1>3, <1>8 DEF CacheHit, CacheGoesInTime
  <2>2. cache.version <= Len(versions)
    BY <1>1 DEF CacheGoesInTime
  <2>3. QED
    BY <1>2, <1>5, <1>6, <1>8, <2>1, <2>2 DEF CacheHit
<1>9. CASE CacheMiss(r)
  <2> DEFINE p == [q EXCEPT !.phase = "reading", !.since = now]
  <2>0. p.phase = "reading" /\ p.since = now /\ p.read = q.read
    BY <1>1 DEF Request
  <2>1. Recent(p)
    <3> HIDE DEF p, q
    <3> QED
      BY <1>1, <2>0 DEF Recent
  <2>4. p \in Request
    BY <1>1 DEF Request
  <2>2. request' = [request EXCEPT ![r] = p]
    BY <1>9 DEF CacheMiss
  <2>3. QED
    BY <1>6, <1>9, <2>1, <2>2, <2>4, StillRecent DEF CacheMiss
<1>10. CASE SiteAnswers(r)
  <2>1. PICK o \in {"ok", "403", "500", "other", "thrown"} :
          request' = [request EXCEPT ![r].phase = "read", ![r].outcome = o,
                        ![r].read = IF o # "ok" THEN Nothing
                                    ELSE [settings |-> Current, version |-> Len(versions),
                                          until |-> 0]]
    BY <1>10 DEF SiteAnswers
  <2> DEFINE p == [q EXCEPT !.phase = "read", !.outcome = o,
                            !.read = IF o # "ok" THEN Nothing
                                     ELSE [settings |-> Current, version |-> Len(versions),
                                           until |-> 0]]
  <2>2. request' = [request EXCEPT ![r] = p]
    BY <1>4, <2>1
  <2>3. p \in Request
    BY <1>4, <2>2
  <2>4. /\ p.phase = "read" /\ p.since = q.since
        /\ p.read.version = 0 \/ p.read.version = Len(versions)
    BY <1>1 DEF Request, Nothing
  <2>5. q.since <= now /\ now <= q.since + Timeout
    BY <1>1, <1>10 DEF SiteAnswers, Recent
  <2>6. Recent(p)
    <3> HIDE DEF p, q
    <3> QED
      BY <1>1, <2>4, <2>5 DEF Recent, Gone
  <2>7. QED
    BY <1>6, <1>10, <2>2, <2>3, <2>6, StillRecent DEF SiteAnswers
<1>11. CASE Keeps(r)
  <2>1. q.since <= now /\ now <= q.since + Timeout /\ q.read.version <= Len(versions)
    BY <1>1, <1>11 DEF Keeps, Recent
  <2>2. q.read.version # 0 => now <= Gone(q.read.version) + Timeout
    BY <1>1, <1>2, <1>3, <1>11, <2>1 DEF Keeps, Recent
  <2>3. cache'.version = q.read.version /\ cache'.until = now + Interval
    BY <1>1, <1>11 DEF Keeps, Request, KeptSettings
  <2>4. UNCHANGED <<versions, now>>
    BY <1>11 DEF Keeps
  <2>5. CacheGoesInTime'
    <3>1. q.read.version # 0 => cache'.until <= Gone(q.read.version) + Interval + Timeout
      BY <1>1, <1>3, <2>2, <2>3
    <3>2. \A v : Gone(v)' = Gone(v)
      BY <2>4 DEF Gone
    <3>3. QED
      BY <2>1, <2>3, <2>4, <3>1, <3>2 DEF CacheGoesInTime
  <2>6. q.read.version # 0 => now < Gone(q.read.version) + Interval + Timeout
    BY <1>1, <1>3, <2>2
  <2>7. QED
    BY <1>2, <1>5, <1>11, <2>1, <2>4, <2>5, <2>6 DEF Keeps
<1>12. CASE Throws(r)
  <2> DEFINE p == [q EXCEPT !.phase = "error"]
  <2>1. p \in Request /\ Recent(p)
    BY <1>1 DEF Request, Recent
  <2>2. request' = [request EXCEPT ![r] = p]
    BY <1>12 DEF Throws
  <2>3. QED
    BY <1>6, <1>12, <2>1, <2>2, StillRecent DEF Throws
<1>13. QED
  BY <1>7, <1>8, <1>9, <1>10, <1>11, <1>12 DEF Proceeds

\* A version that is replaced now was good until now.
LEMMA ChangesStayRecent == ASSUME RecencyInv, SiteTypes', SiteChanges PROVE RecencyInv'
<1>1. /\ Len(versions') = Len(versions) + 1
      /\ versions'[Len(versions')].replaced = MaxTime + 1
      /\ \A v \in 1 .. Len(versions) : Gone(v)' = Gone(v)
  <2>1. PICK s \in SitesSettings :
          versions' = Append([versions EXCEPT ![Len(versions)].replaced = now],
                             [settings |-> s, replaced |-> MaxTime + 1])
    BY DEF SiteChanges
  <2>2. now' = now /\ SiteTypes
    BY DEF SiteChanges, RecencyInv
  <2> DEFINE replaced == [versions EXCEPT ![Len(versions)].replaced = now]
             Version == [settings : SitesSettings, replaced : Nat]
  <2>3. replaced \in Seq(Version) /\ Len(replaced) = Len(versions)
    <3>1. versions[Len(versions)] \in Version
      BY <2>2, IsElement, LastIsIndex DEF SiteTypes
    <3>2. [versions[Len(versions)] EXCEPT !.replaced = now] \in Version
      BY <2>2, <3>1 DEF SiteTypes
    <3>3. QED
      BY <2>2, <3>2 DEF SiteTypes
  <2>4. ASSUME NEW v \in 1 .. Len(versions) PROVE Gone(v)' = Gone(v)
    <3>1. versions'[v] = replaced[v] /\ Len(versions') = Len(versions) + 1
      BY <2>1, <2>3
    <3>2. v # Len(versions')
      BY <2>2, <3>1 DEF SiteTypes
    <3>3. versions[v] \in Version
      BY <2>2, IsElement DEF SiteTypes
    <3>4. CASE v = Len(versions)
      BY <2>2, <3>1, <3>2, <3>3, <3>4 DEF Gone, SiteTypes
    <3>5. CASE v # Len(versions)
      BY <2>2, <3>1, <3>2, <3>5 DEF Gone, SiteTypes
    <3>6. QED
      BY <3>4, <3>5
  <2>5. versions' = Append(replaced, [settings |-> s, replaced |-> MaxTime + 1])
    BY <2>1
  <2>6. /\ Len(versions') = Len(versions) + 1
        /\ versions'[Len(versions) + 1] = [settings |-> s, replaced |-> MaxTime + 1]
    <3> HIDE DEF replaced, Version
    <3> QED
      BY <2>3, <2>5
  <2>7. QED
    BY <2>4, <2>6
<1>2. UNCHANGED <<cache, now, request>> /\ Len(versions) \in Nat /\ SiteTypes
  BY DEF SiteChanges, RecencyInv, SiteTypes
<1>3. CacheGoesInTime'
  <2>1. cache.version \in Nat /\ cache.version <= Len(versions)
    BY <1>2 DEF SiteTypes, KeptSettings, RecencyInv, CacheGoesInTime
  <2>2. QED
    BY <1>1, <1>2, <2>1 DEF RecencyInv, CacheGoesInTime
<1>4. ASSUME NEW r \in Requests PROVE Recent(request[r])'
  <2>1. request[r].read.version \in Nat /\ Recent(request[r])
    BY <1>2 DEF SiteTypes, Request, KeptSettings, RecencyInv
  <2>2. QED
    BY <1>1, <1>2, <2>1 DEF Recent
<1>5. QED
  BY <1>1, <1>3, <1>4 DEF RecencyInv

LEMMA TicksStayRecent == ASSUME RecencyInv, SiteTypes', Tick PROVE RecencyInv'
<1> USE ClockAssumption
<1>1. /\ now \in Nat /\ now' = now + 1 /\ UNCHANGED <<versions, cache, request>>
      /\ Len(versions) \in Nat /\ SiteTypes
  BY DEF Tick, RecencyInv, SiteTypes
<1>2. ASSUME NEW v \in 1 .. Len(versions) PROVE Gone(v) \in Nat /\ Gone(v) <= Gone(v)'
  BY <1>1, GoneIsTime DEF Gone
<1>3. ASSUME NEW v \in 1 .. Len(versions) PROVE Gone(v)' \in Nat
  BY <1>1, GoneIsTime DEF Gone
<1>4. CacheGoesInTime'
  <2>1. cache.version \in Nat /\ cache.until \in Nat /\ CacheGoesInTime
    BY <1>1 DEF SiteTypes, KeptSettings, RecencyInv
  <2>2. QED
    BY <1>1, <1>2, <1>3, <2>1 DEF CacheGoesInTime
<1>5. ASSUME NEW r \in Requests PROVE Recent(request[r])'
  <2>1. request[r].read.version \in Nat /\ request[r].since \in Nat /\ Recent(request[r])
    BY <1>1 DEF SiteTypes, Request, KeptSettings, RecencyInv
  <2>2. request[r].phase \in {"reading", "read"} => now - request[r].since < Timeout
    BY DEF Tick
  <2> DEFINE v == request[r].read.version
  <2>3. v # 0 => /\ v \in 1 .. Len(versions)
                 /\ Gone(v) \in Nat /\ Gone(v)' \in Nat /\ Gone(v) <= Gone(v)'
    BY <1>1, <1>2, <1>3, <2>1 DEF Recent
  <2>4. request'[r] = request[r] /\ versions' = versions
    BY <1>1
  <2> HIDE DEF v
  <2>5. QED
    BY <1>1, <2>1, <2>2, <2>3, <2>4 DEF Recent, v
<1>6. QED
  BY <1>1, <1>4, <1>5 DEF RecencyInv

LEMMA RecencyStep == RecencyInv /\ [SettingsNext]_siteVars => RecencyInv'
<1> SUFFICES ASSUME RecencyInv, [SettingsNext]_siteVars PROVE RecencyInv'
  OBVIOUS
<1>1. SiteTypes'
  BY TypesStep DEF RecencyInv
<1>2. CASE UNCHANGED siteVars
  BY <1>1, <1>2 DEF siteVars, RecencyInv, CacheGoesInTime, Recent, Gone
<1>3. QED
  BY <1>1, <1>2, RequestsStayRecent, ChangesStayRecent, TicksStayRecent DEF SettingsNext

\* A site's settings are not used longer after they were replaced than the interval at
\* which they are checked and the time a check may take, even when the answer of an
\* earlier read overwrites a newer one in the cache (mcpSiteSettings.ts:33-81).
THEOREM SettingsStayRecent == SettingsSpec => []SettingsAreRecent
<1>1. RecencyInv => SettingsAreRecent
  <2> SUFFICES ASSUME RecencyInv, NEW r \in Requests, Done(r), request[r].read.version # 0
               PROVE  request[r].since
                        < versions[request[r].read.version].replaced + Interval + Timeout
    BY DEF SettingsAreRecent
  <2> DEFINE v == request[r].read.version
  <2>1. SiteTypes /\ Recent(request[r]) /\ v \in Nat /\ request[r].since \in Nat /\ now \in Nat
        /\ now <= MaxTime /\ Len(versions) \in Nat
    BY ClockAssumption DEF RecencyInv, SiteTypes, Request, KeptSettings
  <2>2. request[r].since < Gone(v) + Interval + Timeout
    BY <2>1 DEF Done, Recent
  <2>3. CASE v = Len(versions)
    <3>1. versions[v].replaced = MaxTime + 1 /\ Gone(v) = now
      BY <2>3 DEF RecencyInv, Gone
    <3>2. QED
      BY <2>1, <2>2, <3>1, ClockAssumption
  <2>4. CASE v # Len(versions)
    BY <2>2, <2>4 DEF Gone
  <2>5. QED
    BY <2>3, <2>4
<1>2. QED
  BY <1>1, RecencyInit, RecencyStep, PTL DEF SettingsSpec

-----------------------------------------------------------------------------
(* What overrides may do to a configuration.                               *)

LEMMA AtMostIsOrder ==
    /\ \A l \in Nat : AtMost(l, l)
    /\ \A l, m, n \in Nat : AtMost(l, m) /\ AtMost(m, n) => AtMost(l, n)
BY DEF AtMost, NoLimit

\* A text that is given is none of the others.
LEMMA TextsDiffer ==
    /\ ~Given(Absent) /\ ~Given(Empty) /\ ~Given(Bad)
    /\ Absent # Empty /\ Absent # Bad /\ Empty # Bad
BY DEF Given, Absent, Empty, Bad

\* Every text the configuration is made from is well formed.
LEMMA TextsAreWellFormed ==
    \A texts \in Environments \cup Settings \cup Overrides : WellFormed(texts)
<1>1. WellFormed(NoSettings)
  BY TextsDiffer DEF WellFormed, NoSettings, Vars
<1>2. QED
  BY <1>1, TextsAssumption DEF Settings

-----------------------------------------------------------------------------
(* The bases: what the environment and the site say.                       *)

LEMMA BasesAreLimits ==
    ASSUME NEW e, NEW s, WellFormed(e), WellFormed(s)
    PROVE  /\ SiteValue(e, s, "LIMIT", NoLimit) \in Nat
           /\ \A t \in DOMAIN SiteValue(e, s, "LIMITS", NoLimits) :
                 SiteValue(e, s, "LIMITS", NoLimits)[t] \in Nat
<1>1. SiteValue(e, s, "LIMIT", NoLimit) \in Nat
  BY DEF SiteValue, WellFormed, NoLimit
<1>2. DOMAIN NoLimits = {}
  BY DEF NoLimits
<1>3. ASSUME NEW t \in DOMAIN SiteValue(e, s, "LIMITS", NoLimits)
      PROVE  SiteValue(e, s, "LIMITS", NoLimits)[t] \in Nat
  BY <1>2 DEF SiteValue, WellFormed
<1>4. QED
  BY <1>1, <1>3

-----------------------------------------------------------------------------
(* One variable at a time.                                                 *)

\* What a variable may end as, when it is restricted or not allowed.
IsHeld(v, allowed) == v \notin DOMAIN allowed \/ allowed[v] = "restricted"

LEMMA BoundsAreHeld ==
    ASSUME NEW base, NEW text, NEW allowed, IsHeld("BOUNDS", allowed),
           NEW b \in Overridden(text, "BOUNDS", allowed, base,
                                BoundedVariable(base, text, Restricted("BOUNDS", allowed)))
    PROVE  Narrower(b, base)
BY DEF IsHeld, Overridden, BoundedVariable, Restricted, Narrower, NoBounds

LEMMA LimitIsHeld ==
    ASSUME NEW base \in Nat, NEW text, NEW allowed, IsHeld("LIMIT", allowed),
           NEW l \in Overridden(text, "LIMIT", allowed, base,
                                MaxResultLimit(base, text, Restricted("LIMIT", allowed)))
    PROVE  AtMost(l, base)
BY AtMostIsOrder DEF IsHeld, Overridden, MaxResultLimit, Restricted, AtMost, NoLimit

\* The limits of tools, given the overall limit the request ends with.
LEMMA LimitsAreHeld ==
    ASSUME NEW base, NEW text, NEW allowed, NEW limit, IsHeld("LIMITS", allowed),
           \A t \in DOMAIN base : base[t] \in Nat,
           NEW ls \in Limits(base, text, allowed, limit)
    PROVE  \/ ls = base
           \/ LimitsAccepted(base, ls, limit)
BY DEF IsHeld, Limits, Overridden, MaxResultLimits, Restricted

-----------------------------------------------------------------------------
(* A configuration as a whole.                                             *)

\* The outcomes of each variable.
AllowedOf(e, s, may) == AllowedRequestOverrides(e, s, may)

BoundsFrom(e, s, may, o) ==
    LET base == SiteValue(e, s, "BOUNDS", NoBounds)
    IN Overridden(o["BOUNDS"], "BOUNDS", AllowedOf(e, s, may), base,
          BoundedVariable(base, o["BOUNDS"], Restricted("BOUNDS", AllowedOf(e, s, may))))

FlagOf(e, s, may, o) ==
    LET base == SiteValue(e, s, "FLAG", FALSE)
    IN Overridden(o["FLAG"], "FLAG", AllowedOf(e, s, may), base,
          BooleanVariable(base, o["FLAG"], Restricted("FLAG", AllowedOf(e, s, may))))

StaleOf(e, s, may, o) ==
    LET base == SiteValue(e, s, "STALE", StaleDefault)
    IN Overridden(o["STALE"], "STALE", AllowedOf(e, s, may), base,
          StaleContent(base, o["STALE"], Restricted("STALE", AllowedOf(e, s, may))))

LimitOf(e, s, may, o) ==
    LET base == SiteValue(e, s, "LIMIT", NoLimit)
    IN Overridden(o["LIMIT"], "LIMIT", AllowedOf(e, s, may), base,
          MaxResultLimit(base, o["LIMIT"], Restricted("LIMIT", AllowedOf(e, s, may))))

LimitsOf(e, s, may, o, limit) ==
    Limits(SiteValue(e, s, "LIMITS", NoLimits), o["LIMITS"], AllowedOf(e, s, may), limit)

ConfigOf(allowed, b, f, a, l, ls) ==
    [allowed |-> allowed, bounds |-> b, flag |-> f, stale |-> a, limit |-> l, limits |-> ls]

\* The configurations of these outcomes, with each of the limits of tools.
WithLimits(e, s, may, o, b, f, a, l) ==
    {ConfigOf(AllowedOf(e, s, may), b, f, a, l, ls) : ls \in LimitsOf(e, s, may, o, l)}

LEMMA ConfigIsOfParts ==
    ASSUME NEW e, NEW s, NEW may, NEW o
    PROVE  OverridableConfig(e, s, may, o) =
             UNION {WithLimits(e, s, may, o, b, f, a, l) :
                    b \in BoundsFrom(e, s, may, o), f \in FlagOf(e, s, may, o),
                    a \in StaleOf(e, s, may, o), l \in LimitOf(e, s, may, o)}
BY DEF OverridableConfig, AllowedOf, BoundsFrom, FlagOf, StaleOf, LimitOf, LimitsOf, ConfigOf,
       WithLimits

LEMMA ConfigHasParts ==
    ASSUME NEW e, NEW s, NEW may, NEW o, NEW c \in OverridableConfig(e, s, may, o)
    PROVE  /\ c.allowed = AllowedOf(e, s, may)
           /\ c.bounds \in BoundsFrom(e, s, may, o)
           /\ c.flag \in FlagOf(e, s, may, o)
           /\ c.stale \in StaleOf(e, s, may, o)
           /\ c.limit \in LimitOf(e, s, may, o)
           /\ c.limits \in LimitsOf(e, s, may, o, c.limit)
<1>1. PICK b \in BoundsFrom(e, s, may, o), f \in FlagOf(e, s, may, o),
           a \in StaleOf(e, s, may, o), l \in LimitOf(e, s, may, o) :
        \E ls \in LimitsOf(e, s, may, o, l) : c = ConfigOf(AllowedOf(e, s, may), b, f, a, l, ls)
  BY ConfigIsOfParts DEF WithLimits
<1>2. QED
  BY <1>1 DEF ConfigOf

LEMMA PartsMakeConfig ==
    ASSUME NEW e, NEW s, NEW may, NEW o,
           NEW b \in BoundsFrom(e, s, may, o), NEW f \in FlagOf(e, s, may, o),
           NEW a \in StaleOf(e, s, may, o), NEW l \in LimitOf(e, s, may, o),
           NEW ls \in LimitsOf(e, s, may, o, l)
    PROVE  ConfigOf(AllowedOf(e, s, may), b, f, a, l, ls) \in OverridableConfig(e, s, may, o)
<1>1. ConfigOf(AllowedOf(e, s, may), b, f, a, l, ls) \in WithLimits(e, s, may, o, b, f, a, l)
  BY DEF WithLimits
<1>2. QED
  BY <1>1, ConfigIsOfParts

\* Without overrides there is one configuration, of the bases.
LEMMA PlainIsBase ==
    ASSUME NEW e, NEW s, NEW may, NEW p,
           p = CHOOSE c \in OverridableConfig(e, s, may, NoOverrides) : TRUE
    PROVE  /\ p.bounds = SiteValue(e, s, "BOUNDS", NoBounds)
           /\ p.flag = SiteValue(e, s, "FLAG", FALSE)
           /\ p.stale = SiteValue(e, s, "STALE", StaleDefault)
           /\ p.limit = SiteValue(e, s, "LIMIT", NoLimit)
           /\ p.limits = SiteValue(e, s, "LIMITS", NoLimits)
<1>1. /\ NoOverrides["BOUNDS"] = Absent /\ NoOverrides["FLAG"] = Absent
      /\ NoOverrides["STALE"] = Absent /\ NoOverrides["LIMIT"] = Absent
      /\ NoOverrides["LIMITS"] = Absent
  BY DEF NoOverrides, Vars
<1>2. /\ BoundsFrom(e, s, may, NoOverrides) = {SiteValue(e, s, "BOUNDS", NoBounds)}
      /\ FlagOf(e, s, may, NoOverrides) = {SiteValue(e, s, "FLAG", FALSE)}
      /\ StaleOf(e, s, may, NoOverrides) = {SiteValue(e, s, "STALE", StaleDefault)}
      /\ LimitOf(e, s, may, NoOverrides) = {SiteValue(e, s, "LIMIT", NoLimit)}
      /\ \A l : LimitsOf(e, s, may, NoOverrides, l) = {SiteValue(e, s, "LIMITS", NoLimits)}
  BY <1>1 DEF Overridden, BoundsFrom, FlagOf, StaleOf, LimitOf, LimitsOf, Limits
<1>3. ConfigOf(AllowedOf(e, s, may), SiteValue(e, s, "BOUNDS", NoBounds),
             SiteValue(e, s, "FLAG", FALSE), SiteValue(e, s, "STALE", StaleDefault),
             SiteValue(e, s, "LIMIT", NoLimit), SiteValue(e, s, "LIMITS", NoLimits))
        \in OverridableConfig(e, s, may, NoOverrides)
  BY <1>2, PartsMakeConfig
<1>4. p \in OverridableConfig(e, s, may, NoOverrides)
  BY <1>3
<1>5. /\ p.bounds \in BoundsFrom(e, s, may, NoOverrides)
      /\ p.flag \in FlagOf(e, s, may, NoOverrides)
      /\ p.stale \in StaleOf(e, s, may, NoOverrides)
      /\ p.limit \in LimitOf(e, s, may, NoOverrides)
      /\ p.limits \in LimitsOf(e, s, may, NoOverrides, p.limit)
  BY <1>4, ConfigHasParts
<1>6. QED
  BY <1>2, <1>5

\* The result limit of each tool.
LEMMA ToolLimitsAreHeld ==
    ASSUME NEW base, NEW l \in Nat, NEW m \in Nat, NEW ls, AtMost(l, m),
           \A t \in DOMAIN base : base[t] \in Nat,
           \A t \in DOMAIN ls : ls[t] \in Nat,
           ls = base \/ LimitsAccepted(base, ls, l), NEW t
    PROVE  AtMost(IF t \in DOMAIN ls THEN ls[t] ELSE l,
                  IF t \in DOMAIN base THEN base[t] ELSE m)
<1>1. CASE ls = base
  BY <1>1, AtMostIsOrder
<1>2. CASE LimitsAccepted(base, ls, l)
  <2>1. CASE t \in DOMAIN base
    BY <1>2, <2>1 DEF LimitsAccepted
  <2>2. CASE t \notin DOMAIN base /\ t \in DOMAIN ls
    BY <1>2, <2>2, AtMostIsOrder DEF LimitsAccepted
  <2>3. CASE t \notin DOMAIN base /\ t \notin DOMAIN ls
    BY <2>3
  <2>4. QED
    BY <2>1, <2>2, <2>3
<1>3. QED
  BY <1>1, <1>2

\* What the request ends with are numbers too.
LEMMA OverridesAreLimits ==
    ASSUME NEW e, NEW s, NEW may, NEW o, NEW c \in OverridableConfig(e, s, may, o),
           WellFormed(e), WellFormed(s), WellFormed(o)
    PROVE  c.limit \in Nat /\ \A t \in DOMAIN c.limits : c.limits[t] \in Nat
<1>1. o["LIMIT"] \in {Absent, Empty, Bad} \/ Value(o["LIMIT"]) \in Nat
  BY DEF WellFormed, Vars
<1>2. c.limit \in Nat
  <2> DEFINE base == SiteValue(e, s, "LIMIT", NoLimit)
  <2>1. base \in Nat
    BY BasesAreLimits
  <2>2. \/ o["LIMIT"] = Absent /\ c.limit = base
        \/ /\ o["LIMIT"] # Absent
           /\ c.limit \in MaxResultLimit(base, o["LIMIT"],
                                         Restricted("LIMIT", AllowedOf(e, s, may)))
    BY ConfigHasParts DEF LimitOf, Overridden
  <2>3. c.limit = base \/ c.limit = NoLimit \/ o["LIMIT"] \notin {Absent, Empty, Bad}
    BY <2>2, TextsDiffer DEF MaxResultLimit
  <2>4. c.limit = base \/ c.limit = NoLimit \/ c.limit = Value(o["LIMIT"])
    BY <2>2 DEF MaxResultLimit
  <2>5. QED
    BY <1>1, <2>1, <2>3, <2>4 DEF NoLimit
<1>3. DOMAIN NoLimits = {}
  BY DEF NoLimits
<1>4. ASSUME NEW t \in DOMAIN c.limits PROVE c.limits[t] \in Nat
  <2> DEFINE base == SiteValue(e, s, "LIMITS", NoLimits)
             over == IF Given(o["LIMITS"]) THEN Value(o["LIMITS"]) ELSE NoLimits
  <2>1. c.limits = base \/ c.limits = over
    BY ConfigHasParts DEF LimitsOf, Limits, Overridden, MaxResultLimits
  <2>2. QED
    BY <1>3, <2>1, BasesAreLimits DEF WellFormed
<1>5. QED
  BY <1>2, <1>4

\* Where a request is configured, it loosens nothing that is held.
LEMMA ConfigIsNoLooser ==
    ASSUME NEW e, NEW s, NEW may, NEW o, NEW c \in OverridableConfig(e, s, may, o),
           WellFormed(e), WellFormed(s), WellFormed(o)
    PROVE  NoLooser(c, CHOOSE p \in OverridableConfig(e, s, may, NoOverrides) : TRUE)
<1> DEFINE p == CHOOSE x \in OverridableConfig(e, s, may, NoOverrides) : TRUE
<1>1. /\ p.bounds = SiteValue(e, s, "BOUNDS", NoBounds)
      /\ p.flag = SiteValue(e, s, "FLAG", FALSE)
      /\ p.stale = SiteValue(e, s, "STALE", StaleDefault)
      /\ p.limit = SiteValue(e, s, "LIMIT", NoLimit)
      /\ p.limits = SiteValue(e, s, "LIMITS", NoLimits)
  BY PlainIsBase
<1>2. \A v : Held(c, v) <=> IsHeld(v, AllowedOf(e, s, may))
  BY ConfigHasParts DEF Held, IsHeld
<1>3. p.limit \in Nat /\ \A t \in DOMAIN p.limits : p.limits[t] \in Nat
  BY <1>1, BasesAreLimits
<1>4. c.limit \in Nat /\ \A t \in DOMAIN c.limits : c.limits[t] \in Nat
  BY OverridesAreLimits
<1> HIDE DEF p
<1>5. Held(c, "BOUNDS") => Narrower(c.bounds, p.bounds)
  BY <1>1, <1>2, ConfigHasParts, BoundsAreHeld DEF BoundsFrom
<1>6. ASSUME Held(c, "FLAG"), p.flag PROVE c.flag
  <2>1. c.flag \in Overridden(o["FLAG"], "FLAG", AllowedOf(e, s, may), p.flag,
             BooleanVariable(p.flag, o["FLAG"], Restricted("FLAG", AllowedOf(e, s, may))))
    BY <1>1, ConfigHasParts DEF FlagOf
  <2>2. IsHeld("FLAG", AllowedOf(e, s, may))
    BY <1>2, <1>6
  <2>3. QED
    BY <1>6, <2>1, <2>2, Zenon DEF IsHeld, Overridden, BooleanVariable, Restricted
<1>7. Held(c, "LIMIT") => AtMost(c.limit, p.limit)
  BY <1>1, <1>2, <1>3, ConfigHasParts, LimitIsHeld DEF LimitOf
<1>8. Held(c, "LIMITS") => c.limits = p.limits \/ LimitsAccepted(p.limits, c.limits, c.limit)
  BY <1>1, <1>2, <1>3, ConfigHasParts, LimitsAreHeld DEF LimitsOf
<1>9. Held(c, "LIMITS") =>
        \A t \in DOMAIN p.limits : AtMost(GetMaxResultLimit(c, t), p.limits[t])
  BY <1>3, <1>8, AtMostIsOrder DEF LimitsAccepted, GetMaxResultLimit
<1>10. Held(c, "LIMIT") /\ Held(c, "LIMITS") =>
         \A t \in Tools : AtMost(GetMaxResultLimit(c, t), GetMaxResultLimit(p, t))
  BY <1>3, <1>4, <1>7, <1>8, ToolLimitsAreHeld DEF GetMaxResultLimit
<1>11. ASSUME NEW v \in Vars \ DOMAIN c.allowed PROVE Part(c)[v] = Part(p)[v]
  <2>1. v \notin DOMAIN AllowedOf(e, s, may)
    BY ConfigHasParts
  <2>2. \A base, text, outcomes :
           Overridden(text, v, AllowedOf(e, s, may), base, outcomes) \subseteq {base}
    BY <2>1 DEF Overridden
  <2>3. CASE v = "BOUNDS"
    BY <1>1, <2>2, <2>3, ConfigHasParts DEF BoundsFrom, Part
  <2>4. CASE v = "FLAG"
    <3> DEFINE base == SiteValue(e, s, "FLAG", FALSE)
               taken == BooleanVariable(base, o["FLAG"], Restricted("FLAG", AllowedOf(e, s, may)))
    <3>1. c.flag \in Overridden(o["FLAG"], "FLAG", AllowedOf(e, s, may), base, taken)
      BY ConfigHasParts, Zenon DEF FlagOf
    <3> HIDE DEF taken
    <3>2. Overridden(o["FLAG"], "FLAG", AllowedOf(e, s, may), base, taken) \subseteq {base}
      BY <2>2, <2>4
    <3>3. c.flag = p.flag
      BY <1>1, <3>1, <3>2
    <3>4. Part(c)["FLAG"] = c.flag /\ Part(p)["FLAG"] = p.flag
      BY Zenon DEF Part
    <3>5. QED
      BY <2>4, <3>3, <3>4, Zenon
  <2>5. CASE v = "STALE"
    BY <1>1, <2>2, <2>5, ConfigHasParts DEF StaleOf, Part
  <2>6. CASE v = "LIMIT"
    BY <1>1, <2>2, <2>6, ConfigHasParts DEF LimitOf, Part
  <2>7. CASE v = "LIMITS"
    BY <1>1, <2>2, <2>7, ConfigHasParts DEF LimitsOf, Limits, Part
  <2>8. QED
    BY <2>3, <2>4, <2>5, <2>6, <2>7 DEF Vars
<1>12. ASSUME NEW v \in Vars \ KnownLoosening, Held(c, v) PROVE AsTight(v, c, p)
  <2>1. CASE v = "BOUNDS"
    BY <1>5, <1>12, <2>1 DEF AsTight
  <2>2. CASE v = "FLAG"
    BY <1>6, <1>12, <2>2 DEF AsTight
  <2>3. CASE v = "LIMIT"
    BY <1>7, <1>12, <2>3 DEF AsTight
  <2>4. CASE v = "LIMITS"
    BY <1>9, <1>12, <2>4 DEF AsTight
  <2>5. QED
    BY <2>1, <2>2, <2>3, <2>4 DEF Vars, KnownLoosening
<1>13. QED
  BY <1>10, <1>11, <1>12, Zenon DEF NoLooser, p

-----------------------------------------------------------------------------
(* Each request's configuration.                                           *)

\* A request is configured at once from what it read and what it overrides.
ConfigsAgree ==
    \A r \in Requests :
        \/ request[r].config = {}
        \/ /\ request[r].phase = "done"
           /\ request[r].config = OverridableConfig(env, request[r].read.settings, sitesMay,
                                                    request[r].over)

LEMMA ConfigsAgreeStep ==
    SiteTypes /\ ConfigsAgree /\ [SettingsNext]_siteVars => ConfigsAgree'
<1> SUFFICES ASSUME SiteTypes, ConfigsAgree, [SettingsNext]_siteVars PROVE ConfigsAgree'
  OBVIOUS
<1>0. UNCHANGED <<env, sitesMay>>
  BY DEF SettingsNext, Proceeds, Unread, CacheHit, CacheMiss, SiteAnswers, Keeps, Throws,
         SiteChanges, Tick, siteVars
<1> SUFFICES ASSUME NEW x \in Requests, request'[x] # request[x]
             PROVE  \/ request'[x].config = {}
                    \/ /\ request'[x].phase = "done"
                       /\ request'[x].config
                            = OverridableConfig(env, request'[x].read.settings, sitesMay,
                                                request'[x].over)
  BY <1>0 DEF ConfigsAgree
<1>1. request \in [Requests -> Request] /\ request[x] \in Request
  BY DEF SiteTypes
<1>2. PICK r \in Requests : Proceeds(r)
  BY DEF SettingsNext, SiteChanges, Tick, siteVars
<1>3. r = x
  BY <1>1, <1>2 DEF Proceeds, Unread, CacheHit, CacheMiss, SiteAnswers, Keeps, Throws
<1>4. ASSUME NEW s, NEW v, request' = [request EXCEPT ![r] = Configured(r, s, v)]
      PROVE  /\ request'[x].phase = "done"
             /\ request'[x].config
                  = OverridableConfig(env, request'[x].read.settings, sitesMay,
                                      request'[x].over)
  BY <1>1, <1>3, <1>4 DEF Configured, Request
<1>5. CASE Unread(r) \/ CacheHit(r) \/ Keeps(r)
  BY <1>4, <1>5 DEF Unread, CacheHit, Keeps
<1>6. CASE CacheMiss(r) \/ SiteAnswers(r) \/ Throws(r)
  <2>1. request[x].config = {}
    BY <1>3, <1>6 DEF ConfigsAgree, CacheMiss, SiteAnswers, Throws
  <2>2. request'[x].config = request[x].config
    BY <1>1, <1>3, <1>6 DEF CacheMiss, SiteAnswers, Throws, Request
  <2>3. QED
    BY <2>1, <2>2
<1>7. QED
  BY <1>2, <1>5, <1>6 DEF Proceeds

\* However a request combines its overrides, what it may not override stays, and what is
\* restricted ends at least as narrow as without them: bounds, flags, limits, and the limit
\* of each tool that two variables set together (overridableConfig.ts:281-676).  The numbers
\* of stale content are the exception, KnownLoosening.
THEOREM RestrictedStaysTight == SettingsSpec => []RestrictedNeverLoosens
<1>1. SettingsInit => SiteTypes /\ ConfigsAgree
  <2>1. SettingsInit => \A r \in Requests : request[r].config = {}
    BY DEF SettingsInit, Idle
  <2>2. QED
    BY <2>1, TypesInit DEF ConfigsAgree
<1>2. SiteTypes /\ ConfigsAgree /\ [SettingsNext]_siteVars => (SiteTypes /\ ConfigsAgree)'
  BY TypesStep, ConfigsAgreeStep
<1>3. SiteTypes /\ ConfigsAgree => RestrictedNeverLoosens
  <2> SUFFICES ASSUME SiteTypes, ConfigsAgree, NEW r \in Requests,
                      NEW c \in request[r].config
               PROVE  NoLooser(c, Plain(r))
    BY DEF RestrictedNeverLoosens
  <2>1. c \in OverridableConfig(env, request[r].read.settings, sitesMay, request[r].over)
    BY DEF ConfigsAgree
  <2>2. /\ env \in Environments /\ request[r].over \in Overrides
        /\ request[r].read.settings \in Settings
    BY DEF SiteTypes, Request, KeptSettings
  <2>3. /\ WellFormed(env) /\ WellFormed(request[r].over)
        /\ WellFormed(request[r].read.settings)
    BY <2>2, TextsAreWellFormed
  <2>4. QED
    BY <2>1, <2>3, ConfigIsNoLooser DEF Plain
<1>4. QED
  BY <1>1, <1>2, <1>3, PTL DEF SettingsSpec
-----------------------------------------------------------------------------
(* The tools.  A tool runs its script one step at a time; what is known of *)
(* the script before the next step is so in the state (Reached), whichever *)
(* of its calls failed or were survived on the way.                        *)

Session == [scopes : Scopes, live : BOOLEAN]

ToolTypes ==
    /\ call \in Calls
    /\ ctx \in SUBSET Dims
    /\ auth \in AuthModes
    /\ pc \in 1 .. (Len(Scripts[call]) + 1)
    /\ sessions \in Seq(Session)
    /\ settings \in BOOLEAN
    /\ fetched \in BOOLEAN
    /\ item \in Snapshots
    /\ held \in Int /\ missed \in Nat
    /\ outcome \in {"none", "empty", "error"}
    /\ answer \in {"none", "content", "empty", "error"}

\* What is known of a state is so: the sessions ss, the item i, the flag f and
\* the bounds b are as k says.
Holds(k, ss, i, f, b) ==
    /\ Len(ss) = Len(k.open)
    /\ \A n \in 1 .. Len(ss) : ss[n].scopes = k.open[n]
    /\ \A d \in k.known \cap b : i[d]
    /\ ~f => k.looked \cap b = {}

Reached == Holds(Known[call][pc], sessions, item, fetched, ctx)

\* Of the sessions Tableau holds, each is one the call is in, or one it could not sign
\* out of; a bearer token is none.
Accounted == /\ held <= missed + Len(sessions)
             /\ ~Ephemeral => held = 0

\* The inductive invariant of a call: the types, what is known before the next step, what
\* is owed to Tableau, what a call that is leaving its sessions has come to, and how a call
\* that is over ended.
ToolInv ==
    /\ ToolTypes
    /\ Running => Reached
    /\ Accounted
    /\ outcome # "none" => pc <= Len(Scripts[call]) /\ Here.op # "signOut"
    /\ answer # "none" => sessions = << >> /\ answer \in {"content", outcome}
    /\ AnswerIsWithinBounds

\* What ScriptsAssumption says of the script of one call.
LEMMA SoundScript ==
    ASSUME NEW c \in Calls
    PROVE  /\ Len(Scripts[c]) \in Nat
           /\ \A n \in 1 .. (Len(Scripts[c]) + 1) :
                /\ Known[c][n].open \in Seq(Scopes)
                /\ Known[c][n].known \subseteq Dims
                /\ Known[c][n].looked \subseteq Dims
           /\ Known[c][1] = Start
           /\ \A n \in 1 .. Len(Scripts[c]) :
                /\ Runnable(Scripts[c][n], Known[c][n])
                /\ Covers(After(Scripts[c][n], Known[c][n]), Known[c][n + 1])
                /\ Passable(Scripts[c][n]) =>
                     /\ Beyond(Scripts[c], n) <= Len(Scripts[c]) + 1
                     /\ Covers(Without(Scripts[c][n], Known[c][n]),
                               Known[c][Beyond(Scripts[c], n)])
           /\ Known[c][Len(Scripts[c]) + 1].open = << >>
           /\ BoundsOf(c[2]) \ KnownGap(c) \subseteq Known[c][Len(Scripts[c]) + 1].known
BY ScriptsAssumption DEF Sound

\* Where more is known, less is known too.
LEMMA HoldsCovered ==
    ASSUME NEW k, NEW j, NEW ss, NEW i, NEW f, NEW b,
           Covers(k, j), Holds(k, ss, i, f, b)
    PROVE  Holds(j, ss, i, f, b)
BY DEF Covers, Holds

\* A step of the script is to be taken.
Ready == Running /\ pc <= Len(Scripts[call])

\* The step that is next is one of the script, and can be taken.
LEMMA ReadyStep ==
    ASSUME ToolTypes, Ready
    PROVE  /\ pc \in 1 .. Len(Scripts[call])
           /\ Len(Scripts[call]) \in Nat
           /\ Known[call][pc].open \in Seq(Scopes)
           /\ Known[call][pc].known \subseteq Dims
           /\ Known[call][pc].looked \subseteq Dims
           /\ Runnable(Here, Known[call][pc])
BY SoundScript DEF ToolTypes, Ready, Here

\* A step that went well leaves what the next step starts from.
LEMMA Onward ==
    ASSUME ToolTypes, Ready, Goto(pc + 1), UNCHANGED asked,
           Holds(After(Here, Known[call][pc]), sessions', item', fetched', ctx)
    PROVE  Reached' /\ pc' \in 1 .. (Len(Scripts[call]) + 1)
<1>1. pc \in 1 .. Len(Scripts[call]) /\ Len(Scripts[call]) \in Nat
  BY ReadyStep
<1>2. Covers(After(Here, Known[call][pc]), Known[call][pc + 1])
  BY <1>1, SoundScript DEF ToolTypes, Here
<1>3. Holds(Known[call][pc + 1], sessions', item', fetched', ctx)
  BY <1>2, HoldsCovered
<1>4. QED
  BY <1>1, <1>3 DEF Reached, Goto, asked

\* So does one whose failure the tool survives, or which finds that nothing is there, at
\* the step it goes on with.
LEMMA Around ==
    ASSUME ToolTypes, Ready, Passable(Here), Goto(pc + 1 + Here.skip), UNCHANGED asked,
           Holds(Without(Here, Known[call][pc]), sessions', item', fetched', ctx)
    PROVE  Reached' /\ pc' \in 1 .. (Len(Scripts[call]) + 1)
<1>1. pc \in 1 .. Len(Scripts[call]) /\ Len(Scripts[call]) \in Nat /\ Here.skip \in Nat
  BY ReadyStep DEF Runnable
<1>2. /\ Beyond(Scripts[call], pc) <= Len(Scripts[call]) + 1
      /\ Covers(Without(Here, Known[call][pc]), Known[call][Beyond(Scripts[call], pc)])
  BY <1>1, SoundScript DEF ToolTypes, Here
<1>3. Beyond(Scripts[call], pc) = pc'
  BY DEF Beyond, Goto, Here
<1>4. Holds(Known[call][pc'], sessions', item', fetched', ctx)
  BY <1>2, <1>3, HoldsCovered
<1>5. pc' \in 1 .. (Len(Scripts[call]) + 1)
  BY <1>1, <1>2, <1>3 DEF Goto
<1>6. QED
  BY <1>4, <1>5 DEF Reached, asked

\* What is owed is accounted for.
Owed == held \in Int /\ missed \in Nat /\ Accounted

\* A step that leaves the sessions open leaves what is owed, also where it opens and ends one
\* of its own, whose sign-out may fail.
LEMMA OwedStill ==
    ASSUME ToolInv, sessions' \in Seq(Session), Len(sessions') = Len(sessions),
           UNCHANGED auth, UNCHANGED teardown \/ \E m, sc : Aside(m, sc)
    PROVE  Owed'
<1>1. /\ held \in Int /\ missed \in Nat /\ held <= missed + Len(sessions)
      /\ Len(sessions) \in Nat /\ ~Ephemeral => held = 0
  BY DEF ToolInv, ToolTypes, Accounted
<1>2. \/ held' = held /\ missed' = missed
      \/ Ephemeral /\ held' \in {0, held} /\ missed' = missed
      \/ Ephemeral /\ held' \in {1, held + 1} /\ missed' = missed + 1
  BY DEF teardown, Aside, Prior
<1>3. Ephemeral' = Ephemeral
  BY DEF Ephemeral
<1>4. QED
  BY <1>1, <1>2, <1>3 DEF Owed, Accounted

\* What a session is added to, and one is taken from.
LEMMA Appended ==
    ASSUME NEW S, NEW s \in Seq(S), NEW x \in S
    PROVE  /\ Append(s, x) \in Seq(S)
           /\ Len(Append(s, x)) = Len(s) + 1
           /\ Append(s, x)[Len(s) + 1] = x
           /\ \A n \in 1 .. Len(s) : Append(s, x)[n] = s[n]
OBVIOUS

LEMMA Shortened ==
    ASSUME NEW S, NEW s \in Seq(S), s # << >>
    PROVE  /\ SubSeq(s, 1, Len(s) - 1) \in Seq(S)
           /\ Len(SubSeq(s, 1, Len(s) - 1)) = Len(s) - 1
           /\ \A n \in 1 .. (Len(s) - 1) : SubSeq(s, 1, Len(s) - 1)[n] = s[n]
<1>1. Len(s) \in Nat \ {0}
  OBVIOUS
<1>2. SubSeq(s, 1, Len(s) - 1) = [n \in 1 .. (Len(s) - 1) |-> s[n]]
  BY <1>1
<1>3. \A n \in 1 .. (Len(s) - 1) : s[n] \in S
  BY <1>1
<1> DEFINE b == [n \in 1 .. (Len(s) - 1) |-> s[n]]
<1>4. b \in Seq(S) /\ Len(b) = Len(s) - 1 /\ \A n \in 1 .. (Len(s) - 1) : b[n] = s[n]
  BY <1>1, <1>3
<1> HIDE DEF b
<1>5. QED
  BY <1>2, <1>4 DEF b

\* What is owed when one session fewer is open.
LEMMA OneFewer ==
    ASSUME NEW h \in Int, NEW m \in Nat, NEW l \in Nat \ {0}, h <= m + l, NEW g, NEW n,
           \/ g = h - 1 /\ n = m
           \/ g = h /\ n = m + 1
           \/ h = 0 /\ g = 0 /\ n = m
    PROVE  g \in Int /\ n \in Nat /\ g <= n + (l - 1)
OBVIOUS

\* A tool that ends, and is still to leave the sessions it is in, keeps the invariant.
LEMMA Ends ==
    ASSUME ToolInv, Ready, Here.op # "signOut", NEW a \in {"empty", "error"}, End(a),
           UNCHANGED teardown \/ \E m, sc : Aside(m, sc)
    PROVE  ToolInv'
<1>1. /\ UNCHANGED <<call, ctx, auth, pc, sessions, settings, item, fetched, answer>>
      /\ outcome' = a
  BY DEF End, asked
<1>2. Owed'
  BY <1>1, OwedStill DEF ToolInv, ToolTypes
<1>3. ToolTypes'
  BY <1>1, <1>2 DEF ToolInv, ToolTypes, Owed
<1>4. pc <= Len(Scripts[call]) /\ Here' = Here /\ answer' = "none" /\ ~Running'
  BY <1>1 DEF Ready, Running, Here
<1>5. QED
  BY <1>1, <1>2, <1>3, <1>4 DEF ToolInv, Owed, AnswerIsWithinBounds

\* ... and so does one that goes on.
LEMMA GoesOn ==
    ASSUME ToolInv, Ready, UNCHANGED <<asked, ends>>, Reached', Owed',
           pc' \in 1 .. (Len(Scripts[call]) + 1),
           sessions' \in Seq(Session), settings' \in BOOLEAN, fetched' \in BOOLEAN,
           item' \in Snapshots
    PROVE  ToolInv'
<1>1. outcome' = "none" /\ answer' = "none" /\ UNCHANGED <<call, ctx, auth>>
  BY DEF Ready, Running, ends, asked
<1>2. QED
  BY <1>1 DEF ToolInv, ToolTypes, Owed, AnswerIsWithinBounds

\* A call that fails ends the tool, or is survived.
LEMMA Fails ==
    ASSUME ToolInv, Ready, Here.op \notin {"under", "signOut"}, Failed, UNCHANGED teardown
    PROVE  ToolInv'
<1>1. CASE Here.must
  BY <1>1, Ends DEF Failed
<1>2. CASE ~Here.must
  <2>1. UNCHANGED <<asked, sessions, settings, item, fetched, ends>>
    BY <1>2 DEF Failed
  <2>2. Without(Here, Known[call][pc]) = Known[call][pc]
    BY DEF Without
  <2>3. Holds(Without(Here, Known[call][pc]), sessions', item', fetched', ctx)
    BY <2>1, <2>2 DEF ToolInv, Ready, Reached
  <2>4. Reached' /\ pc' \in 1 .. (Len(Scripts[call]) + 1)
    BY <1>2, <2>1, <2>3, Around DEF Failed, ToolInv, Passable
  <2>5. Owed'
    BY <2>1, OwedStill DEF ToolInv, ToolTypes, asked
  <2>6. QED
    BY <2>1, <2>4, <2>5, GoesOn DEF ToolInv, ToolTypes
<1>3. QED
  BY <1>1, <1>2

\* A step after which the same is known as before.
Neutral == {"config", "arg", "lookUp", "admin", "call", "may", "find"}

LEMMA NeutralAfter ==
    ASSUME NEW s, NEW k, s.op \in Neutral \cup {"under"}, NEW ss, NEW i, NEW f, NEW b,
           Holds(k, ss, i, f, b)
    PROVE  Holds(After(s, k), ss, i, f, b)
BY DEF Neutral, After, OpenAfter, KnownAfter, Holds

\* Signing in again with a personal access token ends the sessions open, and keeps them
\* where they are and with the scopes they have (restApiInstance.ts:82-127).
LEMMA EndedHolds ==
    ASSUME NEW k, NEW i, NEW f, NEW b, sessions \in Seq(Session),
           Holds(k, sessions, i, f, b)
    PROVE  Holds(k, Ended, i, f, b) /\ Ended \in Seq(Session) /\ Len(Ended) = Len(sessions)
<1>1. CASE auth = "pat"
  <2>1. Ended = [n \in 1 .. Len(sessions) |-> [sessions[n] EXCEPT !.live = FALSE]]
    BY <1>1 DEF Ended
  <2>2. ASSUME NEW n \in 1 .. Len(sessions)
        PROVE  /\ [sessions[n] EXCEPT !.live = FALSE] \in Session
               /\ [sessions[n] EXCEPT !.live = FALSE].scopes = sessions[n].scopes
    <3>1. sessions[n] \in Session
      OBVIOUS
    <3>2. QED
      BY <3>1 DEF Session
  <2>3. Ended \in Seq(Session) /\ Len(Ended) = Len(sessions)
    BY <2>1, <2>2
  <2>4. QED
    BY <2>1, <2>2, <2>3 DEF Holds
<1>2. CASE auth # "pat"
  BY <1>2 DEF Ended
<1>3. QED
  BY <1>1, <1>2

\* One lemma for each kind of step.
LEMMA SignInKeeps == ToolInv /\ SignInStep => ToolInv'
<1> SUFFICES ASSUME ToolInv, SignInStep PROVE ToolInv'
  OBVIOUS
<1> DEFINE k == Known[call][pc]
<1>1. Ready /\ Here.op = "signIn" /\ ToolTypes /\ Reached
  BY DEF SignInStep, At, Ready, ToolInv
<1>2. CASE Failed /\ UNCHANGED teardown
  BY <1>1, <1>2, Fails
<1>3. CASE /\ sessions' = Append(Ended, [scopes |-> Here.arg, live |-> TRUE])
           /\ held' = IF Ephemeral THEN Prior + 1 ELSE held
           /\ Goto(pc + 1)
           /\ UNCHANGED <<asked, settings, item, fetched, missed, ends>>
  <2> DEFINE s == [scopes |-> Here.arg, live |-> TRUE]
  <2>1. /\ Holds(k, Ended, item, fetched, ctx) /\ Ended \in Seq(Session)
        /\ Len(Ended) = Len(sessions)
    BY <1>1, EndedHolds DEF Reached, ToolTypes
  <2>2. k.open \in Seq(Scopes) /\ Here.arg \in Scopes /\ s \in Session
    BY <1>1, ReadyStep DEF Runnable, Session
  <2>3. sessions' \in Seq(Session) /\ Len(sessions') = Len(Ended) + 1
    BY <1>3, <2>1, <2>2
  <2>4. /\ After(Here, k).open = Append(k.open, Here.arg)
        /\ After(Here, k).known = k.known
        /\ After(Here, k).looked = k.looked
    BY <1>1 DEF After, OpenAfter, KnownAfter
  <2>5. Len(After(Here, k).open) = Len(sessions')
    <3>1. Len(Append(k.open, Here.arg)) = Len(k.open) + 1
      BY <2>2, Appended
    <3>2. QED
      BY <2>1, <2>3, <2>4, <3>1 DEF Holds
  <2>6. ASSUME NEW n \in 1 .. Len(sessions') PROVE sessions'[n].scopes = After(Here, k).open[n]
    <3>1. Len(Ended) = Len(k.open) /\ Len(Ended) \in Nat
      BY <2>1 DEF Holds
    <3>2. CASE n = Len(Ended) + 1
      <4>1. sessions'[n] = s
        BY <1>3, <2>1, <2>2, <3>2, Appended
      <4>2. After(Here, k).open[n] = Here.arg
        BY <2>2, <2>4, <3>1, <3>2, Appended
      <4>3. QED
        BY <4>1, <4>2
    <3>3. CASE n \in 1 .. Len(Ended)
      <4>1. sessions'[n] = Ended[n]
        BY <1>3, <2>1, <2>2, <3>3, Appended
      <4>2. After(Here, k).open[n] = k.open[n]
        BY <2>2, <2>4, <3>1, <3>3, Appended
      <4>3. QED
        BY <2>1, <3>3, <4>1, <4>2 DEF Holds
    <3>4. n \in 1 .. (Len(Ended) + 1)
      BY <2>3, <2>6
    <3>5. n = Len(Ended) + 1 \/ n \in 1 .. Len(Ended)
      BY <3>1, <3>4
    <3>6. QED
      BY <3>2, <3>3, <3>5
  <2>7. Holds(After(Here, k), sessions', item', fetched', ctx)
    BY <1>3, <2>1, <2>4, <2>5, <2>6 DEF Holds
  <2>8. Owed'
    <3>1. /\ held \in Int /\ missed \in Nat /\ held <= missed + Len(sessions)
          /\ Len(sessions) \in Nat /\ ~Ephemeral => held = 0
      BY DEF ToolInv, ToolTypes, Accounted
    <3>2. /\ IF Ephemeral THEN held' \in {1, held + 1} ELSE held' = held
          /\ missed' = missed /\ Len(sessions') = Len(sessions) + 1
      BY <1>3, <2>1, <2>3 DEF Prior
    <3>3. Ephemeral' = Ephemeral
      BY <1>3 DEF Ephemeral, asked
    <3>4. QED
      BY <3>1, <3>2, <3>3 DEF Owed, Accounted
  <2>9. QED
    BY <1>1, <1>3, <2>3, <2>7, <2>8, Onward, GoesOn DEF ToolTypes
<1>4. QED
  BY <1>2, <1>3 DEF SignInStep

\* The finally of the innermost session: what is owed is accounted for, whether or not its
\* sign-out fails.
LEMMA LeavingOne ==
    ASSUME ToolInv, sessions # << >>, LeaveSession, UNCHANGED auth
    PROVE  /\ sessions' \in Seq(Session)
           /\ Len(sessions') = Len(sessions) - 1
           /\ \A n \in 1 .. Len(sessions') : sessions'[n] = sessions[n]
           /\ Owed'
<1>1. sessions \in Seq(Session) /\ Len(sessions) \in Nat \ {0}
  BY DEF ToolInv, ToolTypes
<1>2. sessions' = SubSeq(sessions, 1, Len(sessions) - 1)
  BY DEF LeaveSession
<1>3. /\ held \in Int /\ missed \in Nat /\ held <= missed + Len(sessions)
      /\ ~Ephemeral => held = 0
  BY DEF ToolInv, ToolTypes, Accounted
<1>4. /\ sessions' \in Seq(Session)
      /\ Len(sessions') = Len(sessions) - 1
      /\ \A n \in 1 .. Len(sessions') : sessions'[n] = sessions[n]
  BY <1>1, <1>2, Shortened
<1>5. CASE Ephemeral
  <2>1. \/ held' = held - 1 /\ missed' = missed
        \/ held' = held /\ missed' = missed + 1
    BY <1>5 DEF LeaveSession
  <2>2. held' \in Int /\ missed' \in Nat /\ held' <= missed' + (Len(sessions) - 1)
    BY <1>1, <1>3, <2>1, OneFewer
  <2>3. QED
    BY <1>4, <1>5, <2>2 DEF Owed, Accounted, Ephemeral
<1>6. CASE ~Ephemeral
  <2>1. held = 0
    BY <1>3, <1>6, Zenon
  <2>2. UNCHANGED teardown
    BY <1>6, Zenon DEF LeaveSession
  <2>3. held = 0 /\ held' = 0 /\ missed' = missed
    BY <2>1, <2>2 DEF teardown
  <2>4. held' \in Int /\ missed' \in Nat /\ held' <= missed' + (Len(sessions) - 1)
    BY <1>1, <1>3, <2>3, OneFewer
  <2>5. QED
    BY <1>4, <2>3, <2>4 DEF Owed, Accounted
<1>7. QED
  BY <1>5, <1>6

LEMMA SignOutKeeps == ToolInv /\ SignOutStep => ToolInv'
<1> SUFFICES ASSUME ToolInv, SignOutStep PROVE ToolInv'
  OBVIOUS
<1> DEFINE k == Known[call][pc]
<1>1. Ready /\ Here.op = "signOut" /\ ToolTypes /\ Reached
  BY DEF SignOutStep, At, Ready, ToolInv
<1>2. k.open \in Seq(Scopes) /\ k.open # << >>
  BY <1>1, ReadyStep DEF Runnable
<1>3. sessions \in Seq(Session) /\ Len(sessions) = Len(k.open) /\ Len(sessions) \in Nat \ {0}
  BY <1>1, <1>2 DEF ToolTypes, Reached, Holds
<1>4. /\ sessions' \in Seq(Session)
      /\ Len(sessions') = Len(sessions) - 1
      /\ \A n \in 1 .. Len(sessions') : sessions'[n] = sessions[n]
      /\ Owed'
  BY <1>3, LeavingOne DEF SignOutStep, asked
<1>5. /\ After(Here, k).open = SubSeq(k.open, 1, Len(k.open) - 1)
      /\ After(Here, k).known = k.known
      /\ After(Here, k).looked = k.looked
  BY <1>1 DEF After, OpenAfter, KnownAfter
<1>6. /\ Len(After(Here, k).open) = Len(sessions')
      /\ \A n \in 1 .. Len(sessions') : After(Here, k).open[n] = k.open[n]
  BY <1>2, <1>3, <1>4, <1>5
<1>7. \A n \in 1 .. Len(sessions') : sessions[n].scopes = k.open[n]
  BY <1>1, <1>3, <1>4 DEF Reached, Holds
<1>8. UNCHANGED <<item, fetched>>
  BY DEF SignOutStep
<1>9. Holds(After(Here, k), sessions', item', fetched', ctx)
  BY <1>1, <1>4, <1>5, <1>6, <1>7, <1>8 DEF Reached, Holds
<1>10. QED
  BY <1>1, <1>4, <1>9, Onward, GoesOn DEF SignOutStep, ToolTypes

\* A call that has ended leaves one more of its sessions.
LEMMA UnwindKeeps == ToolInv /\ Unwind => ToolInv'
<1> SUFFICES ASSUME ToolInv, Unwind PROVE ToolInv'
  OBVIOUS
<1>1. /\ UNCHANGED <<call, ctx, auth, pc, settings, item, fetched, outcome, answer>>
      /\ outcome # "none" /\ sessions # << >> /\ LeaveSession
  BY DEF Unwind, asked, ends
<1>2. sessions' \in Seq(Session) /\ Owed'
  BY <1>1, LeavingOne
<1>3. answer = "none" /\ ~Running' /\ Here' = Here
  BY <1>1 DEF ToolInv, Running, Here
<1>4. ToolTypes'
  BY <1>1, <1>2 DEF ToolInv, ToolTypes, Owed
<1>5. QED
  BY <1>1, <1>2, <1>3, <1>4 DEF ToolInv, Owed, AnswerIsWithinBounds

LEMMA ReadKeeps == ToolInv /\ ReadSettings => ToolInv'
<1> SUFFICES ASSUME ToolInv, ReadSettings PROVE ToolInv'
  OBVIOUS
<1>1. Ready /\ ToolTypes /\ Reached /\ Here.op # "signOut"
  BY DEF ReadSettings, At, Ready, ToolInv
<1>2. UNCHANGED teardown \/ \E m, sc : Aside(m, sc)
  BY DEF ReadSettings, Silent
<1>3. CASE End("error")
  BY <1>1, <1>2, <1>3, Ends
<1>4. CASE /\ settings' = TRUE /\ (UNCHANGED sessions \/ sessions' = Ended)
           /\ UNCHANGED <<asked, pc, item, fetched, ends>>
  <2>1. /\ Holds(Known[call][pc], sessions', item, fetched, ctx)
        /\ sessions' \in Seq(Session) /\ Len(sessions') = Len(sessions)
    BY <1>1, <1>4, EndedHolds DEF Reached, ToolTypes
  <2>2. Reached'
    BY <1>4, <2>1 DEF Reached, asked
  <2>3. Owed'
    BY <1>2, <1>4, <2>1, OwedStill DEF asked
  <2>4. QED
    BY <1>1, <1>4, <2>1, <2>2, <2>3, GoesOn DEF ToolTypes
<1>5. QED
  BY <1>3, <1>4 DEF ReadSettings

\* A step that goes on, and leaves the sessions open and what is known of the content to be
\* so.
LEMMA StepKeeps ==
    ASSUME ToolInv, Ready, Goto(pc + 1), UNCHANGED <<asked, ends>>,
           sessions' \in Seq(Session), Len(sessions') = Len(sessions),
           UNCHANGED teardown \/ \E m, sc : Aside(m, sc),
           settings' \in BOOLEAN, fetched' \in BOOLEAN, item' \in Snapshots,
           Holds(After(Here, Known[call][pc]), sessions', item', fetched', ctx)
    PROVE  ToolInv'
<1>1. Reached' /\ pc' \in 1 .. (Len(Scripts[call]) + 1)
  BY Onward DEF ToolInv
<1>2. Owed'
  BY OwedStill DEF asked
<1>3. QED
  BY <1>1, <1>2, GoesOn

\* A step that goes on and leaves what is known as it is.
LEMMA NeutralKeeps ==
    ASSUME ToolInv, Ready, Here.op \in Neutral, Goto(pc + 1),
           sessions' \in {sessions, Ended},
           UNCHANGED teardown \/ \E m, sc : Aside(m, sc),
           UNCHANGED <<asked, settings, item, fetched, ends>>
    PROVE  ToolInv'
<1>1. /\ Holds(Known[call][pc], sessions', item', fetched', ctx)
      /\ sessions' \in Seq(Session) /\ Len(sessions') = Len(sessions)
  BY EndedHolds DEF Reached, ToolInv, ToolTypes, Ready
<1>2. Holds(After(Here, Known[call][pc]), sessions', item', fetched', ctx)
  BY <1>1, NeutralAfter
<1>3. QED
  BY <1>1, <1>2, StepKeeps DEF ToolInv, ToolTypes

LEMMA ConfigKeeps == ToolInv /\ ConfigStep => ToolInv'
BY NeutralKeeps DEF ConfigStep, At, Ready, Neutral

LEMMA LookUpKeeps == ToolInv /\ LookUpStep => ToolInv'
<1> SUFFICES ASSUME ToolInv, LookUpStep PROVE ToolInv'
  OBVIOUS
<1>1. Ready /\ Here.op \in Neutral /\ Here.op # "signOut"
  BY DEF LookUpStep, At, Ready, Neutral
<1>2. UNCHANGED teardown \/ \E m, sc : Aside(m, sc)
  BY DEF LookUpStep
<1>3. \/ End("error")
      \/ /\ Goto(pc + 1) /\ sessions' \in {sessions, Ended}
         /\ UNCHANGED <<asked, settings, item, fetched, ends>>
  BY DEF LookUpStep
<1>4. QED
  BY <1>1, <1>2, <1>3, Ends, NeutralKeeps

LEMMA CallKeeps == ToolInv /\ (CallStep \/ SpareStep \/ AdminStep) => ToolInv'
<1> SUFFICES ASSUME ToolInv, CallStep \/ SpareStep \/ AdminStep PROVE ToolInv'
  OBVIOUS
<1>1. Ready /\ Here.op \in Neutral /\ Here.op \notin {"under", "signOut"}
  BY DEF CallStep, SpareStep, AdminStep, At, Ready, Neutral
<1>2. UNCHANGED teardown /\ (Failed \/ (Next1 /\ item' = item))
  <2>1. CallStep => UNCHANGED teardown /\ (Failed \/ (Next1 /\ item' = item))
    BY DEF CallStep, Calling
  <2>2. AdminStep => UNCHANGED teardown /\ (Failed \/ (Next1 /\ item' = item))
    BY DEF AdminStep, Calling
  <2>3. SpareStep => UNCHANGED teardown /\ Next1 /\ item' = item
    BY DEF SpareStep
  <2>4. QED
    BY <2>1, <2>2, <2>3
<1>3. QED
  BY <1>1, <1>2, Fails, NeutralKeeps DEF Next1

\* What is not there leaves what is known as it is, further on.
LEMMA FindKeeps == ToolInv /\ FindStep => ToolInv'
<1> SUFFICES ASSUME ToolInv, FindStep PROVE ToolInv'
  OBVIOUS
<1> DEFINE k == Known[call][pc]
<1>1. Ready /\ Here.op = "find" /\ UNCHANGED teardown
  BY DEF FindStep, At, Ready, Calling
<1>2. CASE Failed
  BY <1>1, <1>2, Fails
<1>3. CASE Next1 /\ UNCHANGED item
  BY <1>1, <1>3, NeutralKeeps DEF Next1, Neutral
<1>4. CASE NotThere /\ UNCHANGED item
  <2>1. /\ UNCHANGED <<asked, sessions, settings, item, fetched, ends>>
        /\ Goto(pc + 1 + Here.skip)
    BY <1>4 DEF NotThere
  <2>2. Without(Here, k) = k
    BY <1>1 DEF Without
  <2>3. Holds(Without(Here, k), sessions', item', fetched', ctx)
    BY <1>1, <2>1, <2>2 DEF ToolInv, Ready, Reached
  <2>4. Reached' /\ pc' \in 1 .. (Len(Scripts[call]) + 1)
    BY <1>1, <2>1, <2>3, Around DEF ToolInv, Passable
  <2>5. Owed'
    BY <1>1, <2>1, OwedStill DEF ToolInv, ToolTypes, asked
  <2>6. QED
    BY <1>1, <2>1, <2>4, <2>5, GoesOn DEF ToolInv, ToolTypes
<1>5. QED
  BY <1>2, <1>3, <1>4 DEF FindStep

LEMMA ArgKeeps == ToolInv /\ ArgStep => ToolInv'
<1> SUFFICES ASSUME ToolInv, ArgStep PROVE ToolInv'
  OBVIOUS
<1>1. Ready /\ Here.op \in Neutral /\ Here.op # "signOut" /\ UNCHANGED teardown
  BY DEF ArgStep, At, Ready, Neutral, Silent
<1>2. QED
  BY <1>1, Ends, NeutralKeeps DEF ArgStep, Next1

LEMMA CheckKeeps == ToolInv /\ CheckStep => ToolInv'
<1> SUFFICES ASSUME ToolInv, CheckStep PROVE ToolInv'
  OBVIOUS
<1> DEFINE k == Known[call][pc]
           c == CheckOf(Here.arg)
<1>1. Ready /\ Here.op = "check" /\ ToolTypes /\ Reached
  BY DEF CheckStep, At, Ready, ToolInv
<1>2. c.ids \subseteq Dims \ Moving /\ Moving \subseteq c.fetch
  <2>1. Here.arg \in Kinds
    BY <1>1, ReadyStep DEF Runnable
  <2>2. QED
    BY <2>1 DEF Kinds, CheckOf, DatasourceCheck, WorkbookCheck, FlowCheck, ViewCheck,
                Dims, Moving
<1>3. /\ After(Here, k).open = k.open
      /\ After(Here, k).known = k.known \cup c.ids \cup c.fetch
      /\ After(Here, k).looked = k.looked \cup c.fetch
  BY <1>1 DEF After, OpenAfter, KnownAfter
<1>4. ctx \subseteq Dims /\ item \in Snapshots
  BY <1>1 DEF ToolTypes
<1>5. UNCHANGED teardown \/ \E m, sc : Aside(m, sc)
  BY DEF CheckStep, Silent
<1>6. CASE End("error")
  BY <1>1, <1>5, <1>6, Ends
<1>7. CASE /\ Allowed(item, c.ids) /\ c.fetch \cap ctx = {}
           /\ Goto(pc + 1)
           /\ UNCHANGED <<asked, sessions, settings, item, fetched, last, teardown, ends>>
  <2>1. Holds(After(Here, k), sessions', item', fetched', ctx)
    BY <1>1, <1>3, <1>7 DEF Reached, Holds, Allowed
  <2>2. QED
    BY <1>1, <1>7, <2>1, StepKeeps DEF ToolTypes
<1>8. CASE /\ Allowed(item, c.ids)
           /\ \E s \in Afresh(item) : Allowed(s, c.fetch) /\ item' = s /\ fetched' = TRUE
           /\ sessions' = Ended
           /\ Goto(pc + 1)
           /\ UNCHANGED <<asked, settings, ends>>
  <2>1. item' \in Snapshots /\ Allowed(item', c.fetch) /\ fetched' = TRUE
    BY <1>8 DEF Afresh
  <2>2. \A d \in Dims \ Moving : item'[d] = item[d]
    BY <1>8 DEF Afresh, Moving
  <2>3. /\ Holds(k, sessions', item, fetched, ctx) /\ sessions' \in Seq(Session)
        /\ Len(sessions') = Len(sessions)
    BY <1>1, <1>8, EndedHolds DEF Reached, ToolTypes
  <2>4. ASSUME NEW d \in (k.known \cup c.ids \cup c.fetch) \cap ctx PROVE item'[d]
    <3>1. CASE d \in c.fetch
      BY <2>1, <2>4, <3>1 DEF Allowed
    <3>2. CASE d \notin c.fetch
      <4>1. d \in Dims \ Moving
        BY <1>2, <1>4, <2>4, <3>2
      <4>2. item[d]
        BY <1>8, <2>3, <2>4, <3>2 DEF Allowed, Holds
      <4>3. QED
        BY <2>2, <4>1, <4>2
    <3>3. QED
      BY <3>1, <3>2
  <2>5. Holds(After(Here, k), sessions', item', fetched', ctx)
    BY <1>3, <2>1, <2>3, <2>4 DEF Holds
  <2>6. QED
    BY <1>1, <1>8, <1>5, <2>1, <2>3, <2>5, StepKeeps DEF ToolTypes
<1>9. QED
  BY <1>6, <1>7, <1>8 DEF CheckStep

LEMMA KeptKeeps == ToolInv /\ KeptStep => ToolInv'
<1> SUFFICES ASSUME ToolInv, KeptStep PROVE ToolInv'
  OBVIOUS
<1> DEFINE k == Known[call][pc]
<1>1. /\ Ready /\ Here.op = "kept" /\ ToolTypes /\ Reached
      /\ UNCHANGED teardown
  BY DEF KeptStep, At, Ready, ToolInv, Calling
<1>2. /\ After(Here, k).open = k.open
      /\ After(Here, k).known = k.known \cap (k.looked \cup (Dims \ Moving))
      /\ After(Here, k).looked = k.looked
  BY <1>1 DEF After, OpenAfter, KnownAfter
<1>3. CASE Failed
  BY <1>1, <1>3, Fails
<1>4. CASE fetched /\ Next1 /\ item' = item
  <2>1. Holds(After(Here, k), sessions', item', fetched', ctx)
    BY <1>1, <1>2, <1>4 DEF Reached, Holds, Next1
  <2>2. QED
    BY <1>1, <1>4, <2>1, StepKeeps DEF ToolTypes, Next1
<1>5. CASE ~fetched /\ Next1 /\ item' \in Afresh(item)
  <2>1. item' \in Snapshots /\ \A d \in Dims \ Moving : item'[d] = item[d]
    BY <1>5 DEF Afresh, Moving
  <2>2. ASSUME NEW d \in (k.known \cap (k.looked \cup (Dims \ Moving))) \cap ctx PROVE item'[d]
    <3>1. d \in Dims \ Moving /\ d \in k.known \cap ctx
      BY <1>1, <1>5, <2>2 DEF Reached, Holds
    <3>2. QED
      BY <1>1, <2>1, <3>1 DEF Reached, Holds
  <2>3. Holds(After(Here, k), sessions', item', fetched', ctx)
    BY <1>1, <1>2, <1>5, <2>2 DEF Reached, Holds, Next1
  <2>4. QED
    BY <1>1, <1>5, <2>1, <2>3, StepKeeps DEF ToolTypes, Next1
<1>6. QED
  BY <1>3, <1>4, <1>5 DEF KeptStep

LEMMA ListKeeps == ToolInv /\ ListStep => ToolInv'
<1> SUFFICES ASSUME ToolInv, ListStep PROVE ToolInv'
  OBVIOUS
<1> DEFINE k == Known[call][pc]
<1>1. /\ Ready /\ Here.op \in {"list", "listOf"} /\ ToolTypes /\ Reached
      /\ UNCHANGED teardown
  BY DEF ListStep, At, Ready, ToolInv, Calling
<1>2. CASE Failed
  BY <1>1, <1>2, Fails
<1>3. CASE Next1 /\ item' \in Listed(Here.op)
  <2>1. item' \in Snapshots
    BY <1>3 DEF Listed
  <2>2. /\ After(Here, k).open = k.open
        /\ After(Here, k).known = IF Here.op = "list" THEN {} ELSE k.known \ {"view", "tag"}
        /\ After(Here, k).looked = k.looked
    BY <1>1 DEF After, OpenAfter, KnownAfter
  <2>3. ASSUME NEW d \in After(Here, k).known \cap ctx PROVE item'[d]
    <3>1. Here.op = "listOf" /\ d \in Dims \ {"view", "tag"} /\ d \in k.known \cap ctx
      BY <1>1, <2>2, <2>3 DEF ToolTypes
    <3>2. item'[d] = item[d]
      BY <1>3, <3>1 DEF Listed
    <3>3. QED
      BY <1>1, <3>1, <3>2 DEF Reached, Holds
  <2>4. Holds(After(Here, k), sessions', item', fetched', ctx)
    BY <1>1, <1>3, <2>2, <2>3 DEF Reached, Holds, Next1
  <2>5. QED
    BY <1>1, <1>3, <2>1, <2>4, StepKeeps DEF ToolTypes, Next1
<1>4. QED
  BY <1>2, <1>3 DEF ListStep

\* The content is found to be within the bounds, or none of them is set.
LEMMA FoundWithin ==
    ASSUME ToolInv, Ready, Here.op \in {"within", "filter", "refuse"},
           Allowed(item, Here.arg) \/ Here.arg \cap ctx = {},
           Next1, UNCHANGED item, UNCHANGED teardown
    PROVE  ToolInv'
<1> DEFINE k == Known[call][pc]
<1>1. ToolTypes /\ Reached
  BY DEF ToolInv, Ready
<1>2. /\ After(Here, k).open = k.open
      /\ After(Here, k).known = k.known \cup Here.arg
      /\ After(Here, k).looked = k.looked
  BY DEF After, OpenAfter, KnownAfter
<1>3. Holds(After(Here, k), sessions', item', fetched', ctx)
  BY <1>1, <1>2 DEF Reached, Holds, Allowed, Next1
<1>4. QED
  BY <1>1, <1>3, StepKeeps DEF ToolTypes, Next1

\* The answer is given with no session left, and from a script that is through only with
\* what its end is known to have.
LEMMA AnswerKeeps == ToolInv /\ AnswerStep => ToolInv'
<1> SUFFICES ASSUME ToolInv, AnswerStep PROVE ToolInv'
  OBVIOUS
<1> DEFINE k == Known[call][pc]
<1>1. /\ UNCHANGED <<call, ctx, auth, pc, sessions, settings, item, fetched, held, missed,
                     outcome>>
      /\ answer = "none"
  BY DEF AnswerStep, asked, teardown
<1>2. ToolTypes /\ Accounted /\ Accounted'
  BY <1>1 DEF ToolInv, Accounted, Ephemeral
<1>3. CASE outcome = "none" /\ pc > Len(Scripts[call]) /\ answer' = "content"
  <2>1. Reached
    BY <1>1, <1>3 DEF ToolInv, Running
  <2>2. pc = Len(Scripts[call]) + 1
    BY <1>2, <1>3, SoundScript DEF ToolTypes
  <2>3. k.open = << >> /\ BoundsOf(call[2]) \ KnownGap(call) \subseteq k.known
    BY <1>2, <2>2, SoundScript DEF ToolTypes
  <2>4. sessions = << >>
    BY <1>2, <2>1, <2>3 DEF ToolTypes, Reached, Holds
  <2>5. Allowed(item, BoundsOf(call[2]) \ KnownGap(call))
    BY <2>1, <2>3 DEF Reached, Holds, Allowed
  <2>6. ToolTypes'
    BY <1>1, <1>2, <1>3 DEF ToolTypes
  <2>7. AnswerIsWithinBounds'
    BY <1>1, <2>5 DEF AnswerIsWithinBounds, Allowed
  <2>8. QED
    BY <1>1, <1>2, <1>3, <2>4, <2>6, <2>7 DEF ToolInv, Running
<1>4. CASE outcome # "none" /\ sessions = << >> /\ answer' = outcome
  <2>1. answer' \in {"empty", "error"}
    BY <1>2, <1>4 DEF ToolTypes
  <2>2. ToolTypes'
    BY <1>1, <1>2, <2>1 DEF ToolTypes
  <2>3. pc' <= Len(Scripts[call]') /\ Here'.op # "signOut"
    BY <1>1, <1>4 DEF ToolInv, Here
  <2>4. QED
    BY <1>1, <1>2, <1>4, <2>1, <2>2, <2>3 DEF ToolInv, Running, AnswerIsWithinBounds
<1>5. QED
  BY <1>3, <1>4 DEF AnswerStep

LEMMA UnderKeeps == ToolInv /\ UnderStep => ToolInv'
<1> SUFFICES ASSUME ToolInv, UnderStep PROVE ToolInv'
  OBVIOUS
<1> DEFINE k == Known[call][pc]
<1>1. Ready /\ Here.op = "under" /\ ToolTypes /\ Reached
  BY DEF UnderStep, At, Ready, ToolInv
<1>2. UNCHANGED <<asked, sessions, settings, item, fetched, teardown, ends>>
  BY DEF UnderStep
<1>3. Reached' /\ pc' \in 1 .. (Len(Scripts[call]) + 1)
  <2>1. CASE Here.arg \cap ctx = {} /\ ~Here.must
    <3>1. Goto(pc + 1 + Here.skip)
      BY <2>1 DEF UnderStep
    <3>2. /\ Without(Here, k).open = k.open
          /\ Without(Here, k).known = k.known \cup Here.arg
          /\ Without(Here, k).looked = k.looked
      BY <1>1 DEF Without, Known
    <3>3. Holds(Without(Here, k), sessions', item', fetched', ctx)
      BY <1>1, <1>2, <2>1, <3>2 DEF Reached, Holds
    <3>4. QED
      BY <1>1, <1>2, <2>1, <3>1, <3>3, Around DEF Passable
  <2>2. CASE Here.arg \cap ctx # {}
    <3>1. Goto(pc + 1)
      BY <2>2 DEF UnderStep
    <3>2. Holds(After(Here, k), sessions', item', fetched', ctx)
      BY <1>1, <1>2, NeutralAfter DEF Reached
    <3>3. QED
      BY <1>1, <1>2, <3>1, <3>2, Onward
  <2>3. QED
    BY <1>1, <2>1, <2>2, ReadyStep DEF Runnable
<1>4. Owed'
  BY <1>1, <1>2, OwedStill DEF ToolTypes, asked
<1>5. QED
  BY <1>1, <1>2, <1>3, <1>4, GoesOn DEF ToolTypes

\* A call begins with no session, and with nothing known of the content.
LEMMA ToolInvInit == Init => ToolInv
<1> SUFFICES ASSUME Init PROVE ToolInv
  OBVIOUS
<1>1. /\ call \in Calls /\ pc = 1 /\ sessions = << >> /\ item \in Snapshots
      /\ held = 0 /\ missed = 0 /\ outcome = "none" /\ answer = "none"
      /\ ctx \in SUBSET Dims /\ auth \in AuthModes /\ settings = FALSE /\ fetched = FALSE
  BY DEF Init
<1>2. ToolTypes
  <2>1. sessions \in Seq(Session)
    BY <1>1
  <2>2. pc \in 1 .. (Len(Scripts[call]) + 1)
    BY <1>1, SoundScript
  <2>3. /\ held \in Int /\ missed \in Nat
        /\ outcome \in {"none", "empty", "error"}
        /\ answer \in {"none", "content", "empty", "error"}
    BY <1>1
  <2>4. settings \in BOOLEAN /\ fetched \in BOOLEAN
    BY <1>1, Zenon
  <2>5. QED
    BY <1>1, <2>1, <2>2, <2>3, <2>4 DEF ToolTypes
<1>3. Known[call][pc] = Start
  BY <1>1, SoundScript
<1>4. Reached
  BY <1>1, <1>3 DEF Reached, Start, Holds
<1>5. Accounted
  BY <1>1 DEF Accounted
<1>6. QED
  BY <1>1, <1>2, <1>4, <1>5 DEF ToolInv, AnswerIsWithinBounds

\* Every step of a tool keeps the invariant.
LEMMA ToolInvStep == ToolInv /\ [Next]_vars => ToolInv'
<1> SUFFICES ASSUME ToolInv, [Next]_vars PROVE ToolInv'
  OBVIOUS
<1>1. CASE WithinStep
  <2>1. Ready /\ Here.op = "within" /\ UNCHANGED teardown
    BY <1>1 DEF WithinStep, At, Ready, Silent
  <2>2. QED
    BY <1>1, <2>1, Ends, FoundWithin DEF WithinStep
<1>2. CASE KeepStep
  <2>1. Ready /\ Here.op = "filter" /\ UNCHANGED teardown
    BY <1>2 DEF KeepStep, At, Ready, Silent
  <2>2. QED
    BY <1>2, <2>1, Ends, FoundWithin DEF KeepStep
<1>3. CASE RefuseStep
  <2>1. Ready /\ Here.op = "refuse" /\ UNCHANGED teardown
    BY <1>3 DEF RefuseStep, At, Ready, Silent
  <2>2. QED
    BY <1>3, <2>1, Ends, FoundWithin DEF RefuseStep
<1>4. CASE UNCHANGED vars
  <2>1. UNCHANGED <<call, ctx, auth, pc, sessions, settings, item, fetched, held, missed,
                    outcome, answer>>
    BY <1>4 DEF vars, teardown
  <2>2. ToolTypes' /\ Reached' = Reached /\ Accounted' /\ Running' = Running /\ Here' = Here
    BY <2>1 DEF ToolInv, ToolTypes, Reached, Accounted, Ephemeral, Running, Here
  <2>3. QED
    BY <2>1, <2>2 DEF ToolInv, AnswerIsWithinBounds, Allowed
<1>5. QED
  BY <1>1, <1>2, <1>3, <1>4, SignInKeeps, SignOutKeeps, UnwindKeeps, ReadKeeps, ConfigKeeps,
     CheckKeeps, LookUpKeeps, CallKeeps, FindKeeps, KeptKeeps, ListKeeps, ArgKeeps, UnderKeeps,
     AnswerKeeps DEF Next

\* Every call is, before each of its steps, in a state that its script is known to reach.
THEOREM ToolInvHolds == Spec => []ToolInv
BY ToolInvInit, ToolInvStep, PTL DEF Spec

\* Whatever fails in a tool, in its sessions and in their sign-outs, it answers only when it
\* has left every session it was in; of the sessions Tableau still holds each is one whose
\* sign-out failed, and no failed sign-out has made the tool fail
\* (restApiInstance.ts:162-207): for every set of calls, with every way of signing in, with
\* sessions inside one another and with those a later sign-in ends.
THEOREM SessionsHold == Spec => []SessionsAreReturned
<1>1. ToolInv => SessionsAreReturned
  <2> SUFFICES ASSUME ToolInv, answer # "none"
               PROVE  sessions = << >> /\ held <= missed
                      /\ (answer = "error" => Here.op # "signOut")
    BY DEF SessionsAreReturned
  <2>1. sessions = << >> /\ held \in Int /\ missed \in Nat /\ held <= missed + Len(sessions)
    BY DEF ToolInv, ToolTypes, Accounted
  <2>2. answer = "error" => Here.op # "signOut"
    BY DEF ToolInv
  <2>3. QED
    BY <2>1, <2>2
<1>2. QED
  BY <1>1, ToolInvHolds, PTL

\* What a tool hands out is within the bounds the request is configured with, in each of
\* the dimensions its checks cover, although the content may move between the checks and
\* the calls (resourceAccessChecker.ts:48-700).
THEOREM AnswersHold == Spec => []AnswerIsWithinBounds
<1>1. ToolInv => AnswerIsWithinBounds
  BY DEF ToolInv
<1>2. QED
  BY <1>1, ToolInvHolds, PTL
-----------------------------------------------------------------------------
\* The checker and the settings are read in sessions of the server's own, which ask for the
\* scopes their methods need.
LEMMA FetchScopes ==
    /\ RequiredScope["getMcpSiteSettings"] \in {SiteSettings}
    /\ RequiredScope["getCustomView"] \in CheckerScopes
    /\ \A k \in Kinds : RequiredScope[CheckOf(k).method] \in CheckOf(k).scopes
BY FetchesAssumption DEF Kinds, CheckOf, DatasourceCheck, WorkbookCheck, FlowCheck, ViewCheck,
   CheckerScopes, FlowCheckerScopes

\* The call a step is about to make in the tool's session is covered by its scopes.
LEMMA CallingCovered ==
    ASSUME ToolInv, Ready, Here.op \in RestCalls, Calling
    PROVE  CallsAreCovered'
<1> DEFINE k == Known[call][pc]
<1>1. k.open \in Seq(Scopes) /\ k.open # << >>
      /\ (Here.must => RequiredScope[Here.arg] \in k.open[Len(k.open)])
  BY ReadyStep DEF Runnable, ToolInv
<1>2. Len(sessions) = Len(k.open) /\ \A n \in 1 .. Len(sessions) : sessions[n].scopes = k.open[n]
  BY DEF ToolInv, Ready, Reached, Holds
<1>3. Len(k.open) \in 1 .. Len(k.open)
  BY <1>1
<1>4. Top.scopes = k.open[Len(k.open)]
  BY <1>2, <1>3 DEF Top
<1>5. QED
  BY <1>1, <1>4 DEF Calling, CallsAreCovered

\* A call in a session of the server's own.
LEMMA AsideCovered ==
    ASSUME NEW m, NEW sc, RequiredScope[m] \in sc, Aside(m, sc)
    PROVE  CallsAreCovered'
BY DEF Aside, CallsAreCovered

\* Every call a step makes is covered; the last one stays so.
LEMMA CoveredStep == ToolInv /\ CallsAreCovered /\ [Next]_vars => CallsAreCovered'
<1> SUFFICES ASSUME ToolInv, CallsAreCovered, [Next]_vars PROVE CallsAreCovered'
  OBVIOUS
<1>1. ASSUME UNCHANGED <<auth, last>> PROVE CallsAreCovered'
  BY <1>1 DEF CallsAreCovered
<1>2. CASE SignInStep \/ SignOutStep \/ ConfigStep \/ SpareStep \/ UnderStep
  BY <1>1, <1>2 DEF SignInStep, SignOutStep, ConfigStep, SpareStep, UnderStep, Failed, End,
                    Next1, asked
<1>3. CASE ArgStep \/ WithinStep \/ KeepStep \/ RefuseStep \/ AnswerStep \/ Unwind
  BY <1>1, <1>3 DEF ArgStep, WithinStep, KeepStep, RefuseStep, AnswerStep, Unwind, Silent, End,
                    Next1, asked
<1>4. CASE ReadSettings
  BY <1>1, <1>4, AsideCovered, FetchScopes DEF ReadSettings, Silent, asked
<1>5. CASE CheckStep
  <2>1. Here.arg \in Kinds
    BY <1>5, ReadyStep DEF CheckStep, At, Ready, Runnable, ToolInv
  <2>2. \/ UNCHANGED <<auth, last>>
        \/ Aside(CheckOf(Here.arg).method, CheckOf(Here.arg).scopes)
    BY <1>5 DEF CheckStep, Silent, End, asked
  <2>3. QED
    BY <1>1, <2>1, <2>2, AsideCovered, FetchScopes
<1>6. CASE LookUpStep
  <2>1. UNCHANGED <<auth, last>> \/ Aside("getCustomView", CheckerScopes)
    BY <1>6 DEF LookUpStep, asked
  <2>2. QED
    BY <1>1, <2>1, AsideCovered, FetchScopes
<1>7. CASE CallStep \/ FindStep \/ AdminStep \/ ListStep
  <2>1. Ready /\ Here.op \in RestCalls /\ Calling
    BY <1>7 DEF CallStep, FindStep, AdminStep, ListStep, At, Ready, RestCalls
  <2>2. QED
    BY <2>1, CallingCovered
<1>8. CASE KeptStep
  <2>1. Ready /\ Here.op \in RestCalls
    BY <1>8 DEF KeptStep, At, Ready, RestCalls
  <2>2. UNCHANGED <<auth, last>> \/ Calling
    BY <1>8 DEF KeptStep, Next1, asked
  <2>3. QED
    BY <1>1, <2>1, <2>2, CallingCovered
<1>9. CASE UNCHANGED vars
  BY <1>1, <1>9 DEF vars
<1>10. QED
  BY <1>2, <1>3, <1>4, <1>5, <1>6, <1>7, <1>8, <1>9 DEF Next

\* No call of a REST API method that a tool cannot survive is made in a session without the
\* scope the method requires (restApiInstance.ts:82-127, tokenScopes of each tool).
THEOREM CallsHold == Spec => []CallsAreCovered
<1>1. Init => CallsAreCovered
  BY DEF Init, CallsAreCovered, NoCall
<1>2. QED
  BY <1>1, ToolInvHolds, CoveredStep, PTL DEF Spec
=============================================================================
