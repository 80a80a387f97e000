----------------------------- MODULE SiteSettings -----------------------------
(***************************************************************************)
(* The settings a site keeps for the server (getMcpSiteSettings), read at    *)
(* most once per interval through a cache that requests share, and the       *)
(* configuration each request gets from them (getConfigWithOverrides).       *)
(***************************************************************************)
EXTENDS OverridableConfig

CONSTANTS Requests,   \* requests for a configuration
          Environments, SitesSettings, Overrides,  \* the texts of each
          Interval,   \* mcpSiteSettingsCheckIntervalInMinutes
          Timeout,    \* the time of a whole check: sign-in, read and sign-out, each of
                      \* which may take maxRequestTimeoutMs
          MaxTime,    \* bound on the clock
          MaxVersions \* bound on changes of the site's settings

NoOverrides == [v \in Vars |-> Absent]
NoSettings  == [v \in Vars \cup {"ALLOWED", "INCLUDE", "EXCLUDE"} |-> Absent]

(* What a text may stand for: a variable's is empty, malformed or a value,   *)
(* and the values of the two limits are numbers.                            *)
WellFormed(texts) ==
  /\ \A v \in Vars : texts[v] \in {Absent, Empty, Bad} \/ Given(texts[v])
  /\ Given(texts["LIMIT"]) => Value(texts["LIMIT"]) \in Nat
  /\ Given(texts["LIMITS"]) => \A t \in DOMAIN Value(texts["LIMITS"]) :
                                  Value(texts["LIMITS"])[t] \in Nat

ASSUME TextsAssumption ==
  \A texts \in Environments \cup SitesSettings \cup Overrides : WellFormed(texts)

(* config.ts:203-210: the interval is at least a minute.                     *)
ASSUME ClockAssumption ==
  /\ Interval \in Nat \ {0} /\ Timeout \in Nat
  /\ MaxTime \in Nat /\ MaxVersions \in Nat

VARIABLES
  env,       \* the environment
  sitesMay,  \* ALLOW_SITES_TO_CONFIGURE_REQUEST_OVERRIDES
  versions,  \* the site's settings, oldest first, and when each was replaced
  cache,     \* the settings kept, which version they are, and until when
  now,       \* the clock
  request    \* of each request: its overrides, how far it is, what it got

siteVars == <<env, sitesMay, versions, cache, now, request>>

Nothing == [settings |-> NoSettings, version |-> 0, until |-> 0]
Idle == [phase |-> "idle", over |-> NoOverrides, since |-> 0, read |-> Nothing,
         outcome |-> "none", config |-> {}, tools |-> {}]

SettingsTypeOK ==
  /\ now \in 0..MaxTime
  /\ Len(versions) \in 1..MaxVersions
  /\ cache.version \in 0..MaxVersions
  /\ \A r \in Requests :
       /\ request[r].phase \in {"idle", "reading", "read", "done", "error"}
       /\ request[r].outcome \in {"none", "ok", "403", "500", "other", "thrown"}

Current == versions[Len(versions)].settings

SettingsInit ==
  /\ env \in Environments /\ sitesMay \in BOOLEAN
  /\ \E s \in SitesSettings : versions = << [settings |-> s, replaced |-> MaxTime + 1] >>
  /\ cache = Nothing /\ now = 0
  /\ request \in [Requests -> {[Idle EXCEPT !.over = o] : o \in Overrides}]

-----------------------------------------------------------------------------
Configured(r, settings, version) ==
  [request[r] EXCEPT !.phase = "done", !.since = now,
     !.read = [settings |-> settings, version |-> version, until |-> 0],
     !.config = OverridableConfig(env, settings, sitesMay, request[r].over),
     !.tools = ToolsAllowed(env, settings, Tools)]

(* The site's settings are switched off, or the server is too old for them.  *)
Unread(r) ==
  /\ request[r].phase = "idle"
  /\ request' = [request EXCEPT ![r] = Configured(r, NoSettings, 0)]
  /\ UNCHANGED <<env, sitesMay, versions, cache, now>>

CacheHit(r) ==
  /\ request[r].phase = "idle" /\ now < cache.until
  /\ request' = [request EXCEPT ![r] = Configured(r, cache.settings, cache.version)]
  /\ UNCHANGED <<env, sitesMay, versions, cache, now>>

(* Two requests that miss the cache at once both read.                       *)
CacheMiss(r) ==
  /\ request[r].phase = "idle" /\ now >= cache.until
  /\ request' = [request EXCEPT ![r].phase = "reading", ![r].since = now]
  /\ UNCHANGED <<env, sitesMay, versions, cache, now>>

(* External: the site answers, or refuses, or the request fails on the way   *)
(* (the answer does not parse: an error that is not axios's).                *)
SiteAnswers(r) ==
  /\ request[r].phase = "reading"
  /\ \E o \in {"ok", "403", "500", "other", "thrown"} :
       request' = [request EXCEPT ![r].phase = "read", ![r].outcome = o,
                     ![r].read = IF o # "ok" THEN Nothing
                                 ELSE [settings |-> Current, version |-> Len(versions),
                                       until |-> 0]]
  /\ UNCHANGED <<env, sitesMay, versions, cache, now>>

(* Kept, also when there was nothing to read.                                *)
\* Mutant: the cache is given no expiration time.
Keeps_ForGood(r) ==
  /\ request[r].phase = "read" /\ request[r].outcome \in {"ok", "403", "thrown"}
  /\ cache' = [request[r].read EXCEPT !.until = MaxTime + 1]
  /\ request' = [request EXCEPT
       ![r] = Configured(r, request[r].read.settings, request[r].read.version)]
  /\ UNCHANGED <<env, sitesMay, versions, now>>
Keeps(r) ==
  /\ request[r].phase = "read" /\ request[r].outcome \in {"ok", "403", "thrown"}
  /\ cache' = [request[r].read EXCEPT !.until = now + Interval]
  /\ request' = [request EXCEPT
       ![r] = Configured(r, request[r].read.settings, request[r].read.version)]
  /\ UNCHANGED <<env, sitesMay, versions, now>>

Throws(r) ==
  /\ request[r].phase = "read" /\ request[r].outcome \in {"500", "other"}
  /\ request' = [request EXCEPT ![r].phase = "error"]
  /\ UNCHANGED <<env, sitesMay, versions, cache, now>>

(* External: an administrator of the site changes its settings.              *)
SiteChanges ==
  /\ Len(versions) < MaxVersions
  /\ \E s \in SitesSettings \ {Current} :
       versions' = Append([versions EXCEPT ![Len(versions)].replaced = now],
                          [settings |-> s, replaced |-> MaxTime + 1])
  /\ UNCHANGED <<env, sitesMay, cache, now, request>>

(* External: the clock.  Each request of a check to Tableau is cut off, and    *)
(* the sign-out is awaited before the answer is kept: a check is over within  *)
(* Timeout.                                                                  *)
Tick ==
  /\ now < MaxTime
  /\ \A r \in Requests : request[r].phase \in {"reading", "read"} =>
                           now - request[r].since < Timeout
  /\ now' = now + 1
  /\ UNCHANGED <<env, sitesMay, versions, cache, request>>

Proceeds(r) ==
  Unread(r) \/ CacheHit(r) \/ CacheMiss(r) \/ SiteAnswers(r) \/ Keeps(r) \/ Throws(r)

SettingsNext == (\E r \in Requests : Proceeds(r)) \/ SiteChanges \/ Tick

SettingsSpec == SettingsInit /\ [][SettingsNext]_siteVars

-----------------------------------------------------------------------------
Done(r) == request[r].phase = "done"

(* A site's settings are never used longer after they were replaced than the  *)
(* interval at which they are checked and the time a whole check may take    *)
(* (mcpSiteSettings, whose overlapping reads may overwrite a newer answer).  *)
SettingsAreRecent ==
  \A r \in Requests : Done(r) /\ request[r].read.version # 0 =>
    request[r].since < versions[request[r].read.version].replaced + Interval + Timeout

-----------------------------------------------------------------------------
(* What a request has without its overrides.                                 *)
Plain(r) ==
  CHOOSE c \in OverridableConfig(env, request[r].read.settings, sitesMay, NoOverrides) : TRUE
Held(c, v) == v \notin DOMAIN c.allowed \/ c.allowed[v] = "restricted"

Part(c) == [BOUNDS |-> c.bounds, FLAG |-> c.flag, STALE |-> c.stale,
            LIMIT |-> c.limit, LIMITS |-> c.limits]

AsTight(v, c, p) ==
  CASE v = "BOUNDS" -> Narrower(c.bounds, p.bounds)
    [] v = "FLAG"   -> (p.flag => c.flag)
    [] v = "STALE"  -> c.stale >= p.stale
    [] v = "LIMIT"  -> AtMost(c.limit, p.limit)
    [] v = "LIMITS" -> \A t \in DOMAIN p.limits :
                          AtMost(GetMaxResultLimit(c, t), p.limits[t])

(* The numbers of stale content are taken as they come, also where they are   *)
(* restricted: RestrictedAgeHolds shows it.                                  *)
KnownLoosening == {"STALE"}

NoLooser(c, p) ==
  /\ \A v \in Vars \ DOMAIN c.allowed : Part(c)[v] = Part(p)[v]
  /\ \A v \in Vars \ KnownLoosening : Held(c, v) => AsTight(v, c, p)
  /\ Held(c, "LIMIT") /\ Held(c, "LIMITS") =>
       \A t \in Tools : AtMost(GetMaxResultLimit(c, t), GetMaxResultLimit(p, t))

(* However a request combines its overrides, a variable it may not override   *)
(* ends as it was, and one that is restricted ends at least as narrow, except *)
(* for the numbers of stale content (KnownLoosening).  The limits of a tool,  *)
(* which two variables set together, are included                            *)
(* (getMaxResultLimitsWithOverrides).                                        *)
RestrictedNeverLoosens ==
  \A r \in Requests : \A c \in request[r].config : NoLooser(c, Plain(r))

-----------------------------------------------------------------------------
(* request-overrides.md: restricted variables "can only narrow or maintain    *)
(* the current configuration": a smaller number flags, and shows, more.      *)
RestrictedAgeHolds ==
  \A r \in Requests : \A c \in request[r].config :
    Held(c, "STALE") => AsTight("STALE", c, Plain(r))

(* overridableConfig: if a request override's value is invalid, throw.        *)
InvalidIsRefused ==
  \A r \in Requests : Done(r) /\ (\E v \in Vars : request[r].over[v] = Bad) =>
    request[r].config = {}

(* mcpSiteSettings: only a 403 goes on with, and caches, empty settings.      *)
EmptyMeansRefused ==
  \A r \in Requests : Done(r) /\ request[r].outcome # "none"
                      /\ request[r].read.version = 0 => request[r].outcome = "403"
=============================================================================
