-------------------------- MODULE OverridableConfig --------------------------
(***************************************************************************)
(* The configuration of one request (OverridableConfig): the environment's  *)
(* value of each variable, replaced by the site's, replaced by the          *)
(* request's where ALLOWED_REQUEST_OVERRIDES allows it.                     *)
(*                                                                         *)
(* A variable's text is absent, empty, malformed (or out of its range), or   *)
(* stands for a value.                                                      *)
(* Resolving gives the set of outcomes: one value, or none where the code   *)
(* throws.  One variable stands for the five INCLUDE_*_IDS and INCLUDE_TAGS  *)
(* (BOUNDS), one for the two DISABLE_* (FLAG), one for the two STALE_CONTENT_* *)
(* numbers (STALE); all of a group go through one method.                   *)
(***************************************************************************)
EXTENDS Integers, Sequences, TLC

CONSTANTS Tools,      \* the tools with limits of their own
          StaleDefault

Vars == {"BOUNDS", "FLAG", "STALE", "LIMIT", "LIMITS"}

Absent == << >>
Empty  == <<"">>
Bad    == <<"bad">>
Is(v)  == <<"is", v>>
Given(text) == Len(text) = 2
Value(text) == text[2]

NoBounds == {}   \* null: nothing is bounded; a bound is never the empty set
NoLimit  == 0    \* null: unbounded; a limit is positive
NoLimits == << >>
AtMost(l, m) == m = NoLimit \/ (l # NoLimit /\ l <= m)
Narrower(b, c) == c = NoBounds \/ (b # NoBounds /\ b \subseteq c)

-----------------------------------------------------------------------------
(* A malformed list of allowed overrides on the site leaves the environment's *)
(* in place; an empty one allows none.                                      *)
AllowedRequestOverrides(env, site, sitesMay) ==
  LET here == IF Given(env["ALLOWED"]) THEN Value(env["ALLOWED"]) ELSE << >>
  IN IF ~sitesMay \/ site["ALLOWED"] \in {Absent, Bad} THEN here
     ELSE IF site["ALLOWED"] = Empty THEN << >> ELSE Value(site["ALLOWED"])

(* INCLUDE_TOOLS and EXCLUDE_TOOLS: the site sets one of them or is ignored;  *)
(* unknown names are dropped.                                               *)
ToolsAllowed(env, site, all) ==
  LET Named(text) == IF Given(text) THEN Value(text) ELSE {}
      Set(text)   == text \notin {Absent, Empty}
      Pick(inc, exc) == IF Named(inc) # {} THEN Named(inc) ELSE all \ Named(exc)
  IN IF \/ site["INCLUDE"] = Absent /\ site["EXCLUDE"] = Absent
        \/ Set(site["INCLUDE"]) /\ Set(site["EXCLUDE"])
     THEN Pick(env["INCLUDE"], env["EXCLUDE"])
     ELSE IF Set(site["EXCLUDE"]) THEN all \ Named(site["EXCLUDE"])
     ELSE Pick(site["INCLUDE"], Absent)

(* The site's value: an empty text reverts to the default, a malformed one is *)
(* ignored.                                                                 *)
SiteValue(env, site, v, default) ==
  LET here == IF Given(env[v]) THEN Value(env[v]) ELSE default
  IN CASE site[v] = Empty  -> default
       [] Given(site[v])   -> Value(site[v])
       [] OTHER            -> here

BoundedVariable(base, text, restricted) ==
  CASE text = Bad   -> {}
    [] text = Empty -> IF restricted /\ base # NoBounds THEN {} ELSE {NoBounds}
    [] OTHER        -> IF restricted /\ ~Narrower(Value(text), base) THEN {} ELSE {Value(text)}

(* The default is FALSE; restricted, only TRUE is taken.                    *)
BooleanVariable(base, text, restricted) ==
  CASE text = Bad   -> {}
    [] text = Empty -> IF restricted THEN {} ELSE {FALSE}
    [] OTHER        -> IF restricted /\ ~Value(text) THEN {} ELSE {Value(text)}

(* Restricted or not, any number is taken.                                  *)
StaleContent(base, text, restricted) ==
  CASE text = Empty -> {StaleDefault}
    [] text = Bad   -> {}
    [] OTHER        -> {Value(text)}

MaxResultLimit(base, text, restricted) ==
  CASE text = Bad   -> {}
    [] text = Empty -> IF restricted /\ base # NoLimit THEN {} ELSE {NoLimit}
    [] OTHER        -> IF restricted /\ ~AtMost(Value(text), base) THEN {} ELSE {Value(text)}

\* Mutant: a limit the override leaves out is taken for one it keeps.
LimitsAccepted_Missing(base, over, limit) ==
  /\ \A t \in DOMAIN base \cap DOMAIN over : AtMost(over[t], base[t])
  /\ \A t \in DOMAIN over \ DOMAIN base : AtMost(over[t], limit)
(* `limit' is the overall one, with every override applied.                 *)
LimitsAccepted(base, over, limit) ==
  /\ \A t \in DOMAIN base : AtMost(IF t \in DOMAIN over THEN over[t] ELSE limit, base[t])
  /\ \A t \in DOMAIN over \ DOMAIN base : AtMost(over[t], limit)

(* A malformed text parses to no limits, which only the unrestricted case    *)
(* tells from an empty one.                                                 *)
MaxResultLimits(base, text, restricted, limit) ==
  LET over == IF Given(text) THEN Value(text) ELSE NoLimits
  IN IF restricted THEN (IF LimitsAccepted(base, over, limit) THEN {over} ELSE {})
     ELSE IF text = Bad THEN {} ELSE {over}

-----------------------------------------------------------------------------
(* A variable keeps the base unless the request overrides it, which throws   *)
(* unless it is allowed.                                                     *)
Overridden(text, v, allowed, base, outcomes) ==
  IF text = Absent THEN {base}
  ELSE IF v \notin DOMAIN allowed THEN {} ELSE outcomes

Restricted(v, allowed) == allowed[v] = "restricted"

Limits(base, text, allowed, limit) ==
  Overridden(text, "LIMITS", allowed, base,
             MaxResultLimits(base, text, Restricted("LIMITS", allowed), limit))

OverridableConfig(env, site, sitesMay, request) ==
  LET allowed == AllowedRequestOverrides(env, site, sitesMay)
      Base(v, default) == SiteValue(env, site, v, default)
      bounds == Base("BOUNDS", NoBounds)
      flag   == Base("FLAG", FALSE)
      stale  == Base("STALE", StaleDefault)
      limit  == Base("LIMIT", NoLimit)
      limits == Base("LIMITS", NoLimits)
      Of(v, base, outcomes) == Overridden(request[v], v, allowed, base, outcomes)
  IN UNION {{[allowed |-> allowed, bounds |-> b, flag |-> f, stale |-> s,
              limit |-> l, limits |-> ls] : ls \in Limits(limits, request["LIMITS"], allowed, l)} :
     b \in Of("BOUNDS", bounds,
              BoundedVariable(bounds, request["BOUNDS"], Restricted("BOUNDS", allowed))),
     f \in Of("FLAG", flag,
              BooleanVariable(flag, request["FLAG"], Restricted("FLAG", allowed))),
     s \in Of("STALE", stale,
              StaleContent(stale, request["STALE"], Restricted("STALE", allowed))),
     l \in Of("LIMIT", limit,
              MaxResultLimit(limit, request["LIMIT"], Restricted("LIMIT", allowed)))}

GetMaxResultLimit(config, t) ==
  IF t \in DOMAIN config.limits THEN config.limits[t] ELSE config.limit
=============================================================================
