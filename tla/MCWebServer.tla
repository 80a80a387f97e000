------------------------------ MODULE MCWebServer ------------------------------
(***************************************************************************)
(* What serves the call of a web tool: its script, for every tool and kind *)
(* of content; the settings of a site that changes, read by requests that  *)
(* overlap; the configuration of a request, for the texts the tests of     *)
(* overridableConfig combine; and the loops over pages of a list that      *)
(* changes.  They share no state, so each behaviour is one of one of them  *)
(* while the variables of the others rest.                                 *)
(***************************************************************************)
EXTENDS ScriptChecks, SiteSettings, Paginate

CONSTANTS t1, t2, a, b, r1, r2, None

VARIABLES
    running   \* "tools", "site", "overrides" or "pages"

-----------------------------------------------------------------------------
(* Texts of the environment, of a site and of a request.                   *)

Partial(S, R)    == UNION {[D -> R] : D \in SUBSET S}
Odd              == {Absent, Empty, Bad}
Restrictions(vs) == {Is(m) : m \in Partial(vs, {"restricted", "unrestricted"})}
Of(f)            == f @@ NoOverrides
With(f)          == f @@ NoSettings

LimitTexts == {[LIMIT |-> l, LIMITS |-> m] :
                  l \in Odd \cup {Is(1), Is(2)},
                  m \in Odd \cup {Is(f) : f \in Partial({t1, t2}, 1 .. 2) \ {<< >>}}}
BoundTexts == {[BOUNDS |-> i] : i \in Odd \cup {Is({a}), Is({b}), Is({a, b})}}
FlagTexts  == {[FLAG |-> f] : f \in Odd \cup {Is(TRUE), Is(FALSE)}}
StaleTexts == {[STALE |-> d] : d \in Odd \cup {Is(3)}}
ToolTexts  == {[INCLUDE |-> i, EXCLUDE |-> e] : i \in {Absent, Empty, Is({t1})},
                                                e \in {Absent, Empty, Is({t2})}}

Environment(f, vs) == {With([ALLOWED |-> r] @@ f) : r \in Restrictions(vs)}

\* A site that changes: its settings, and the requests that overlap.
ChangingSite == {With([BOUNDS |-> Is({a})]),
                 With([BOUNDS |-> Is({a, b}), ALLOWED |-> Is("BOUNDS" :> "unrestricted")])}
Overlapping  == [r \in Requests |-> [Idle EXCEPT !.over = Of([BOUNDS |-> Is({b})])]]

\* A request that overrides what it may: the variables that are read together, with the
\* environments that set them and the texts of a site and of a request about them.
Groups ==
    {[envs  |-> Environment([LIMIT |-> Is(2), LIMITS |-> Is(t1 :> 1)], {"LIMIT", "LIMITS"}),
      texts |-> LimitTexts],
     [envs  |-> Environment([BOUNDS |-> Is({a}), FLAG |-> Is(TRUE)], {"BOUNDS", "FLAG"}),
      texts |-> BoundTexts \cup FlagTexts],
     [envs  |-> Environment([STALE |-> Is(2)], {"STALE"}),
      texts |-> StaleTexts]}
Texts  == UNION {g.texts : g \in Groups}

MCEnvironments  == Environment(<< >>, {}) \cup UNION {g.envs : g \in Groups}
MCSitesSettings == ChangingSite \cup {With(f) : f \in Texts \cup ToolTexts}
MCOverrides     == {NoOverrides} \cup {Of(f) : f \in Texts}

-----------------------------------------------------------------------------
MCSignInModes == {"jwt", "pat", "bearer"}

\* Every set of bounds, with a bearer token.  What signing in adds is the sessions of a call,
\* of which the bounds only decide whether a check opens some of its own: no bound, each alone
\* and all of them.
ToolsStart == /\ Init
              /\ auth = "jwt" => Cardinality(ctx) \in {0, 1, Cardinality(Dims)}
              /\ auth = "pat" => ctx \in {{}, Dims}

MCItems    == 1 .. 5
MCFilters  == {{i \in MCItems : i % 2 = 0}}
MCListings == {<< >>, <<3>>, <<4, 2>>, <<4, 3, 2>>, <<1, 4, 3, 2>>, <<5, 4, 3, 2, 1>>}

-----------------------------------------------------------------------------
ToolRests  == /\ call = None /\ ctx = None /\ auth = None /\ pc = None
              /\ sessions = None /\ settings = None /\ item = None
              /\ fetched = None /\ last = None /\ held = 0 /\ missed = 0
              /\ outcome = None /\ answer = "none"
SiteRests  == /\ env = NoSettings /\ sitesMay = FALSE /\ cache = Nothing /\ now = 0
              /\ versions = << [settings |-> NoSettings, replaced |-> MaxTime + 1] >>
              /\ request = [r \in Requests |-> Idle]
PagesRest  == /\ ask = [loop |-> "client", size |-> 0, limit |-> 0, cap |-> 0,
                         passing |-> Items]
              /\ list = << >> /\ got = << >> /\ seen = {} /\ status = "reading"
              /\ size = 0 /\ changes = 0 /\ page = 0 /\ total = 0 /\ raw = 0

SiteStarts ==
    /\ env \in Environment(<< >>, {})
    /\ request = Overlapping
    /\ SettingsInit
    /\ versions[1].settings \in ChangingSite

OverridesStart ==
    /\ sitesMay = FALSE
    /\ \E g \in Groups :
          /\ env \in g.envs
          /\ \E f \in g.texts : request = [r \in Requests |->
                                      [Idle EXCEPT !.over = IF r = r1 THEN Of(f) ELSE @]]
          /\ SettingsInit
          /\ versions[1].settings \in {With(f) : f \in g.texts \cup ToolTexts}

MCInit ==
    \/ running = "tools" /\ ToolsStart /\ SiteRests /\ PagesRest
    \/ running = "site" /\ SiteStarts /\ ToolRests /\ PagesRest
    \/ running = "overrides" /\ OverridesStart /\ ToolRests /\ PagesRest
    \/ running = "pages" /\ PagesInit /\ ToolRests /\ SiteRests

ToolRuns      == running = "tools" /\ Next /\ UNCHANGED <<running, siteVars, pagesVars>>
SiteRuns      == /\ running = "site" /\ SettingsNext
                 /\ Current' \in ChangingSite
                 /\ UNCHANGED <<running, vars, pagesVars>>
OverridesRun  == running = "overrides" /\ Proceeds(r1) /\ UNCHANGED <<running, vars, pagesVars>>
PagesRun      == running = "pages" /\ PagesNext /\ UNCHANGED <<running, vars, siteVars>>

MCNext == ToolRuns \/ SiteRuns \/ OverridesRun \/ PagesRun

MCSpec == MCInit /\ [][MCNext]_<<running, vars, siteVars, pagesVars>>

=============================================================================
