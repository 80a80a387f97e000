# TLA+ models of the Tableau MCP server

This directory holds TLA+ modules, TLC configurations and TLAPS proofs about
the server and its widgets. Paths below are relative to the repository; the
line numbers after file names are those of this commit.

## 1. The system and its parts

The program is an MCP server for Tableau (`src/`), with widgets that run in an
iframe of the host (`src/web/apps/src/`), and a second, smaller server for
Tableau Desktop.

| Part | State it keeps | Operations | What makes it hard |
|---|---|---|---|
| Viz state bridge (`embed/vizState/vizStateBridge.ts`, `debounce.ts`) | flags of a closure, one debounce timer, listeners | viz events, timer, capture and push settling, dispose | async activations that overlap events and disposal; a circuit breaker |
| Viz capture (`captureVizState.ts`, `captureSummaryData.ts`) | the payload being built, a datasource cache shared by captures | one Embedding API call after another | every call may fail or hang; two timers; clean-up on every path |
| Call queue (`serialQueue.ts`) | tail promise, abort reason, timer | `run`, `runFinal`, `abort` | mutual exclusion and order follow from a promise chain only |
| Push (`pushVizState.ts`, `payload.ts`) | none | trim a snapshot to a byte budget, send it | a ladder of partial trims with a hard bound |
| Widget delivery (`embed/handleToolResult.ts`, `pulse/handlePulseToolResult.ts`) | the mounted element, the current bridge, a link | tool results delivered by the host | overlapping deliveries around awaits; late errors of a replaced element |
| Pulse bridge (`pulse/pulseState/*`) | as the viz bridge, and a buffer of insights | as the viz bridge | the same; insights exist only in events; a bounded buffer |
| Confirmation panels (`web/apps/src/hitl/*`) | a countdown per panel | tick, cancel, confirm | ticks, clicks, later results and answers in any order |
| Mutation guard (`tools/web/_lib/*`) | evidence that a human approved | preview, confirm, mutate, audit | approval used at most once, expiry, restart, failures |
| Expiring map (`utils/expiringMap.ts`, `setLongTimeout.ts`) | entries and their timers | set, get, delete, clear | timers that outlive entries; 32-bit delays |
| OAuth server (`server/oauth/*`) | pending authorizations, codes, refresh tokens and their index | authorize, callback, token, revoke | checks and deletions around awaits |
| Auth middlewares (`passthroughAuthMiddleware.ts`, `oauth/authMiddleware.ts`, `accessTokenValidator.ts`) | a cache of sessions | admit or refuse a request, name the scopes to ask for | a stale cache; scopes kept in three places |
| MCP sessions (`sessions.ts`, `server/express.ts`, `server.web.ts`) | transports per session, one log level | request, close, delete | lifetimes of transports; state of the process seen by every session |
| REST session (`restApiInstance.ts`) | one signed-in client per call | sign in, call back, sign out | failures in between; sessions in sessions |
| Web tools (`tools/web/*`) and access checks (`resourceAccessChecker.ts`) | none | a script of REST calls, checks and filters per tool | content that moves between check and answer; scopes kept by hand |
| Settings (`utils/mcpSiteSettings.ts`, `overridableConfig.ts`) | settings per site, cached | read through, combine with a request's overrides | failures cached; three sources with restrictions |
| Pagination (`utils/paginate.ts`, `collectFlowRuns`) | none | loops over pages | lists that change under the loop; limits and offsets |
| Desktop server (`desktop/*`, `tools/desktop/*`) | an address per process id | six tools over commands that are polled for | instances that crash and come back; time-outs; fallbacks |
| SDKs, schemas, configuration, logging, telemetry, prompts | mostly none | | |

How they interact: the host delivers a tool result to the widget, the widget
mounts an element and starts a bridge on it; the bridge's timer calls the
capture, the capture runs its calls through a queue of its own and hands a
payload back; the bridge pushes it, trimmed, into the host's model context. A
preview's result shows a panel, whose button calls the confirming tool. On the
server side a request passes a middleware, which asks its cache, a token or
Tableau; the session hands it to a server whose tools were registered for the
user; the tool reads the site's settings, opens a REST session, checks what it
is asked for against the bounds, calls, filters and answers; a mutating tool
goes through the guard.

## 2. The plan

The order follows the density of the concurrency and how explicitly the code
states its rules.

1. (done) `SerialQueue`, `VizCapture`, `VizStateBridge` with its abstract
   specification `SingleFlight`, their composition `VizStateChannel`,
   `VizPushBudget`; proofs of the queue, the bridge and the budget.
2. (done) `MutationGuard` with its abstract specification `Tickets`, with
   proofs; `ConfirmPanel`.
3. (done) `WidgetDelivery`, `PulseStateBridge` (which implements
   `SingleFlight` too).
4. (done) `ExpiringMap`, `OAuthTokens`, `AuthGate`, `McpSessions`.
5. (done) `ToolScripts` and `WebTools`, `OverridableConfig` and
   `SiteSettings`, `Paginate`; `DesktopCalls`.
6. (done) The compositions `HttpServer` and `Widgets`, and proofs of the safety
   of their parts (`OAuthTokens`, `AuthGate`, `McpSessions`; `WidgetDelivery`,
   `ConfirmPanel`), of `VizCapture`, and of `VizStateChannel`.
7. (done) Proofs of the safety of `SiteSettings` with `OverridableConfig`, and of
   `DesktopCalls`.
8. (done) Proofs of the safety of `PulseStateBridge`, with its part of
   `SingleFlight`, and of `ExpiringMap`.
9. (done) Proofs of the safety of `WebTools` from what is checked of its scripts
   (`ScriptChecks`), that `VizPushBudget` trims no more than needed, and that a
   Pulse bridge at rest lists no insight in an old wording.
10. (done) Proof that what the loops of `Paginate` return, and say of it, is right.

Runs stay small: two or three overlapping requests, deliveries or calls, two of
whatever can be mixed up. Theorems worth proving are the safety properties that
must hold for any number of activations, callers, requests and any sizes.

## 3. The modules

**SingleFlight** says what a state bridge promises, without timers or flags:
requests are coalesced, at most one flight at a time, a request made during a
flight is kept, nothing starts once closed.

**VizStateBridge** has one variable per mutable variable of
`startVizStateBridge` (`disposed`, `capturing`, `rerunRequested`,
`consecutiveTimeouts`, `preferredSheetName`), the debouncer's timer
(`timerArmed`), the once-only load listener and, for every activation of the
async `runCapture`, the await it is suspended in (`pc`). An action is the code
between two awaits. `context` is what the bridge last put into the host's model
context; `unseen` is a history variable: an event came after the last capture
started.

**VizCapture** is `captureVizState` with everything it calls. `stage` is the
read it has come to, `todo` the worksheets the read has still to visit, `inCall`
whether a call is awaited. `Issue` is the queue accepting a call, `CallRefused`
the queue refusing it, `CallTimesOut` the per-call timer, `OverallTimeout` the
timer of the capture, which only marks the queue. The answers are one action
per read. Values are abstracted to which of them were read; error lines to
their kinds, because the bridge tells captures apart by them.

**SerialQueue** is the class on its own, with concurrent callers. The chain of
promises is the variable `pred`; a live call races its timer; `hung` are
the calls abandoned by their timer.

**VizStateChannel** composes bridge and capture: it extends the module of the
capture and instantiates the one of the bridge. `Start` is the debounce timer
firing into `captureVizState`, `Deliver` the payload coming back.

**VizPushBudget** is the ladder of `fitPayloadToBudget` under the budget
`pushVizState` gives it. The number of bytes of a payload is an uninterpreted
operator.

**Tickets** says what a confirmation gate promises: each preview issues at most
one ticket, a ticket is used at most once and by one confirm, one that lapsed
never comes back.

**MutationGuard** is `guardMutation` with the admin gate, the evidence strategies
and the tools that call it. Every call of a tool has its stage in `pc`: `open`
(signed in, before the admin gate), `denying`, `resolve`, `tag`, `oneshot`,
`establish`, `mutate`; an action is the code between two requests or awaits, so
calls interleave exactly where the code lets them. A confirm passes its checks one
by one, in the order of `AllEvidence` (`Evidence`, `After`): the label is asked for
over the network, the approval or nonce looked up and deleted in one synchronous
stretch. `nonces`, `approvals` and `adminCache` are the server's in-memory maps,
whose entries may expire in any step; `tags` and `role` are Tableau's. An operation
stands for a tool with its target and the parameters bound into the evidence's key,
and its kind for the evidence its tool uses. Abstractions: the approval cache stores
`true`, the model which preview stored it, so that properties can speak of it; the
query of a role and of a tag takes effect when it is answered; a denied user's
target is resolved best effort and never stops the record, so `denying` ends in one
step. `basis`, `wasAdmin` and `labelled` (the confirms whose target carried the
label at some time since they began) are history.

**ConfirmPanel** is the four panels, each with its countdown, its buttons and
the call its click makes. Panels that were replaced stay in `panels`, because
their timers and listeners do in the page.

**WidgetDelivery** is `handleToolResult` of either widget. `pc` is the await a
delivery is suspended in; `container`, `bridges`, `disposer` and `link` are what
the page shows, which bridges run, which one `disposeBridge` would stop and
where the link leads. Bridges may give up by themselves. `failed` is history:
something failed since a viz was last mounted.

**PulseStateBridge** is the Pulse bridge with its capture, the buffer of insights
and the trimming of a push. Unlike `VizStateBridge` it keeps the data, so that
its property can say that the host ends up with what is on the screen. A
refinement mapping takes it to `SingleFlight`. **PulseState** gives its constants and
variables names of their own, so that it can stand beside other components. **Lists**
says what selecting and halving come to by the indices of a list, without recursion:
`SelectSeq` and `SortSeq` are defined by it, and `^` is not known to the prover.

**ExpiringMap** is the map with a clock: an entry has a timer, which `Expiry`
runs, and a delay beyond what `setTimeout` takes is served in legs. The class of
the repository is a `Map`; insertion order is kept for the eviction. `MaxTime` bounds
when something may be set; the clock goes on while a timer is pending, so what was
set comes to its end within the bounds.

**OAuthTokens** is the authorization server: pending authorizations, codes, refresh
tokens, the index by session and the timers of each. A grant is in `pc`
between its await and its answer, so that retries, revocations, timers and
restarts come in between. Tokens carry the login they stem from.

**AuthGate** is both middlewares, in sequence as the server installs them: the
cache of sessions, the validation of a token while Tableau is asked, the scopes a
request requires, those a refusal names and those `/oauth2/authorize` grants.
`challenge` and `followed` are the client that follows a refusal.

**McpSessions** is the handling of a request over HTTP, from startup on: the
session on file, the server made for it, the tools registered for its user, calls
in progress, the log level of the process. With `stateless` every request has a
server of its own.

**ToolScripts** is, for each of 40 web tools, the sequence of steps its callback
takes: settings, checks, sign-in with which scopes, which REST method, whether a
failure ends the call, which filter. The scopes a method requires and those a tool
asks for are tables, as in the code. **WebTools** interprets a script: sessions are
a stack, and so is the way out of them. A call that ends in the middle (`End`) has
an `outcome`, and leaves its sessions one by one (`Unwind`), each by a sign-out that
may fail and is swallowed if it does, as a sign-out on the normal way may
(`LeaveSession`, `SignOutStep`); `held` and `missed` count what Tableau holds and
what failed. `item` is the content that is asked for, which may move or be retagged
between two fetches, `ctx` the dimensions that are bounded.

**OverridableConfig** is a pure operator: what the texts of the environment, the
site and the request make of a configuration, as the set of possible results,
empty where the code throws. **SiteSettings** is the cache of the site's settings
and the requests that use it. A check of the site is three requests of
`maxRequestTimeoutMs` each (sign-in, the settings, an awaited sign-out:
`restApiInstance.ts:134, 172, 187`) before anything is cached
(`mcpSiteSettings.ts:80`); `Timeout` bounds the three together.

**Paginate** is the loops over pages and a client of the tools that hand out a
page per call, over a list that changes between two pages.

**DesktopCalls** is the desktop server: instances with their runs and events, the
manifest, the sessions kept, the calls of six tools and the commands they
submit and poll for.

**Timers** is what lives by timers that must fire: `VizStateBridge`,
`PulseStateBridge` and `ExpiringMap`, which share no variable. **HttpServer** is what
answers requests over HTTP, `OAuthTokens`, `AuthGate` and
`McpSessions` together; **Widgets** what shows tool results in a page,
`WidgetDelivery` and `ConfirmPanel`. The parts share no variable, so their steps
interleave freely; the properties are named there once more, and proved there.

Three forms recur. A component that shares no state with another is checked in one
run with it: `MCTimers`, `MCCalls`, `MCWidgets`, `MCHttpServer` and `MCWebServer`
declare the variables of several components and one more, `running`, that says which
one moves; the others rest in an initial state. (`Timers`, `HttpServer` and
`Widgets` declare those of their parts; their MC modules extend them.) They extend
the components whose properties are proved, so that a run and a theorem name the
same definition, and instantiate the others; a property of one of these is named
again in the MC module, restricted to the behaviours in which it runs, and one of a
part in its composition. Second, what the constants of a component are assumed to be
is an `ASSUME` of its module where the module is extended by its MC module, and a
definition `...Assumption` that the MC module or the composition assumes where it is
instantiated. Third, operators named `<Definition>_<Bug>`, each with a comment that
starts with "Mutant", are variations of the definition that follows them. No
specification uses them; they serve to show that a property can fail.

## 4. The runs

| Run | Instance | States | Shows |
|---|---|---|---|
| `timers` | viz bridge: 2 activations, 1 sheet, limit 2, 4 events; Pulse bridge: 1 insight, 1 value; map: 2 keys, at most 1 entry, delays 0 to 3 with a longest timer of 2, sets before time 4, a long timer of up to three legs | 27,826 | no two captures overlap, a disposed bridge is quiet, no interaction is lost; both bridges implement `SingleFlight`; entries go, and not early; a long timer calls back, and not early |
| `viz_capture` | 2 worksheets, 1 filter, 2 datasources, 4 API surfaces, 2 contents | 376,892 | truth and completeness of the payload, clean-up, termination |
| `viz_state_channel` | 1 worksheet, 2 surfaces, 2 activations, 2 events | 198,626 | the composition implements the bridge; the breaker counts only timeouts |
| `calls` | queue: 3 calls with `run`, 1 with `runFinal`; desktop: 1 process id, 2 runs, 2 calls, 1 event, 1 attempt | 358,985 | mutual exclusion, order, fail-fast, settling; answers about a workbook hold, every call ends |
| `mutation_guard` | 2 calls, 2 users, a content and an account operation, mcp-apps off | 47,671 | every authorized mutation is audited; keys and the role cache keep users apart |
| `mutation_guard_apps` | 3 calls, 1 user, a content and a task operation, mcp-apps on | 221,298 | single use of approvals, no mutation without its preview, no approval wasted on a confirm that is turned away, no mutation of what lost its label before, the refinement to `Tickets` |
| `widgets` | 3 deliveries; 2 resources in panels; a Pulse metric with 3 events; a ladder over 5 rows, 2 marks, 64 size functions | 2,587,887 | element, bridge and link agree; a screen without a viz is explained; a click does what is shown; a bridge at rest has told what is on the screen; the bound of a push, and that nothing is trimmed that would fit |
| `http_server` | gate: 2 requests, 1 session, 3 tools, 3 ticks; OAuth: 2 logins, 2 overlapping grants, 2 tokens; sessions: 3 requests, 2 users, 1 tool | 936,750 | the admitted had a live session recently; a refusal names scopes that suffice; tokens of two logins never mix; sessions on file are those initialized and not closed |
| `web_server` | 40 tools with every set of bounds (a bearer token), and with sessions of their own to leave (JWTs: no bound, each alone, all; access tokens: none and all); 2 requests on a site with 2 versions of its settings; all pairs of texts of site and request per group of variables, the age of stale content restricted, not allowed and free; lists of up to 5, pages of at most 2, limits up to 5, page sizes up to 3, 2 changes | 2,600,806 | answers are within bounds, calls have their scopes, a call answers when it is out of its sessions; settings are recent; restricted variables, the age of stale content excepted, never end looser; pages are honest |
| `mutation_guard_failed`, `revocation`, `list_pages` | as the run of the same module | (violations) | the findings below |

Why the bounds suffice. Two activations are what an overlap needs. Four events let
an event arrive before, during and after a capture and one more reach the breaker's
limit of two (the code's own value). Two worksheets distinguish the sampled sheet
from the other, share a datasource and let a read fail on one and succeed on the
other; captures follow each other without a bound, so the cache is met in every
state. The four surfaces differ in the branch they take. Four calls suffice for one
live, one abandoned, one waiting and one final. Five rows are halved three times.
The weights make each part of a snapshot dominate once. Three calls of the guard are
a preview and two confirms that race on it, or two previews of which one supersedes
the other and a confirm; calls are interchangeable, hence the symmetry. Three
deliveries are one that is mounted, one that overtakes and one that is overtaken.
Two requests are what a race on a code, a token or a cache entry needs, and a third
on a session is the one that closes it while a call runs. A map of at most one entry
evicts at every second key; delays below, at and beyond the longest timer are in the
bounds, and one of more than twice that. Two runs of an instance are a crash with a
return. In the lists, a limit lies below, at and beyond a page, and a change may
happen before and after the item it moves is read.

**Deadlock** is not checked where the system may stop: a page goes quiet, a
disposed bridge stops, bounded requests and calls end. It is checked for the
guard, whose server goes on taking calls.

**Fairness.** Only the code's own timers and continuations are fair, and requests
that have a time-out.

* `VizCapture`: `Advance`, the code after an await, and the per-call timer; no
  answer of the viz is assumed.
* `SerialQueue`: the reactions and the timers.
* `VizStateBridge`: the debounce timer, and that a capture and a push settle: the
  former is what `VizStateChannel` shows of the composition (`ImplementsBridge`
  includes the bridge's fairness), the latter is the request timeout of the MCP
  SDK, which is outside this repository. `PulseStateBridge`: the same two.
* `ExpiringMap`: the clock, the callback of a due timer and the next leg of a long
  one. That every long timer is called back (`LongTimerFires`) is about its legs:
  where the next one is not started, time goes on and nothing is ever due again.
* `DesktopCalls`: that a call goes on, by its answer, the next poll or its
  time-out; the client of the Agent API has a timeout and a poll its interval. No
  command is assumed to end.

`WidgetDelivery`, `ConfirmPanel`, the guard and the modules of the server state
safety only.

## 5. The proofs

* `TimersProofs`, about the viz bridge: for all activations, sheets and limits. The
  checked invariants are not inductive: the strengthening adds that `capturing`
  is true exactly while an activation is suspended, that a rerun is only
  remembered while there is a capture to follow, that the counter is at its
  limit during the last push, and that a bridge which has said its last words
  is disposed of and at rest. From it follow the two action properties and the
  refinement of `SingleFlight`'s safety part, one mapped step per action.
  About the Pulse bridge: for all insights, settings, sizes of the buffer and
  costs. The same refinement needs only what its flags mean (`PulseFlags`). That a
  bridge at rest has told what is on the screen is an invariant of every point of
  a capture (`PulseTruth`): unless another capture is wanted, what it has read is
  what is on the screen, with a line for what it could not read; a push and its
  finally block hand this on to the context. That a push fits the budget is a lemma
  about `Fit` (`FitFits`), from the assumption that the fixed text of the last rung
  fits, which `pulsePayload.ts:30-33` says of it. That no insight is listed in an old
  wording follows the buffer (`PulseWordings`): an entry that no later one of its id
  follows has the wording announced last, and evicting the oldest leaves it so.
  Deduping takes exactly these entries (`DedupedAreLast`), which needs that the k-th of
  a set of indices exists (`NthIn`), and every rung of the ladder lists a beginning
  of them (`LadderKeepsOrder`), which needs that there is a length to halve a list to
  (`HalvedShortens`): the naturals are well-founded, and no more induction is needed.
  About the map: for any keys, delays and sizes. A timer that is set is the one of
  its key, due when the life of the entry ends (`TimersAreOwned`), and two keys
  share no timer (`IdsAreIssued`); so removing a key, or evicting the oldest, which is
  never the one being set, leaves the others their timers. What is left of a long delay
  reaches as far as was asked for (`LongReaches`).
* `CallsProofs`: for any set of callers of the queue, and any number of calls, process
  ids, runs, attempts and events of the desktop server. Mutual exclusion has no
  lock to point at; the invariant numbers the entries along the chain and states
  that whatever stands before an invoked entry has settled. That answers about a
  workbook hold (`AnswersInv`) rests on two facts. The commands of a call run one after
  the other, each after the failure of the one before it (`CommandsInTurn`), so one
  of them at most has loaded anything; what a call answers then follows from how
  its last command ended. And a session stays with the run of the instance it was
  first used for, and with it the calls under way and the checkpoints the client
  has (`RunsAreKept`): this is why a checkpoint is never compared with the event
  log of another run, although a process id may come to mean one.
* `MutationGuardProofs`: for all calls, users, operations and tags, with
  mcp-apps on or off. Single use does not follow from deleting an entry when it
  is used: the invariant `IInv` adds that whatever stands in a cache was put
  there by a preview that was shown under that very key and has been the basis
  of no confirm (`ApprovalsUnspent`, `NoncesUnspent`), and that only a call
  which ended has a record. Two facts needed care: with mcp-apps on a nonce is
  minted that nobody ever asks for, beside an approval of the same preview that
  is spent, so "unspent" holds of nonces only where the model may confirm; and
  where the tag is the only evidence, the basis is a preview that put the same
  label on the target. The refinement of `Tickets` has one mapped step for
  `VerifyOneShot`; every other action leaves `basis` alone, ends no ended call, and
  caches only the preview that ends in it (`GuardUses`). The audit follows from
  `IInv`; the admin gate from it and `RolesKnown`, that a role is cached for the
  user who has or had it. That no approval is wasted (`NothingWasted`) is a matter
  of the order of the checks: where the approval is used up nothing is left to be
  asked. That an objection holds (`ObjectionsHold`) follows the label from what a
  confirm saw when it began, or saw put since, through the check and on to the
  mutation.
* `VizStateChannelProofs`, about the capture: for all worksheets, API surfaces,
  contents and caps. Every invariant rests on `CaptureOK`: the types, and `InStep`,
  that a call is under way only in a stage that has what its answer is about, and a
  result in hand only for the worksheet in front of the sweep. A reader is open in
  its two stages only (`OpenWhileRead`). A capture is marked as aborted at its very
  end, when a timer has fired (`TimersAbort`); that the final abort keeps the first
  reason is what lets this survive the end. Silence means completeness because each
  stage that was passed without a line has read what it is about, and the one under
  way what it has passed (`SilentSoFar`). For the datasources, `SourcesInv` follows
  the merge through the list in hand: what is left of it is the end of what the
  worksheet returned (`InHand`), a datasource is attributed to the worksheets swept
  and to the one in front if it was among the results taken (`FoundWhereReturned`),
  each is listed once (`ListedOnce`), and the sampled worksheet is the first to
  contribute (`SampledComesFirst`), which needs that `SweepOrder` holds every
  worksheet and that one just once, in front. About the composition: it is a
  step-by-step refinement both of `VizStateBridge` and of `VizCapture`
  (`RefinesBridge`, `RefinesCapture`), so what is proved of either holds in it. That
  the breaker counts nothing but timeouts needs facts of both: the lock says that
  one activation is suspended at most, calls are only made for a capture that an
  activation awaits (`CallsAreAwaited`), hence the error lines the breaker last
  counted stay until the next capture (`CountIsMarked`), and such a line means that
  a timer fired (`TimersAbort`). `OneCaptureAtATime` is why one set of capture
  variables is enough in this model and one queue in the code.
* `WebServerProofs`, about the settings: for any number of overlapping requests, any
  interval, any bound on the time of a check, and any well-formed texts. Overlapping
  reads may overwrite a newer answer with an older one; that settings are recent all
  the same (`RecencyInv`) is a matter of when a version was last current, now or
  when it was replaced (`Gone`): what a request has read was not replaced before its
  check began, and the check takes no longer than its bound (`Recent`); hence the
  cache lets a version go in time, whichever of the reads it keeps
  (`CacheGoesInTime`). That what is not allowed stays as it is and what is
  restricted stays tight is a statement about `OverridableConfig` alone. One
  variable is excepted by name, the age of stale content (`KnownLoosening`), which
  the code takes as it comes; it is among those that stay as they are where they are
  not allowed. There is one lemma per variable (`BoundsAreHeld`, `LimitIsHeld`,
  `LimitsAreHeld`), and one for the limit of a tool, which two variables set
  together (`ToolLimitsAreHeld`): it is as low as without the request because the
  limits of tools are compared with the overall one that the same request set. In
  the configuration a `CASE` had arms whose guards overlap, which TLC resolves in
  order and the semantics of TLA+ does not; such arms are conditionals now, here and
  in `Paginate`. About the tools: for any set of calls whose scripts are sound, any
  content and bounds, whatever fails and however the content moves. What can be said
  of a script without running it is in `ScriptChecks`: which sessions are open
  before each of its steps, which bounds the content in hand is known to be within,
  which of them a check has fetched, on every way that leads there, the steps left
  out and the calls survived included. A script is sound (`Sound`) when that is kept
  from step to step, when every call finds its scope in the session it is made in,
  and when its end has no session open and knows the documented bounds. TLC
  evaluates that all scripts are (`ScriptsAssumption`), and the proofs use nothing
  else of them. The inductive invariant (`ToolInv`) is that what is known of the
  script before its next step is so in the state (`Reached`), and that each session
  Tableau holds is one the call is in or one whose sign-out failed (`Accounted`),
  also while a call that has ended leaves its sessions (`UnwindKeeps`); there is one
  lemma per kind of step. That sessions are returned and answers within bounds is
  the end of that; that calls are covered needs the step before (`CallingCovered`),
  and the scopes of the sessions the server opens for its own checks
  (`FetchScopes`). A tool that is added is proved about by adding its script: only
  the assumption is evaluated anew.
* `PaginateProofs`: for all lists, filters, limits and page sizes, and however the
  list changes between two pages. While it does not change, what has been read is a
  prefix of it as long as the pages that were read, and what has been kept is what
  the filter passes of this prefix (`PrefixIsKept`, `PagesAreRead`); the next page
  begins where the prefix ends (`PageIs`), and selecting from the two is selecting from
  the longer prefix (`WhereConcat`). A loop ends when the prefix is the list, or when
  enough has been kept, where a filter and flow runs want one more than the limit
  (`EndsInTime`, `Enough`): that one more is what makes `truncated` right. Once the list
  has changed, two conjuncts are left: what a loop over flow runs has kept, it has
  seen, so a run that comes twice is not new (`KeptOnce`), and a client has never
  more than the configured limit (`WithinCap`). Selecting is said by the indices of
  what is selected (`Lists`), because the library's `SelectSeq` is recursive; that the
  k-th of a set of indices exists and is unique (`NthFacts`, `NthIs`) is all the
  induction there is.
* `WidgetsProofs`: for any number of deliveries and panels, and for every size
  function. The bound of a push rests on the measured number being that of the text
  to be pushed, and on the assumption `BudgetAssumption` that the constant of the
  last rung fits. That nothing is given up which would have fitted is followed down
  the ladder (`Descent`): a text that fits was the richest candidate when it was
  measured and stays what it is, and one that does not was tried as it is, after
  every richer one. The rows are halved, so this needs that no count the ladder
  visits lies between a number and its half (`NextBelow`, `HalvingsNext`); nothing
  is assumed of the sizes, not even that trimming makes the text shorter. That
  element, bridge and link agree needs in addition that nothing is mounted in a page
  without the container (`MountsInThePage`). That a screen without a viz is
  explained (`ScreenIsExplained`) relates the container to what failed since a viz
  was mounted, over whatever deliveries came in between. A first click comes in time
  because a button that may still be clicked for the first time always has a tick
  ahead (`TickIsAhead`), and one call at a time is a matter of the button: it is
  enabled only while nothing is under way and nothing was answered (`Pending`).
* `HttpServerProofs`: for any requests, sessions, users, tools and scopes. Tokens of
  two logins are kept apart by their numbers, which are given out once and which
  neither a token nor the index is ahead of (`NumbersAreIssued`). That who is
  admitted is fresh needs bounds on each way a session gets into an answer: an entry
  of the cache ends no later than an interval and the time of one request after its
  session (`CacheIsFresh`), and a request which found its session alive began before
  that session ended (`WaitsAreBounded`); so an early validation that is late to
  answer does no harm. That a refusal suffices follows the scopes from the refusal
  into the token and on into the request (`TokenFollows`, `AskingFollows`). The
  sessions need ten conjuncts (`SessionsInv`), among them that the server of a
  session has the tools of the user who initialized it (`ServersKnown`) and that a
  call under way was allowed by them (`CallingOK`).

The theorems named `Disciplined`, `PushesDisciplined`, `PushIsSound` and `SoundGate`
state the properties of the runs, which are conjunctions of the invariants and
action properties proved one by one before them. `TypeOK` of the modules with
proofs, or the part of it their theorems need, `InOrder`, `HungMeansAborted`,
`PairStaysTogether` and the like are proved, and therefore no run repeats them;
the type invariants of the other modules have been checked by TLC. The inductive
invariants were checked by TLC on the instances of the runs before they were
proved.

The assumptions are those on constants, named in the modules that declare them or
that compose them (`GateAssumption`, `OAuthAssumption`, `SessionsAssumption`,
`DeliveryAssumption`, `PanelAssumption`, `BridgeAssumption`, `DesktopAssumption`,
`PulseAssumption`, `PaginateAssumption`, `TimeAssumption`); TLC evaluates them in
the runs. Those which say more than that a number is a number or that a value is
none of a set are `ClockAssumption`, that the interval of the settings is at least a
minute, which `config.ts:203-210` enforces; `TextsAssumption`, that a text is
absent, empty, malformed or a value of its variable's kind; and, in
`BudgetAssumption` and `PulseAssumption`, that the fixed text a push falls back to
fits. What the model leaves out (section 7) the proofs leave out too.

What is model-checked only:

* Liveness and `ENABLED`, which the prover does not handle: `InteractionIsCaptured`,
  `CaptureTerminates`, the fairness in `ImplementsBridge` and
  `ImplementsSingleFlight`, that entries of `ExpiringMap` go and long timers are
  called back, the ends of calls.
* That the scripts of the forty tools are sound: they are a table, which TLC goes
  through (`ScriptsAssumption`).

## 6. Findings

Three runs show the code at odds with what the repository says of it; they are
`expect: violation` in `PROJECT.json`.

* `mutation_guard_failed` (`FailedMeansUnchanged`). Every exception of the
  mutating request, the client's own timeout included, is recorded as `failed`
  (`confirmDeleteContent.ts:130`), which `auditRecord.ts:61` explains as "its REST
  call failed; the target is unchanged". TLC finds a `failed` record of a mutation
  that took place.
* `revocation` (`RevocationIsComplete`). Both grants await the encryption of the
  access token between reading a code or refresh token and deleting it
  (`token.ts:114, 219, 243`). A request that overlaps its own retry files a second
  refresh token of the same Tableau session, and the index keeps the later one
  only, while `revoke.ts:99-100` says that revoking "deletes any refresh tokens ...
  that are associated with the same Tableau session token".
* `list_pages` (`CollectsTotal`). `getPage` cuts a page to its first `limit` items
  and continues `MAX_PAGE_SIZE` further on (`paginate.ts:236-254`): a client that
  increments `pageNumber` as `listWorkbooks.ts:83` tells it to does not collect
  `totalAvailable` items.

The following were met while modelling. Each is stated as a property in its
module, and TLC refutes it there on an instance like those of section 4; no run
repeats them.

| Property (module) | The code | What is said of it |
|---|---|---|
| `TimedOutCaptureIsMarked` (`VizCapture`) | a timed-out reader call becomes a plain error line, and the capture may end without the line the breaker counts (`captureSummaryData.ts:79-80`) | "marks a timed-out capture with an error line starting like this" (`vizStateBridge.ts:36`) |
| `ExactlyOneRecord` (`MutationGuard`) | `resolveTarget`, `verify` and `establish` throw through without a record (`mutationGuard.ts:161, 175, 205`) | "exactly once per attempt" (`auditRecord.ts:5`) |
| `PanelApprovalIsHonoured` (`MutationGuard`) | the panel confirms without the tag of the preview, so an approval under another label is denied; it fails safe (`deleteWorkbookConfirmClient.ts:146-149`) | "the pending-deletion tag label used in the preview" (`confirmDeleteContent.ts:35`) |
| `BridgeIsOfTheMountedViz` (`WidgetDelivery`) | `showError` replaces the viz and leaves its bridge alive (`handleToolResult.ts:142-146, 175-189`) | "The bridge for the currently mounted viz, if any." (`handleToolResult.ts:56`) |
| `NoneTooLate` (`ConfirmPanel`) | after a failed call the countdown no longer runs and the approval never expires for the panel (`deleteWorkbookConfirmClient.ts:138-160`) | "don't even attempt past expiry" (line 139) |
| `WithoutIdAreKept` (`PulseStateBridge`) | insights without an id come last and are the first to be cut (`capturePulseState.ts:242`) | "are all kept" (line 228) |
| `NoScopesOfMissingTools` (`AuthGate`) | scopes of disabled tools are demanded (`authMiddleware.ts:163-204`, `scopes.ts:528-539`), which no authorization grants | "must not be advertised or enforced either" (`scopes.ts:423-425`) |
| `LevelIsTheClients` (`McpSessions`) | one level per process, reset by every new session (`notification.ts:22`, `express.ts:213`) | clients "can change the minimum level any time they want" (`env-vars.md:108`) |
| `ClientInfoIsPassed` (`McpSessions`) | without session management the server of a request knows no client (`express.ts:138`) | the client info is passed on "with each post-initialization request" (`server.ts:16-20`) |
| `ScopedAsDocumented` (`WebTools`) | a search returns views of other workbooks (`searchContentUtils.ts:302`), custom views ignore tags (`listCustomViews.ts:163`), `render-pulse-metric` ignores the bound on datasources | `tool-scoping.md`: only content within the bounds "will be included in the results" |
| `OwnSessionIsLive` (`WebTools`) | `generate-insight-cards` signs in again inside its own session (`generateInsightCardsTool.ts:185, 305`) | with one PAT that "will terminate any prior session" (`authentication/pat.md:40`) |
| `AllCallsAreCovered` (`WebTools`) | the confirm tools list tasks in a session without that scope (`resolveExtractRefreshTaskTarget.ts:49`, `scopes.ts:155-166`); the call fails, the target is shown by its id | "Required scopes: `tableau:tasks:read`" (`tasksMethods.ts:43`) |
| `RestrictedAgeHolds` (`SiteSettings`) | the stale-content variables ignore how an override is allowed (`overridableConfig.ts:478-496, 528-545`) | "request overrides can only narrow or maintain" (`request-overrides.md:58`) |
| `InvalidIsRefused` (`SiteSettings`) | a malformed restricted override of the limits is taken for an empty one (`overridableConfig.ts:617-623`) | "If the request override value is invalid, throw an error." (line 93) |
| `EmptyMeansRefused` (`SiteSettings`) | every error that is not axios's is cached as empty settings (`mcpSiteSettings.ts:61-80`) | only a 403 is to "cache with empty settings" (lines 70-71) |
| `ListedAreUsable` (`DesktopCalls`) | every entry of the manifest is listed, crashed or not, and addresses are kept (`listInstances.ts:36`, `sessionManager.ts:22-40`) | "List all running Tableau Desktop instances" (`listInstances.ts:22`) |

A rotated refresh token has no timer that deletes it (`token.ts:256-271`), unlike
the first; its expiry is looked at when it is used, so `TokensAreSound` holds.
What does hold of the audit is `MutationsAreAudited`: every mutation that was
sent has its record once its call has ended; only a stop of the server loses one.

## 7. Not modelled

* The text, the layout and the sanitizing of payloads; the order in which names
  and parameters are sorted; worksheets that share a name; an answer to a reader
  call that comes after the capture gave the call up, which the code ignores.
* The conversion of workbooks between XML and JSON and their validation in the
  desktop server: pure functions over documents.
* Parsing of the environment, features, logging, telemetry, prompts, schemas and
  SDKs, the stdio transport and the event stream of an MCP session: no state of
  their own beyond what the modules above hold, or input and output only.
* The retry helper; the algorithms of insight cards, stale content and query
  validation, and how results are shaped: computations inside one step of
  `WebTools`.
* `get-embed-token`, `revoke-access-token`, `reset-consent` and `record-event`: one
  request each, with no check and no session to keep.
* The documents and credentials of OAuth clients, and the cryptography and claims
  of tokens: a token is a value that its maker can recognise.
* Request logging and the choice of host of REST sessions.
