------------------------------ MODULE WebTools ------------------------------
(***************************************************************************)
(* One call of a web tool: the Tableau sessions it signs in to and out of   *)
(* (useRestApi), the allow-list checks it makes (resourceAccessChecker) and *)
(* the content its answer carries (logAndExecute).  Module ToolScripts says *)
(* what each tool does; here its steps run against a site whose content     *)
(* moves and is retagged at any time and where every request may fail.      *)
(*                                                                         *)
(* Content is abstracted to what the bounded context tells apart: whether   *)
(* its project, tags, datasource, workbook and view are allowed ones.  The  *)
(* ids of an item never change; its project and tags may, so every fetch    *)
(* returns them afresh.                                                     *)
(***************************************************************************)
EXTENDS ToolScripts

CONSTANTS Calls,      \* the <<tool, kind of content>> pairs explored
          AuthModes   \* of "jwt", "pat", "bearer"

Dims      == {"project", "tag", "datasource", "workbook", "view"}
Snapshots == [Dims -> BOOLEAN]

(* The tools and the kinds of content they are asked for.                   *)
AllCalls ==
  {"get-workbook", "list-workbooks"} \X {"workbook"}
  \cup {"get-view", "get-view-data", "get-view-image", "list-views", "list-custom-views",
        "get-custom-view-data", "get-custom-view-image"} \X {"view"}
  \cup {<<"list-views", "view by id">>}
  \cup {"render-interactive-viz"} \X {"view", "workbook"}
  \cup {"search-content"} \X {"datasource", "workbook", "view"}
  \cup {"list-projects"} \X {"project"}
  \cup {"list-datasources", "resolve-datasource-luid", "get-datasource-metadata",
        "query-datasource"} \X {"datasource"}
  \cup {"generate-insight-cards"} \X {"datasource", "datasource by url"}
  \cup {"list-flows"} \X {"flow"}
  \cup {"get-flow"} \X {"flow", "flow, connections", "flow, runs", "flow, both"}
  \cup {"list-flow-runs", "list-flow-tasks"} \X {"unplaced"}
  \cup {"list-all-pulse-metric-definitions", "list-pulse-metric-definitions-from-definition-ids",
        "list-pulse-metrics-from-metric-definition-id", "list-pulse-metrics-from-metric-ids",
        "list-pulse-metric-subscriptions", "generate-pulse-insight-brief",
        "generate-pulse-metric-value-insight-bundle", "render-pulse-metric"} \X {"metric"}
  \cup {"list-extract-refresh-tasks"} \X {"datasource task", "workbook task"}
  \cup {"query-workbook-datasource", "list-jobs", "list-users", "update-user",
        "update-cloud-extract-refresh-task",
        "confirm-update-cloud-extract-refresh-task"} \X {"none"}
  \cup {"query-admin-insights"} \X {"none", "stale"}
  \cup {"delete-content"} \X {"workbook", "datasource", "none"}
  \cup {"confirm-delete-content"} \X {"confirmed workbook", "confirmed datasource", "none"}

Script(t, kind) ==
  CASE t = "get-workbook"            -> GetWorkbook
    [] t = "list-workbooks"          -> ListWorkbooks
    [] t = "get-view"                -> GetView
    [] t = "get-view-data"           -> GetViewData
    [] t = "get-view-image"          -> GetViewImage
    [] t = "list-views"              -> ListViews(kind = "view by id")
    [] t = "list-custom-views"       -> ListCustomViews
    [] t = "get-custom-view-data"    -> GetCustomViewData
    [] t = "get-custom-view-image"   -> GetCustomViewImage
    [] t = "render-interactive-viz"  -> RenderInteractiveViz(kind)
    [] t = "search-content"          -> SearchContent(kind)
    [] t = "list-projects"           -> ListProjects
    [] t = "list-datasources"        -> ListDatasources
    [] t = "resolve-datasource-luid" -> ResolveDatasourceLuid
    [] t = "get-datasource-metadata" -> GetDatasourceMetadata
    [] t = "query-datasource"        -> QueryDatasource
    [] t = "query-workbook-datasource" -> QueryWorkbookDatasource
    [] t = "generate-insight-cards"  -> GenerateInsightCards(kind = "datasource by url")
    [] t = "list-flows"              -> ListFlows
    [] t = "get-flow" -> GetFlow(kind \in {"flow, connections", "flow, both"},
                                 kind \in {"flow, runs", "flow, both"})
    [] t = "list-flow-runs"          -> ListFlowRuns
    [] t = "list-flow-tasks"         -> ListFlowTasks
    [] t = "list-all-pulse-metric-definitions" -> ListAllPulseMetricDefinitions
    [] t = "list-pulse-metric-definitions-from-definition-ids" ->
         ListPulseMetricDefinitionsFromDefinitionIds
    [] t = "list-pulse-metrics-from-metric-definition-id" ->
         ListPulseMetricsFromMetricDefinitionId
    [] t = "list-pulse-metrics-from-metric-ids" -> ListPulseMetricsFromMetricIds
    [] t = "list-pulse-metric-subscriptions"    -> ListPulseMetricSubscriptions
    [] t = "generate-pulse-insight-brief"       -> GeneratePulseInsightBrief
    [] t = "generate-pulse-metric-value-insight-bundle" ->
         GeneratePulseMetricValueInsightBundle
    [] t = "render-pulse-metric"     -> RenderPulseMetric
    [] t = "list-extract-refresh-tasks" -> ListExtractRefreshTasks
    [] t = "list-jobs"               -> ListJobs
    [] t = "list-users"              -> ListUsers
    [] t = "query-admin-insights"    -> QueryAdminInsights(kind = "stale")
    [] t = "update-user"             -> UpdateUser
    [] t = "update-cloud-extract-refresh-task" -> UpdateCloudExtractRefreshTask
    [] t = "confirm-update-cloud-extract-refresh-task" ->
         ConfirmUpdateCloudExtractRefreshTask
    [] t = "delete-content"          -> DeleteContent(kind)
    [] t = "confirm-delete-content"  ->
         ConfirmDeleteContent(CASE kind = "confirmed workbook"   -> "workbook"
                                [] kind = "confirmed datasource" -> "datasource"
                                [] OTHER                         -> "task")

Scripts == [c \in Calls |-> Script(c[1], c[2])]

-----------------------------------------------------------------------------
VARIABLES
  call,      \* the tool and kind of content called
  ctx,       \* the dimensions the bounded context bounds
  auth,      \* how the server authenticates to Tableau
  pc,        \* the next step of the script
  sessions,  \* the Tableau sessions open, innermost last
  settings,  \* have the site settings been read, and cached
  item,      \* the content in hand: the one asked for, or one of those listed
  fetched,   \* did the check leave the content for the tool to use
  last,      \* the last REST call: the method, the scopes and must of its caller
  held,      \* how many sessions Tableau holds that this call signed in to
  missed,    \* how many of its sign-outs failed
  outcome,   \* what the call has come to while it still signs out, or "none"
  answer     \* "none" while running, "content", "empty" or "error"

teardown == <<held, missed>>
vars == <<call, ctx, auth, pc, sessions, settings, item, fetched, last, teardown, outcome,
          answer>>
asked == <<call, ctx, auth>>
ends  == <<outcome, answer>>

NoCall == [method |-> "none", scopes |-> {}, must |-> FALSE]

TypeOK ==
  /\ call \in Calls /\ ctx \in SUBSET Dims /\ auth \in AuthModes
  /\ pc \in 1..(Len(Scripts[call]) + 1)
  /\ \A i \in DOMAIN sessions : sessions[i].live \in BOOLEAN
  /\ settings \in BOOLEAN /\ fetched \in BOOLEAN
  /\ item \in Snapshots
  /\ outcome \in {"none", "empty", "error"}
  /\ answer \in {"none", "content", "empty", "error"}

Here    == Scripts[call][pc]
Running == outcome = "none" /\ answer = "none"
At(ops) == Running /\ pc <= Len(Scripts[call]) /\ Here.op \in ops

(* The project and the tags of an item are what they are when fetched.      *)
Afresh(s)     == {f \in Snapshots : \A d \in Dims \ {"project", "tag"} : f[d] = s[d]}
Allowed(s, dims) == \A d \in dims \cap ctx : s[d]

(* External: signing in with a personal access token ends the session it     *)
(* had.                                                                      *)
Ended == IF auth = "pat" THEN [i \in DOMAIN sessions |-> [sessions[i] EXCEPT !.live = FALSE]]
         ELSE sessions

Goto(n) == pc' = n

(* The tool ends where it is; the sessions it is in are left one by one.      *)
End(a) == outcome' = a /\ UNCHANGED <<asked, pc, sessions, settings, item, fetched, answer>>

(* A step whose failure the tool survives leaves out the steps that hang on it. *)
Failed == IF Here.must THEN End("error")
          ELSE /\ Goto(pc + 1 + Here.skip)
               /\ UNCHANGED <<asked, sessions, settings, item, fetched, ends>>

Init ==
  /\ call \in Calls /\ ctx \in SUBSET Dims /\ auth \in AuthModes
  /\ item \in {s \in Snapshots : ~s["project"] /\ ~s["tag"]}
  /\ pc = 1 /\ sessions = << >> /\ settings = FALSE /\ fetched = FALSE
  /\ last = NoCall /\ held = 0 /\ missed = 0 /\ outcome = "none" /\ answer = "none"

-----------------------------------------------------------------------------
(* useRestApi                                                                *)

(* A bearer token is no session of the call's own, and is never signed out.   *)
Ephemeral == auth # "bearer"

(* What signing in adds to: with a personal access token, nothing is left.   *)
Prior == IF auth = "pat" THEN 0 ELSE held

SignInStep ==
  /\ At({"signIn"})
  /\ last' = last
  /\ \/ /\ sessions' = Append(Ended, [scopes |-> Here.arg, live |-> TRUE])
        /\ held' = IF Ephemeral THEN Prior + 1 ELSE held
        /\ Goto(pc + 1)
        /\ UNCHANGED <<asked, settings, item, fetched, missed, ends>>
     \/ Failed /\ UNCHANGED teardown

Top == sessions[Len(sessions)]

(* The finally of the innermost useRestApi.  Tableau refuses to sign out a    *)
(* session that is over; whatever fails is logged, and no more.              *)
LeaveSession ==
  /\ sessions' = SubSeq(sessions, 1, Len(sessions) - 1)
  /\ \/ Ephemeral /\ Top.live /\ held' = held - 1 /\ UNCHANGED missed
     \/ Ephemeral /\ missed' = missed + 1 /\ UNCHANGED held
     \/ ~Ephemeral /\ UNCHANGED teardown

\* Mutant: a failed sign-out takes the place of what the callback returned.
SignOutStep_Throws ==
  /\ At({"signOut"})
  /\ LeaveSession
  /\ IF missed' > missed
     THEN outcome' = "error" /\ UNCHANGED <<pc, answer>>
     ELSE Goto(pc + 1) /\ UNCHANGED ends
  /\ UNCHANGED <<asked, settings, item, fetched, last>>
SignOutStep ==
  /\ At({"signOut"})
  /\ LeaveSession
  /\ Goto(pc + 1)
  /\ UNCHANGED <<asked, settings, item, fetched, last, ends>>

(* The call has ended in the middle of its sessions: the innermost is left.  *)
Unwind ==
  /\ outcome # "none" /\ sessions # << >>
  /\ LeaveSession
  /\ UNCHANGED <<asked, pc, settings, item, fetched, last, ends>>

(* A session of the checker's or of the site settings' own, begun and ended  *)
(* within one step; its sign-out may fail as well.                           *)
Aside(method, scopes) ==
  /\ last' = [method |-> method, scopes |-> scopes, must |-> TRUE]
  /\ IF Ephemeral
     THEN \/ held' = Prior /\ UNCHANGED missed
          \/ held' = Prior + 1 /\ missed' = missed + 1
     ELSE UNCHANGED teardown

Silent == UNCHANGED <<last, teardown>>

-----------------------------------------------------------------------------
(* getConfigWithOverrides: read once, then served from the cache.  A 403     *)
(* reads as no settings; any other refusal fails the call.                   *)
ReadSettings ==
  /\ At({"config", "check", "lookUp"}) /\ ~settings
  /\ \/ /\ settings' = TRUE
        /\ \/ Silent /\ UNCHANGED sessions
           \/ Aside("getMcpSiteSettings", {SiteSettings}) /\ sessions' = Ended
        /\ UNCHANGED <<asked, pc, item, fetched, ends>>
     \/ Aside("getMcpSiteSettings", {SiteSettings}) /\ End("error")

ConfigStep ==
  /\ At({"config"}) /\ settings
  /\ Goto(pc + 1)
  /\ UNCHANGED <<asked, sessions, settings, item, fetched, last, teardown, ends>>

-----------------------------------------------------------------------------
(* resourceAccessChecker: the ids it can compare at once, then the dimensions *)
(* one fetch decides, and the call and scopes of that fetch.                 *)

DatasourceCheck == [ids |-> {"datasource"}, fetch |-> {"project", "tag"},
                    method |-> "queryDatasource", scopes |-> CheckerScopes]
WorkbookCheck   == [ids |-> {"workbook"}, fetch |-> {"project", "tag"},
                    method |-> "getWorkbook", scopes |-> CheckerScopes]
\* Mutant: the flow is fetched with the scopes of the other checks.
FlowCheck_BasicScopes ==
                   [ids |-> {}, fetch |-> {"project", "tag"},
                    method |-> "queryFlow", scopes |-> CheckerScopes]
FlowCheck       == [ids |-> {}, fetch |-> {"project", "tag"},
                    method |-> "queryFlow", scopes |-> FlowCheckerScopes]
ViewCheck       == [ids |-> {"view"}, fetch |-> {"workbook", "project", "tag"},
                    method |-> "getView", scopes |-> CheckerScopes]
CheckOf(kind) == CASE kind = "datasource" -> DatasourceCheck
                   [] kind = "workbook"   -> WorkbookCheck
                   [] kind = "flow"       -> FlowCheck
                   [] kind = "view"       -> ViewCheck

CheckStep ==
  /\ At({"check"}) /\ settings
  /\ LET c == CheckOf(Here.arg)
     IN \/ ~Allowed(item, c.ids) /\ Silent /\ End("error")
        \/ /\ Allowed(item, c.ids) /\ c.fetch \cap ctx = {}
           /\ Goto(pc + 1)
           /\ UNCHANGED <<asked, sessions, settings, item, fetched, last, teardown, ends>>
        \/ /\ Allowed(item, c.ids) /\ c.fetch \cap ctx # {}
           /\ \E s \in Afresh(item) :
                /\ Allowed(s, c.fetch)
                /\ item' = s /\ fetched' = TRUE
           /\ Aside(c.method, c.scopes) /\ sessions' = Ended
           /\ Goto(pc + 1)
           /\ UNCHANGED <<asked, settings, ends>>
        \/ \* Refused, or the fetch failed: not allowed either way.
           /\ Allowed(item, c.ids) /\ c.fetch \cap ctx # {}
           /\ Aside(c.method, c.scopes) /\ End("error")

(* isCustomViewAllowed looks the underlying view up when anything is bounded. *)
LookUpStep ==
  /\ At({"lookUp"}) /\ settings
  /\ IF ctx \cap {"workbook", "project", "view", "tag"} = {}
     THEN /\ Goto(pc + 1)
          /\ UNCHANGED <<asked, sessions, settings, item, fetched, last, teardown, ends>>
     ELSE /\ Aside("getCustomView", CheckerScopes)
          /\ \/ /\ sessions' = Ended /\ Goto(pc + 1)
                /\ UNCHANGED <<asked, settings, item, fetched, ends>>
             \/ End("error")

-----------------------------------------------------------------------------
(* REST calls in the tool's own session.                                     *)

Calling == /\ last' = [method |-> Here.arg, scopes |-> Top.scopes, must |-> Here.must]
           /\ UNCHANGED teardown
(* External: Tableau answers a live session whose token covers the method.   *)
Served == Top.live /\ (auth = "jwt" => RequiredScope[Here.arg] \in Top.scopes)

Next1    == Goto(pc + 1) /\ UNCHANGED <<asked, sessions, settings, fetched, ends>>
NotThere == Goto(pc + 1 + Here.skip) /\ UNCHANGED <<asked, sessions, settings, fetched, ends>>

CallStep ==
  /\ At({"call", "may"})
  /\ Calling
  /\ \/ Served /\ Next1 /\ UNCHANGED item
     \/ Failed

(* What is not there is an answer too.                                       *)
FindStep ==
  /\ At({"find"})
  /\ Calling
  /\ \/ Served /\ UNCHANGED item /\ (Next1 \/ NotThere)
     \/ Failed

(* A call that the input or the configuration spares, or a cached admin role. *)
SpareStep ==
  /\ At({"may", "admin"})
  /\ Next1 /\ UNCHANGED <<item, last, teardown>>

(* assertAdmin, when the role is not cached.                                 *)
AdminStep ==
  /\ At({"admin"})
  /\ Calling
  /\ \/ Served /\ Next1 /\ UNCHANGED item
     \/ Failed

(* What the check fetched is what the tool answers.                          *)
\* Mutant: the tool fetches what the check has fetched, and answers the second.
KeptStep_Refetched ==
  /\ At({"kept"})
  /\ Calling
  /\ \/ Served /\ Next1 /\ item' \in Afresh(item)
     \/ Failed
KeptStep ==
  /\ At({"kept"})
  /\ IF fetched
     THEN Next1 /\ UNCHANGED <<item, last, teardown>>
     ELSE /\ Calling
          /\ \/ Served /\ Next1 /\ item' \in Afresh(item)
             \/ Failed

(* A listing returns any content of the site, or any view of a workbook: the  *)
(* views share their workbook and its project, not its tags.                 *)
Listed(op) == IF op = "list" THEN Snapshots
              ELSE {f \in Snapshots : \A d \in Dims \ {"view", "tag"} : f[d] = item[d]}
ListStep ==
  /\ At({"list", "listOf"})
  /\ Calling
  /\ \/ Served /\ Next1 /\ item' \in Listed(Here.op)
     \/ Failed

-----------------------------------------------------------------------------
(* Arguments and answers.                                                    *)

ArgStep ==
  /\ At({"arg"})
  /\ Silent
  /\ \/ Next1 /\ UNCHANGED item
     \/ End("error")

WithinStep ==
  /\ At({"within"})
  /\ Silent
  /\ IF Allowed(item, Here.arg) THEN Next1 /\ UNCHANGED item ELSE End("error")

UnderStep ==
  /\ At({"under"})
  /\ Goto(IF Here.arg \cap ctx = {} THEN pc + 1 + Here.skip ELSE pc + 1)
  /\ UNCHANGED <<asked, sessions, settings, item, fetched, last, teardown, ends>>

KeepStep ==
  /\ At({"filter"})
  /\ Silent
  /\ IF Allowed(item, Here.arg) THEN Next1 /\ UNCHANGED item ELSE End("empty")

RefuseStep ==
  /\ At({"refuse"})
  /\ Silent
  /\ IF Here.arg \cap ctx = {} THEN Next1 /\ UNCHANGED item ELSE End("empty")

(* logAndExecute: the steps are through, or the call has ended and left its   *)
(* sessions, and is answered.                                                *)
AnswerStep ==
  /\ answer = "none"
  /\ \/ outcome = "none" /\ pc > Len(Scripts[call]) /\ answer' = "content"
     \/ outcome # "none" /\ sessions = << >> /\ answer' = outcome
  /\ UNCHANGED <<asked, pc, sessions, settings, item, fetched, last, teardown, outcome>>

Next ==
  \/ SignInStep \/ SignOutStep \/ Unwind \/ ReadSettings \/ ConfigStep \/ CheckStep \/ LookUpStep
  \/ CallStep \/ FindStep \/ SpareStep \/ AdminStep \/ KeptStep \/ ListStep
  \/ ArgStep \/ WithinStep \/ UnderStep \/ KeepStep \/ RefuseStep \/ AnswerStep

Spec == Init /\ [][Next]_vars

-----------------------------------------------------------------------------
(* What the docs say each kind of content is bounded by.  Flow runs and flow  *)
(* tasks have no project to compare; a confirmed deletion was checked when    *)
(* it was previewed.                                                         *)
BoundsOf(kind) ==
  CASE kind = "workbook"                            -> {"workbook", "project", "tag"}
    [] kind \in {"view", "view by id"}              -> {"view", "workbook", "project", "tag"}
    [] kind \in {"datasource", "datasource by url"} -> {"datasource", "project", "tag"}
    [] kind \in {"flow", "flow, connections", "flow, runs", "flow, both", "unplaced"} ->
         {"project", "tag"}
    [] kind = "project"                             -> {"project"}
    [] kind \in {"metric", "datasource task"}       -> {"datasource"}
    [] kind = "workbook task"                       -> {"workbook"}
    [] OTHER                                        -> {}

(* Where the code is known to look at less: ScopedAsDocumented shows the first *)
(* two.                                                                      *)
KnownGap(c) ==
  CASE c = <<"search-content", "view">>        -> {"workbook"}
    [] c = <<"list-custom-views", "view">>     -> {"tag"}
    [] c = <<"render-pulse-metric", "metric">> -> {"datasource"}
    [] OTHER                                   -> {}

(* Content that a tool answers with is within the bounded context as the     *)
(* answer shows it, although items move between projects and change tags     *)
(* while the tool checks one fetch and may answer from another               *)
(* (resourceAccessChecker's content, reused with `??' by the tools).         *)
AnswerIsWithinBounds ==
  answer = "content" => Allowed(item, BoundsOf(call[2]) \ KnownGap(call))

(* Every REST call whose failure would fail the tool is made in a session    *)
(* whose token carries the scope the call requires: the tool's entry in      *)
(* toolScopeMap, the checker's scopes, or the scopes built for the call.     *)
CallsAreCovered ==
  auth = "jwt" /\ last.must => RequiredScope[last.method] \in last.scopes

(* Whatever fails in a call, in a session inside another and in the sign-outs *)
(* themselves, the call answers only when it is out of all its sessions, and   *)
(* Tableau then holds no more of them than there were sign-outs that failed;   *)
(* and no failed sign-out, as that of a session which signing in again has     *)
(* ended, is what a call fails of (restApiInstance.ts:162-207).               *)
SessionsAreReturned ==
  answer # "none" => /\ sessions = << >>
                     /\ held <= missed
                     /\ answer = "error" => Here.op # "signOut"

-----------------------------------------------------------------------------
(* tool-scoping.md: only views from the workbooks named, and with the tags    *)
(* named, "will be included in the results of the tools".                    *)
ScopedAsDocumented == answer = "content" => Allowed(item, BoundsOf(call[2]))

(* pat.md: signing in again with the same token "will terminate any prior     *)
(* session": a tool that has yet to call in its session must not have done so. *)
OwnSessionIsLive == At({"call", "list"}) => Top.live

(* tasksMethods: listing the tasks requires the scope `tableau:tasks:read'.   *)
AllCallsAreCovered == auth = "jwt" /\ last # NoCall => RequiredScope[last.method] \in last.scopes
=============================================================================
