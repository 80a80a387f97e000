----------------------------- MODULE ToolScripts -----------------------------
(***************************************************************************)
(* What each web tool does, as the sequence of steps that matter to the     *)
(* Tableau session it works in and to the content it hands back: sign-ins,  *)
(* allow-list checks, REST calls, filtering.  One definition per tool is    *)
(* its callback and its constrainSuccessResult, in the order of the code;   *)
(* module WebTools runs them.                                               *)
(***************************************************************************)
EXTENDS Integers, Sequences, TLC

-----------------------------------------------------------------------------
(* The steps.  `must' tells whether a failure of the step ends the tool with *)
(* an error; when it does not, or when what it asks for is not there and that *)
(* is an answer, `skip' further steps are left out.                          *)

Step(op, arg, must, skip) == [op |-> op, arg |-> arg, must |-> must, skip |-> skip]

Config       == Step("config", "", TRUE, 0)      \* extra.getConfigWithOverrides()
Arg          == Step("arg", "", TRUE, 0)         \* a check that may end the call, with no content
Check(kind)  == Step("check", kind, TRUE, 0)     \* resourceAccessChecker.isXAllowed
LookUp       == Step("lookUp", "", TRUE, 0)      \* the custom view's underlying view
SignIn(sc)   == Step("signIn", sc, TRUE, 0)      \* useRestApi begins
SignOut      == Step("signOut", {}, TRUE, 0)     \* useRestApi ends
Admin        == Step("admin", "queryUserOnSite", TRUE, 0)  \* assertAdmin
Call(m)      == Step("call", m, TRUE, 0)         \* a REST call
May(m)       == Step("may", m, TRUE, 0)          \* a REST call only some inputs make
Find(m, skip) == Step("find", m, TRUE, skip)   \* a REST call whose 404 is an empty answer
Try(m, skip) == Step("may", m, FALSE, skip)      \* a best-effort REST call
Kept(m)      == Step("kept", m, TRUE, 0)         \* `checked.content ?? await call'
List(m)      == Step("list", m, TRUE, 0)         \* a REST call that lists content
ListOf(m)    == Step("listOf", m, TRUE, 0)       \* ... of the workbook in hand
Keep(dims)   == Step("filter", dims, TRUE, 0)    \* drop what is outside these bounds
Refuse(dims) == Step("refuse", dims, TRUE, 0)    \* answer nothing under these bounds
Within(dims) == Step("within", dims, TRUE, 0)    \* an argument outside these bounds is an Err
Under(dims, skip) == Step("under", dims, FALSE, skip)  \* steps only these bounds call for
TrySignIn(sc, skip) == Step("signIn", sc, FALSE, skip)

-----------------------------------------------------------------------------
(* The scope each REST method asks of the session that calls it.            *)

DatasourcesMethods ==
  [m \in {"listDatasources", "queryDatasource"} |-> "content:read"]
  @@ "deleteDatasource" :> "datasources:delete"
  @@ "addTagsToDatasource" :> "datasource_tags:update"
WorkbooksMethods ==
  [m \in {"getWorkbook", "queryWorkbooksForSite"} |-> "content:read"]
  @@ "deleteWorkbook" :> "workbooks:delete"
  @@ "addTagsToWorkbook" :> "workbook_tags:update"
ViewsMethods ==
  [m \in {"getView", "listCustomViews", "getCustomView", "queryViewsForWorkbook",
          "queryViewsForSite"} |-> "content:read"]
  @@ [m \in {"queryViewData", "queryViewImage", "getCustomViewData", "getCustomViewImage"}
        |-> "views:download"]
FlowsMethods ==
  [m \in {"queryFlow", "queryFlowsForSite"} |-> "flows:read"]
  @@ "queryFlowConnections" :> "flow_connections:read"
  @@ "getFlowRuns" :> "flow_runs:read"
TasksMethods ==
  "listExtractRefreshTasks" :> "tasks:read"
  @@ "deleteExtractRefreshTask" :> "tasks:delete"
  @@ "updateCloudExtractRefreshTask" :> "tasks:write"
  @@ "getFlowRunTasks" :> "flow_tasks:read"
JobsMethods == "listJobs" :> "jobs:read"
UsersMethods ==
  [m \in {"listUsers", "queryUserOnSite"} |-> "users:read"]
  @@ "updateUser" :> "users:update"
ProjectsMethods == "queryProjects" :> "content:read"
ContentExplorationMethods == "searchContent" :> "content:read"
MetadataMethods == "graphql" :> "content:read"
McpSettingsMethods == "getMcpSiteSettings" :> "mcp_site_settings:read"
VizqlDataServiceMethods ==
  [m \in {"vds.queryDatasource", "readMetadata", "getDatasourceModel",
          "readWorkbookDatasourceMetadata", "queryWorkbookDatasource"}
     |-> "viz_data_service:read"]
PulseMethods ==
  [m \in {"listAllPulseMetricDefinitions",
          "listPulseMetricDefinitionsFromMetricDefinitionIds",
          "listPulseMetricsFromMetricDefinitionId"} |-> "insight_definitions_metrics:read"]
  @@ "listPulseMetricsFromMetricIds" :> "insight_metrics:read"
  @@ "listPulseMetricSubscriptionsForCurrentUser" :> "metric_subscriptions:read"
  @@ "generatePulseInsightBrief" :> "insight_brief:create"
  @@ "generatePulseMetricValueInsightBundle" :> "insights:read"

RequiredScope ==
  DatasourcesMethods @@ WorkbooksMethods @@ ViewsMethods @@ FlowsMethods @@ TasksMethods
    @@ JobsMethods @@ UsersMethods @@ ProjectsMethods @@ ContentExplorationMethods
    @@ MetadataMethods @@ McpSettingsMethods @@ VizqlDataServiceMethods @@ PulseMethods

-----------------------------------------------------------------------------
(* The scopes a tool signs in with.                                         *)

SiteSettings  == "mcp_site_settings:read"
CheckerScopes == {"content:read", SiteSettings}  \* RESOURCE_ACCESS_CHECKER_REQUIRED_API_SCOPES
FlowCheckerScopes == {"flows:read", SiteSettings}

ContentToolScopes ==
  [t \in {"list-datasources", "list-workbooks", "list-projects", "list-views",
          "list-custom-views", "resolve-datasource-luid", "get-workbook", "get-view",
          "search-content", "render-interactive-viz"} |-> CheckerScopes]
  @@ [t \in {"get-view-data", "get-view-image", "get-custom-view-data",
             "get-custom-view-image"} |-> {"views:download"} \cup CheckerScopes]
  @@ [t \in {"query-datasource", "get-datasource-metadata"} |->
        {"viz_data_service:read"} \cup CheckerScopes]
  @@ "query-workbook-datasource" :> {"viz_data_service:read", SiteSettings}
  @@ "list-flows" :> FlowCheckerScopes
  @@ "list-flow-tasks" :> {"flow_tasks:read", SiteSettings}

PulseAndAdminToolScopes ==
  [t \in {"list-all-pulse-metric-definitions",
          "list-pulse-metric-definitions-from-definition-ids",
          "list-pulse-metrics-from-metric-definition-id"} |->
     {"insight_definitions_metrics:read", SiteSettings}]
  @@ "list-pulse-metrics-from-metric-ids" :> {"insight_metrics:read", SiteSettings}
  @@ "list-pulse-metric-subscriptions" :>
       {"metric_subscriptions:read", "insight_metrics:read", SiteSettings}
  @@ "generate-pulse-metric-value-insight-bundle" :> {"insights:read", SiteSettings}
  @@ "generate-pulse-insight-brief" :> {"insight_brief:create", SiteSettings}
  @@ "generate-insight-cards" :>
       {"insights:read", "viz_data_service:read"} \cup CheckerScopes
  @@ "render-pulse-metric" :>
       {"insight_metrics:read", "insight_definitions_metrics:read", SiteSettings}
  @@ "query-admin-insights" :> {"viz_data_service:read", "users:read"} \cup CheckerScopes
  @@ "list-extract-refresh-tasks" :> {"tasks:read", "users:read"}
  @@ [t \in {"update-cloud-extract-refresh-task",
             "confirm-update-cloud-extract-refresh-task"} |-> {"tasks:write", "users:read"}]
  @@ "list-jobs" :> {"jobs:read", "users:read"}
  @@ "list-users" :> {"users:read"}
  @@ "update-user" :> {"users:update", "users:read"}
  @@ "delete-content" :>
       {"workbooks:delete", "workbook_tags:update", "datasources:delete",
        "datasource_tags:update", "tasks:read", "tasks:delete", "users:read"} \cup CheckerScopes
  @@ "confirm-delete-content" :>
       {"workbooks:delete", "workbook_tags:update", "datasources:delete",
        "datasource_tags:update", "tasks:delete", "users:read"} \cup CheckerScopes

ApiScopes(t) == (ContentToolScopes @@ PulseAndAdminToolScopes)[t]

-----------------------------------------------------------------------------
(* Content tools.                                                           *)

GetWorkbook ==
  << Config, Check("workbook"), SignIn(ApiScopes("get-workbook")), Kept("getWorkbook"),
     May("queryViewsForWorkbook"), Try("graphql", 0), SignOut >>
GetView ==
  << Config, Check("view"), SignIn(ApiScopes("get-view")), Kept("getView"),
     Try("graphql", 0), SignOut >>
GetViewData ==
  << Check("view"), SignIn(ApiScopes("get-view-data")), Call("queryViewData"), SignOut >>
GetViewImage ==
  << Arg, Check("view"), SignIn(ApiScopes("get-view-image")), Call("queryViewImage"),
     SignOut >>
GetCustomViewData ==
  << LookUp, Check("view"), SignIn(ApiScopes("get-custom-view-data")),
     Call("getCustomViewData"), SignOut >>
GetCustomViewImage ==
  << Arg, LookUp, Check("view"), SignIn(ApiScopes("get-custom-view-image")),
     Call("getCustomViewImage"), SignOut >>
RenderInteractiveViz(kind) ==
  << Check(kind), SignIn(ApiScopes("render-interactive-viz")),
     Kept(IF kind = "view" THEN "getView" ELSE "getWorkbook"), SignOut >>

ListWorkbooks ==
  << Config, Arg, SignIn(ApiScopes("list-workbooks")), List("queryWorkbooksForSite"),
     Try("graphql", 0), SignOut, Keep({"project", "workbook", "tag"}) >>
(* Under a bound on views, and with no filter, the views one by one.         *)
ListViews(byId) ==
  << Config, Arg, SignIn(ApiScopes("list-views")),
     List(IF byId THEN "getView" ELSE "queryViewsForSite"), Try("graphql", 0), SignOut,
     Keep({"view", "project", "workbook", "tag"}) >>
ListDatasources ==
  << Config, Arg, SignIn(ApiScopes("list-datasources")), List("listDatasources"), SignOut,
     Keep({"project", "datasource", "tag"}) >>
ListProjects ==
  << Config, Arg, SignIn(ApiScopes("list-projects")), List("queryProjects"), SignOut,
     Keep({"project"}) >>
(* The workbook is checked; of the custom views only the view ids are.      *)
ListCustomViews ==
  << Config, Arg, Check("workbook"), SignIn(ApiScopes("list-custom-views")),
     Kept("getWorkbook"), ListOf("listCustomViews"), SignOut, Keep({"view"}) >>
SearchContent(kind) ==
  << Config, SignIn(ApiScopes("search-content")), List("searchContent"),
     Try("graphql", 0), SignOut, Keep({"project", "tag", kind}) >>

ResolveDatasourceLuid ==
  << SignIn(ApiScopes("resolve-datasource-luid")), List("listDatasources"), Arg,
     Check("datasource"), SignOut >>
GetDatasourceMetadata ==
  << Arg, Config, Check("datasource"), SignIn(ApiScopes("get-datasource-metadata")),
     Call("readMetadata"), May("getDatasourceModel"), Try("graphql", 0), SignOut >>
QueryDatasource ==
  << Arg, Config, Check("datasource"), SignIn(ApiScopes("query-datasource")),
     May("readMetadata"), Arg, May("vds.queryDatasource"), Arg,
     Call("vds.queryDatasource"), SignOut >>
(* No allow-list check: the workbook's datasource has no id to check.       *)
QueryWorkbookDatasource ==
  << Arg, Config, SignIn(ApiScopes("query-workbook-datasource")),
     May("readWorkbookDatasourceMetadata"), Arg, May("queryWorkbookDatasource"), SignOut >>

-----------------------------------------------------------------------------
(* Flow tools.                                                              *)

ListFlows ==
  << Config, Arg, SignIn(ApiScopes("list-flows")), List("queryFlowsForSite"), SignOut,
     Keep({"project", "tag"}) >>
(* The scopes are built for the call: the sidecars' only when asked for.    *)
GetFlow(connections, runs) ==
  << Check("flow"),
     SignIn(FlowCheckerScopes
              \cup (IF connections THEN {"flow_connections:read"} ELSE {})
              \cup (IF runs THEN {"flow_runs:read"} ELSE {})),
     Kept("queryFlow") >>
  \o (IF connections THEN << Try("queryFlowConnections", 0) >> ELSE << >>)
  \o (IF runs THEN << Try("getFlowRuns", 0) >> ELSE << >>)
  \o << SignOut >>
(* Under a flowId filter no such flow is no runs.  The failure insight signs  *)
(* in a second time, with the flow scope only.                               *)
ListFlowRuns ==
  << Config, Arg, SignIn({"flow_runs:read", SiteSettings}), Find("getFlowRuns", 3),
     TrySignIn({"flows:read"}, 2), Try("queryFlow", 0), SignOut,
     SignOut, Refuse({"project", "tag"}) >>
ListFlowTasks ==
  << Config, Arg, SignIn(ApiScopes("list-flow-tasks")), Call("getFlowRunTasks"), SignOut,
     Refuse({"project", "tag"}) >>

-----------------------------------------------------------------------------
(* Pulse tools.                                                             *)

ListAllPulseMetricDefinitions ==
  << Config, SignIn(ApiScopes("list-all-pulse-metric-definitions")),
     List("listAllPulseMetricDefinitions"), SignOut, Keep({"datasource"}) >>
ListPulseMetricDefinitionsFromDefinitionIds ==
  << SignIn(ApiScopes("list-pulse-metric-definitions-from-definition-ids")),
     List("listPulseMetricDefinitionsFromMetricDefinitionIds"), SignOut, Config,
     Keep({"datasource"}) >>
ListPulseMetricsFromMetricDefinitionId ==
  << SignIn(ApiScopes("list-pulse-metrics-from-metric-definition-id")),
     List("listPulseMetricsFromMetricDefinitionId"), SignOut, Config, Keep({"datasource"}) >>
ListPulseMetricsFromMetricIds ==
  << SignIn(ApiScopes("list-pulse-metrics-from-metric-ids")),
     List("listPulseMetricsFromMetricIds"), SignOut, Config, Keep({"datasource"}) >>
(* The subscriptions carry no datasource: under a bound a second session     *)
(* reads their metrics.                                                      *)
ListPulseMetricSubscriptions ==
  << SignIn(ApiScopes("list-pulse-metric-subscriptions")),
     List("listPulseMetricSubscriptionsForCurrentUser"), SignOut, Config,
     Under({"datasource"}, 4), SignIn(ApiScopes("list-pulse-metric-subscriptions")),
     Call("listPulseMetricsFromMetricIds"), SignOut, Keep({"datasource"}) >>
GeneratePulseInsightBrief ==
  << Config, Arg, Within({"datasource"}),
     SignIn(ApiScopes("generate-pulse-insight-brief")), Call("generatePulseInsightBrief"),
     SignOut >>
GeneratePulseMetricValueInsightBundle ==
  << Arg, Config, Within({"datasource"}),
     SignIn(ApiScopes("generate-pulse-metric-value-insight-bundle")),
     Call("generatePulseMetricValueInsightBundle"), SignOut >>
(* No bound is looked at: the tool names any metric it can read.            *)
RenderPulseMetric ==
  << SignIn(ApiScopes("render-pulse-metric")), List("listPulseMetricsFromMetricIds"), Arg,
     Call("listPulseMetricDefinitionsFromMetricDefinitionIds"), SignOut >>

(* resolveDatasource: by LUID the check comes first; by content URL the      *)
(* listing does.                                                             *)
ResolveForCards(byUrl) ==
  IF byUrl
  THEN << List("listDatasources"), Arg, Check("datasource") >>
  ELSE << Check("datasource"), Try("queryDatasource", 0) >>
(* runInsightBundle: a session of its own for every measure.                *)
RunInsightBundle ==
  << SignIn(ApiScopes("generate-insight-cards")),
     Try("generatePulseMetricValueInsightBundle", 0), SignOut >>
GenerateInsightCards(byUrl) ==
  << SignIn(ApiScopes("generate-insight-cards")) >> \o ResolveForCards(byUrl)
  \o << Call("readMetadata"), Arg >> \o RunInsightBundle \o RunInsightBundle
  \o << Arg, SignOut >>

-----------------------------------------------------------------------------
(* Admin tools.                                                             *)

ListExtractRefreshTasks ==
  << Config, Arg, SignIn(ApiScopes("list-extract-refresh-tasks")), Admin,
     List("listExtractRefreshTasks"), SignOut, Keep({"datasource", "workbook"}) >>
ListJobs ==
  << Arg, SignIn(ApiScopes("list-jobs")), Admin, Call("listJobs"), SignOut >>
ListUsers ==
  << Config, Arg, SignIn(ApiScopes("list-users")), Admin, Call("listUsers"), SignOut >>
(* executeAdminInsightsQuery: the dataset's LUID, from the cache or looked up. *)
ExecuteAdminInsightsQuery ==
  << May("listDatasources"), Arg, Call("vds.queryDatasource") >>
QueryAdminInsights(stale) ==
  (IF stale THEN << Config >> ELSE << Config, Arg >>)
  \o << SignIn(ApiScopes("query-admin-insights")), Admin >>
  \o (IF stale THEN << May("queryProjects"), Arg >> ELSE << >>)
  \o ExecuteAdminInsightsQuery \o << SignOut >>

ResolveOwnerEmail == << Try("queryUserOnSite", 0) >>
(* The first failure ends the resolution and leaves the id only.            *)
ResolveExtractRefreshTaskTarget(listed) ==
  (IF listed THEN << >> ELSE << Try("listExtractRefreshTasks", 2) >>)
  \o << Try("queryDatasource", 1), Try("queryUserOnSite", 0) >>

UpdateUser ==
  << SignIn(ApiScopes("update-user")), Admin, Call("queryUserOnSite"), Arg,
     May("updateUser"), SignOut >>
UpdateCloudExtractRefreshTask ==
  << SignIn(ApiScopes("update-cloud-extract-refresh-task")), Arg, Admin >>
  \o ResolveExtractRefreshTaskTarget(FALSE)
  \o << Arg, May("updateCloudExtractRefreshTask"), SignOut >>
ConfirmUpdateCloudExtractRefreshTask ==
  << SignIn(ApiScopes("confirm-update-cloud-extract-refresh-task")), Admin >>
  \o ResolveExtractRefreshTaskTarget(FALSE)
  \o << Arg, Call("updateCloudExtractRefreshTask"), SignOut >>

(* The check runs inside the tool's own session.                            *)
DeleteWorkbook ==
  << Check("workbook"), Admin, Kept("getWorkbook") >> \o ResolveOwnerEmail
  \o << May("addTagsToWorkbook"), May("getWorkbook"), Arg, May("deleteWorkbook") >>
DeleteDatasource ==
  << Check("datasource"), Admin, Kept("queryDatasource") >> \o ResolveOwnerEmail
  \o << May("addTagsToDatasource"), May("queryDatasource"), Arg, May("deleteDatasource"),
        Try("graphql", 0) >>
DeleteExtractRefreshTask ==
  << Call("listExtractRefreshTasks"), Arg, Admin >>
  \o ResolveExtractRefreshTaskTarget(TRUE) \o << Arg, May("deleteExtractRefreshTask") >>
DeleteContent(kind) ==
  << Config, Arg, SignIn(ApiScopes("delete-content")), Arg >>
  \o (CASE kind = "workbook"   -> DeleteWorkbook
        [] kind = "datasource" -> DeleteDatasource
        [] OTHER               -> DeleteExtractRefreshTask)
  \o << SignOut >>
ConfirmDeleteContent(kind) ==
  << SignIn(ApiScopes("confirm-delete-content")), Admin >>
  \o (CASE kind = "workbook" ->
             << Call("getWorkbook") >> \o ResolveOwnerEmail
             \o << Call("getWorkbook"), Arg, Call("deleteWorkbook") >>
        [] kind = "datasource" ->
             << Call("queryDatasource") >> \o ResolveOwnerEmail
             \o << Call("queryDatasource"), Arg, Call("deleteDatasource") >>
        [] OTHER ->
             ResolveExtractRefreshTaskTarget(FALSE)
             \o << Arg, Call("deleteExtractRefreshTask") >>)
  \o << SignOut >>
=============================================================================
