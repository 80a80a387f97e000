------------------------------ MODULE McpSessions ------------------------------
(***************************************************************************)
(* The MCP endpoint over HTTP: index.ts, server/express.ts, sessions.ts,   *)
(* server.web.ts, server.ts and logging/notification.ts.                   *)
(*                                                                         *)
(* An initialize request makes a server, registers the tools its user's    *)
(* site allows, connects it to a transport and, unless session management  *)
(* is disabled, files the transport under a new session id: here, the      *)
(* request itself.  Later requests find the transport by that id; in       *)
(* stateless mode each has a server of its own, gone with its response.    *)
(* Requests overlap while tools are registered and while a tool runs.  The *)
(* level below which nothing is sent to clients is one variable of the     *)
(* process.                                                                *)
(***************************************************************************)
EXTENDS Naturals

CONSTANTS
    Request,           \* requests, in the order the program happens to get them
    Client, User, Tool,
    Include, Exclude,  \* what each user's site says of tools
    DefaultLevel,      \* DEFAULT_NOTIFICATION_LEVEL, of 0 .. MaxLevel
    NoticeLevel, MaxLevel,
    None

\* What the callback of a tool may answer before the tool runs.
Refusals == {"unknown tool", "unavailable", "bad header"}

\* What the constants are assumed to be.
SessionsAssumption ==
    /\ {DefaultLevel, NoticeLevel} \subseteq 0 .. MaxLevel
    /\ Include \in [User -> SUBSET Tool] /\ Exclude \in [User -> SUBSET Tool]
    /\ None \notin Request \cup Client \cup User \cup Tool \cup Refusals

Level == 0 .. MaxLevel
Header == {"", "narrowed", "malformed"}   \* x-tableau-mcp-config

VARIABLES
    stateless, breakGlass,   \* configuration
    started,    \* "open": the port; "ready": server info known; "exited"
    req,        \* requests: what was asked, how far it is, what came of it
    sessions,   \* ids of the sessions on file
    server,     \* the servers made: tools registered, client info passed
    level,      \* currentNotificationLevel
    asked,      \* history: the level last set for a server, by itself or its client
    lastLog,    \* history: was a notification wanted, was it sent
    measured    \* requests whose latency was recorded

config == <<stateless, breakGlass>>
notices == <<level, asked, lastLog>>
vars == <<config, started, req, sessions, server, notices, measured>>

Idle == [at |-> "idle"]

Init == /\ stateless \in BOOLEAN /\ breakGlass \in BOOLEAN
        /\ started = "open"
        /\ req = [r \in Request |-> Idle]
        /\ sessions = {}
        /\ server = [r \in Request |-> None]
        /\ level = 0
        /\ asked = [r \in Request |-> DefaultLevel]
        /\ lastLog = None
        /\ measured = {}

At(r, where) == req[r].at = where
Q(r) == req[r].ask

\* The request is answered; if a tool was called, the time it took is recorded.
Answer(r, ask, how) ==
    /\ req' = [req EXCEPT ![r] = [at |-> "done", ask |-> ask, how |-> how]]
    /\ measured' = IF ask.kind = "call" THEN measured \cup {r} ELSE measured

\* The request is over, in one of these ways.
Has(r, ways) == At(r, "done") /\ req[r].how \in ways

-----------------------------------------------------------------------------
(* Startup: the port is open before the server info is known.              *)

ServerInfoReady == /\ started = "open"
                   /\ started' = "ready"
                   /\ UNCHANGED <<config, req, sessions, server, notices, measured>>

\* Fatal: process.exit(1) takes every session and request along.
ServerInfoFails ==
    /\ started = "open"
    /\ started' = "exited"
    /\ req' = [r \in Request |-> IF At(r, "done") THEN req[r] ELSE Idle]
    /\ sessions' = {}
    /\ server' = [r \in Request |-> None]
    /\ UNCHANGED <<config, notices, measured>>

-----------------------------------------------------------------------------
(* Receiving.  The server a request is served by is named by the request   *)
(* that made it.                                                           *)

MakesServer(ask) == \/ stateless
                    \/ ask.kind = "initialize" /\ ask.sid = None

\* handlePingRequest, ahead of everything that could refuse.
Ping(r, ask) == /\ ask.kind = "ping"
                /\ Answer(r, ask, "pong")
                /\ UNCHANGED <<sessions, server, notices>>

\* GET and DELETE need a session; in stateless mode there is none.
MethodNotAllowed(r, ask) == /\ stateless
                            /\ ask.kind \in {"stream", "delete"}
                            /\ Answer(r, ask, "405")
                            /\ UNCHANGED <<sessions, server, notices>>

\* No session of this id, and no initialize without one: 400.
Rejected(r, ask) ==
    /\ ~stateless
    /\ ask.kind # "ping"
    /\ ask.sid \notin sessions
    /\ ~MakesServer(ask)
    /\ Answer(r, ask, "400")
    /\ UNCHANGED <<sessions, server, notices>>

\* createMcpServer: a new WebMcpServer; its tools are awaited.
NewServer(r, ask) ==
    /\ ask.kind \notin {"ping", "stream", "delete"}
    /\ MakesServer(ask)
    /\ server' = [server EXCEPT ![r] = [tools |-> {},
                     client |-> IF stateless THEN None ELSE ask.client]]
    /\ req' = [req EXCEPT ![r] = [at |-> "registering", ask |-> ask]]
    /\ UNCHANGED <<sessions, notices, measured>>

-----------------------------------------------------------------------------
(* Notifications.                                                          *)

\* getSendNotificationMessageFn: what is below the level of the process stays here.
Notified(s, l, lvl, wanted) == lastLog' = [wanted |-> l >= wanted, sent |-> l >= lvl]

\* setNotificationLevel: for a server, by itself or by its client.
SetNotificationLevel(s, l) ==
    /\ asked' = [asked EXCEPT ![s] = l]
    /\ level' = l
    /\ IF l = level THEN UNCHANGED lastLog ELSE Notified(s, NoticeLevel, l, l)

-----------------------------------------------------------------------------
(* A message reaches its server's handlers.  External: what the MCP SDK's  *)
(* transport does with it.                                                 *)

ToolsToRegister(u) ==
    {t \in Tool : /\ Include[u] # {} => t \in Include[u]
                  /\ t \notin Exclude[u]}

\* transport.onclose.
DeleteSession(s) == sessions \ {s}

\* What it does answer, of Refusals, or None.
Refusal(ask, tools) == IF ask.tool \notin tools THEN "unknown tool"
                       ELSE IF breakGlass THEN "unavailable"
                       ELSE IF ask.header = "malformed" THEN "bad header"
                       ELSE None

CallTool(r, ask, s, tools) ==
    IF Refusal(ask, tools) # None
    THEN Answer(r, ask, Refusal(ask, tools))
    ELSE /\ req' = [req EXCEPT ![r] = [at |-> "calling", ask |-> ask, on |-> s, luid |-> None]]
         /\ UNCHANGED measured

Deliver(r, ask, s, tools) ==
    \/ /\ ask.kind = "call"
       /\ CallTool(r, ask, s, tools)
       /\ UNCHANGED sessions
    \/ /\ ask.kind = "delete"
       /\ sessions' = DeleteSession(s)
       /\ req' = [x \in Request |->
                    IF x = r THEN [at |-> "done", ask |-> ask, how |-> "closed"]
                    ELSE IF At(x, "calling") /\ req[x].on = s
                         THEN [at |-> "done", ask |-> Q(x), how |-> "dropped"]
                    ELSE req[x]]
       /\ measured' = measured \cup {x \in Request : At(x, "calling") /\ req[x].on = s}
    \/ /\ ask.kind \in {"stream", "setLevel"}
       /\ Answer(r, ask, "ok")
       /\ UNCHANGED sessions

\* A request for a session on file.  The SDK refuses to initialize it again.
OnSession(r, ask) ==
    /\ ~stateless
    /\ ask.kind # "ping"
    /\ ask.sid \in sessions
    /\ \/ ask.kind = "initialize" /\ Answer(r, ask, "400") /\ UNCHANGED sessions
       \/ Deliver(r, ask, ask.sid, server[ask.sid].tools)
    /\ IF ask.kind = "setLevel" THEN SetNotificationLevel(ask.sid, ask.level)
                                ELSE UNCHANGED notices
    /\ UNCHANGED server

Receive(r, ask) ==
    /\ started # "exited"
    /\ At(r, "idle")
    /\ \/ Ping(r, ask) \/ MethodNotAllowed(r, ask) \/ Rejected(r, ask)
       \/ NewServer(r, ask) \/ OnSession(r, ask)
    /\ UNCHANGED <<config, started>>

\* connect failed: no session is filed, 500.
OnFile(r) == sessions

RegisterFails(r) ==
    /\ At(r, "registering")
    /\ Answer(r, Q(r), "500")
    /\ sessions' = OnFile(r)
    /\ UNCHANGED <<config, started, server, notices>>

\* registerTools: as tools with or without an app's resource.
Connected(r) == [server[r] EXCEPT !.tools = ToolsToRegister(Q(r).user)]

\* registerTools is done: connect, and the message is handed to the transport.
Registered(r) ==
    /\ At(r, "registering")
    /\ IF Q(r).kind = "initialize"
       THEN /\ server' = [server EXCEPT ![r] = [Connected(r) EXCEPT !.client = Q(r).client]]
            /\ Answer(r, Q(r), "initialized")
            /\ sessions' = IF stateless THEN sessions ELSE sessions \cup {r}
       ELSE /\ server' = [server EXCEPT ![r] = Connected(r)]
            /\ Deliver(r, Q(r), r, Connected(r).tools)
    /\ SetNotificationLevel(r, IF Q(r).kind = "setLevel" THEN Q(r).level ELSE DefaultLevel)
    /\ UNCHANGED <<config, started>>

-----------------------------------------------------------------------------
(* A tool that runs.                                                       *)

\* Mutant: what a call learns of its user is kept on the server.
SetUserLuid_Shared(r) ==
    [x \in Request |-> IF At(x, "calling") /\ req[x].on = req[r].on
                       THEN [req[x] EXCEPT !.luid = Q(r).user] ELSE req[x]]

\* setUserLuid, on the extra of this call.
SetUserLuid(r) == [req EXCEPT ![r].luid = Q(r).user]

SignsIn(r) == /\ At(r, "calling")
              /\ req[r].luid = None
              /\ req' = SetUserLuid(r)
              /\ UNCHANGED <<config, started, sessions, server, notices, measured>>

\* Something the tool does is logged, through the server of the call.
Logs(r, l) == /\ At(r, "calling")
              /\ Notified(req[r].on, l, level, asked[req[r].on])
              /\ UNCHANGED <<config, started, req, sessions, server, level, asked, measured>>

\* getUserLuid falls back on the request's token.
UserLuid(r) == IF req[r].luid = None THEN Q(r).user ELSE req[r].luid

Answers(r) ==
    /\ At(r, "calling")
    /\ req' = [req EXCEPT ![r] = [at |-> "done", ask |-> Q(r), how |-> "called",
                                  user |-> UserLuid(r), client |-> server[req[r].on].client]]
    /\ measured' = measured \cup {r}
    /\ UNCHANGED <<config, started, sessions, server, notices>>

\* The client is gone before the answer: its stateless server is closed.
HangsUp(r) == /\ stateless
              /\ At(r, "calling")
              /\ req' = [req EXCEPT ![r] = [at |-> "done", ask |-> Q(r), how |-> "dropped"]]
              /\ UNCHANGED <<config, started, sessions, server, notices, measured>>

\* Clients: an id they send is one they were given.
Known(c) == {r \in Request : ~stateless /\ Has(r, {"initialized"}) /\ Q(r).client = c}
               \cup {None}

Asks(c, u) ==
    [client : {c}, user : {u}, sid : Known(c), kind : {"initialize", "ping", "stream", "delete"}]
      \cup [client : {c}, user : {u}, sid : Known(c), kind : {"call"}, tool : Tool,
            header : Header]
      \cup [client : {c}, user : {u}, sid : Known(c), kind : {"setLevel"}, level : Level]

Next == \/ ServerInfoReady \/ ServerInfoFails
        \/ \E r \in Request :
             \/ \E c \in Client, u \in User : \E ask \in Asks(c, u) : Receive(r, ask)
             \/ RegisterFails(r) \/ Registered(r) \/ SignsIn(r) \/ Answers(r) \/ HangsUp(r)
             \/ \E l \in Level : Logs(r, l)

Spec == Init /\ [][Next]_vars

-----------------------------------------------------------------------------
(* Properties.                                                             *)

\* The sessions on file are those that were initialized and not closed since,
\* whatever fails or overlaps; in stateless mode there are none (sessions.ts).
SessionsAreLive ==
    started # "exited" =>
    sessions = {r \in Request : /\ ~stateless
                                /\ Has(r, {"initialized"})
                                /\ \A x \in Request : Has(x, {"closed"}) => Q(x).sid # r}

\* A tool runs for the user and with the overrides of its own request, though
\* another user's call may run on the same server, and as a tool the session's
\* initialize request found allowed (server.web.ts:49).
CallsAreTheirOwn ==
    \A r \in Request : Has(r, {"called"}) =>
        /\ req[r].user = Q(r).user
        /\ Q(r).header # "malformed" /\ ~breakGlass
        /\ LET maker == IF stateless THEN r ELSE Q(r).sid IN
           Q(r).tool \in ToolsToRegister(Q(maker).user)

\* What is refused for want of a session has none: it named none, or one that
\* was closed, or asked to initialize a session anew (express.ts:150).
RejectedHadNone ==
    \A r \in Request : Has(r, {"400"}) =>
        \/ Q(r).kind = "initialize" \/ Q(r).sid = None
        \/ \E x \in Request : Has(x, {"closed"}) /\ Q(x).sid = Q(r).sid

\* Latencies are those of tool calls, of every one answered (latencyMiddleware.ts).
MeasuredAreCalls ==
    /\ {r \in Request : Has(r, {"called"})} \subseteq measured
    /\ \A r \in measured : Q(r).kind = "call"

\* Sessions, calls, refusals and latencies stay what they should be while
\* requests overlap with each other and with deletes and failures.
SessionsAreSound == /\ SessionsAreLive
                    /\ CallsAreTheirOwn
                    /\ RejectedHadNone
                    /\ MeasuredAreCalls

\* docs/mcp-config/env-vars.md:108: "Note that MCP clients can change the minimum
\* level any time they want": what is sent to the client of a session follows
\* the level last set for it.
LevelIsTheClients == ~stateless /\ lastLog # None => lastLog.sent = lastLog.wanted

\* server.ts:16: the client info of the initialization request is passed to the
\* server of each later one.
ClientInfoIsPassed ==
    \A r \in Request : Has(r, {"called"}) /\ (\E x \in Request : Has(x, {"initialized"})
                                                       /\ Q(x).client = Q(r).client)
        => req[r].client = Q(r).client
=============================================================================
