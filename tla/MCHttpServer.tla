------------------------------ MODULE MCHttpServer ------------------------------
(***************************************************************************)
(* HttpServer for TLC: a tool with scopes of both kinds, one with an API   *)
(* scope only and one that is not registered; requests that overlap on the *)
(* same code or token; users whose sites allow different tools.  As the    *)
(* components share no state, each behaviour is one of one of them while   *)
(* the others rest in an initial state.                                    *)
(***************************************************************************)
EXTENDS HttpServer, TLC

CONSTANTS u1, u2, t1, listViews, getEmbedToken, listFlows

MCMcpScopes == listViews :> {"view:read"} @@ getEmbedToken :> {} @@ listFlows :> {"flow:read"}
MCApiScopes == listViews :> {"content:read"} @@ getEmbedToken :> {"views:embed"}
                   @@ listFlows :> {"flows:read"}
MCInclude   == u1 :> {} @@ u2 :> {t1}
MCExclude   == u1 :> {t1} @@ u2 :> {}

\* Requests are interchangeable.
Symmetry == Permutations(Validation) \cup Permutations(Grant) \cup Permutations(Request)

VARIABLE running   \* "gate", "oauth" or "sessions"

GateRests    == Gate!Init /\ ~enforceScopes /\ ~advertiseApiScopes
SessionsRest == Sessions!Init /\ ~stateless /\ ~breakGlass

MCInit == \/ running = "gate" /\ Gate!Init /\ OAuth!Init /\ SessionsRest
          \/ running = "oauth" /\ GateRests /\ OAuth!Init /\ SessionsRest
          \/ running = "sessions" /\ GateRests /\ OAuth!Init /\ Sessions!Init

GateRuns    == running = "gate" /\ Gate!Next /\ UNCHANGED <<running, oauthVars, sessionsVars>>
OAuthRuns   == running = "oauth" /\ OAuth!Next /\ UNCHANGED <<running, gateVars, sessionsVars>>
SessionsRun == running = "sessions" /\ Sessions!Next /\ UNCHANGED <<running, gateVars, oauthVars>>

MCNext == GateRuns \/ OAuthRuns \/ SessionsRun

MCSpec == MCInit /\ [][MCNext]_<<running, gateVars, oauthVars, sessionsVars>>
=============================================================================
