--------------------------- MODULE WidgetDelivery ---------------------------
(***************************************************************************)
(* handleToolResult (web/apps/src/embed): what the viz widget does with    *)
(* the tool results its host delivers, and re-delivers.  A delivery runs   *)
(* to its first await, the loading of the Embedding API, then to its       *)
(* second, the minting of a token, and then mounts its viz, stops the      *)
(* previous bridge and starts its own in one go.  Nothing orders           *)
(* deliveries that overlap, and a viz that was replaced may still report a *)
(* load error.  The Pulse widget is the same code around another element;  *)
(* what differs are the events by which its element reports an error.      *)
(***************************************************************************)
EXTENDS Naturals

CONSTANTS
    MaxDeliveries,  \* bound: deliveries of the host
    ErrorUI,        \* the container shows the error UI
    Nothing         \* an empty container, no bridge, no link

\* What the constants are assumed to be.
DeliveryAssumption == /\ MaxDeliveries \in Nat
                      /\ {ErrorUI, Nothing} \cap (1 .. MaxDeliveries) = {}
                      /\ ErrorUI # Nothing

Delivery == 1 .. MaxDeliveries

\* What a delivery holds: nothing, an error, no payload, or a payload with a
\* URL and perhaps the identity of the content.
Result == {"none", "error", "empty", "unparseable", "render", "renderWithData"}

VARIABLES
    widget,      \* "viz" or "pulse"
    result,      \* what was delivered
    pc,          \* where each delivery is suspended
    container,   \* ErrorUI, Nothing, or the delivery whose element is mounted
    mountPoint,  \* the page has the container element
    elements,    \* the deliveries whose element was mounted, ever
    bridges,     \* the deliveries whose bridge has not been disposed of
    disposer,    \* disposeBridge: whose bridge it stops
    link,        \* the URL "Open in Tableau" opens
    failed       \* history: since a viz was last mounted, a failure was reported

page == <<widget, mountPoint>>
watch == <<bridges, disposer, link>>
vars == <<page, elements, result, pc, container, watch, failed>>

Init == /\ widget \in {"viz", "pulse"}
        /\ elements = {}
        /\ result = [d \in Delivery |-> "none"]
        /\ pc = [d \in Delivery |-> "todo"]
        /\ container = Nothing
        /\ mountPoint \in BOOLEAN
        /\ bridges = {}
        /\ disposer = Nothing
        /\ link = Nothing
        /\ failed = FALSE

-----------------------------------------------------------------------------
\* showError: the error UI takes the place of whatever is mounted.
ShowError == container' = IF mountPoint THEN ErrorUI ELSE container

\* A failure that whoever watches the viz has to know of.
Fail == ShowError /\ failed' = TRUE

Settle(d) == pc' = [pc EXCEPT ![d] = "done"]

\* Mutant: the bridge is asked instead of the page.
IsVizMounted_ByItsBridge == disposer # Nothing

\* isVizMounted, isPulseMounted.
IsVizMounted == container \in Delivery

Arrives(d, r) ==
    /\ \A e \in Delivery : (e < d) <=> (pc[e] # "todo")
    /\ pc[d] = "todo"
    /\ result' = [result EXCEPT ![d] = r]
    /\ UNCHANGED <<page, elements, watch>>

\* An error result is shown, at once, in place of the viz.
ErrorDelivery(d) ==
    /\ Arrives(d, "error")
    /\ Fail
    /\ Settle(d)

EmptyDelivery(d) ==
    /\ Arrives(d, "empty")
    /\ Settle(d)
    /\ UNCHANGED <<container, failed>>

\* PARSE_ERROR only surfaces while nothing is rendered yet.
UnparseableDelivery(d) ==
    /\ Arrives(d, "unparseable")
    /\ IF IsVizMounted THEN UNCHANGED container ELSE ShowError
    /\ Settle(d)
    /\ UNCHANGED failed

RenderDelivery(d, r) ==
    /\ r \in {"render", "renderWithData"}
    /\ Arrives(d, r)
    /\ pc' = [pc EXCEPT ![d] = "load"]
    /\ UNCHANGED <<container, failed>>

-----------------------------------------------------------------------------
\* The script loads and defines the element, in time.
ApiLoads(d) ==
    /\ pc[d] = "load"
    /\ pc' = [pc EXCEPT ![d] = "mint"]
    /\ UNCHANGED <<page, elements, result, container, watch, failed>>

\* No custom elements, no script, or 15 seconds without the element.
ApiFailsToLoad(d) ==
    /\ pc[d] = "load"
    /\ Fail
    /\ Settle(d)
    /\ UNCHANGED <<page, elements, result, watch>>

\* callGetEmbedTokenTool throws: no capability, an error result, no token.
MintFails(d) ==
    /\ pc[d] = "mint"
    /\ Fail
    /\ Settle(d)
    /\ UNCHANGED <<page, elements, result, watch>>

\* embedTableauViz, embedTableauPulse.
Embed(d) == IF mountPoint
            THEN container' = d /\ elements' = elements \cup {d} /\ failed' = FALSE
            ELSE UNCHANGED <<container, elements, failed>>

\* Mutant: the previous bridge is only stopped when a new one takes over.
ReplaceBridge_OnlyByANewOne(d, starts) ==
    /\ bridges' = IF starts THEN (bridges \ {disposer}) \cup {d} ELSE bridges
    /\ disposer' = IF starts THEN d ELSE disposer

\* The previous bridge is stopped, and one is started on the new element.
ReplaceBridge(d, starts) ==
    /\ bridges' = (bridges \ {disposer}) \cup (IF starts THEN {d} ELSE {})
    /\ disposer' = IF starts THEN d ELSE Nothing

\* setupOpenInTableauLink: any link is removed, and one to the new URL added
\* if the host can open links.
SetupOpenInTableauLink(d) == link' \in {d, Nothing}

\* startVizStateBridge may throw: the viz stays, unwatched.
MintSucceeds(d) ==
    /\ pc[d] = "mint"
    /\ Embed(d)
    /\ \E starts \in BOOLEAN :
          /\ starts => mountPoint /\ result[d] = "renderWithData"
          /\ ReplaceBridge(d, starts)
    /\ SetupOpenInTableauLink(d)
    /\ Settle(d)
    /\ UNCHANGED <<page, result>>

-----------------------------------------------------------------------------
(* The element reports an error, also when it is no longer mounted.        *)

VizLoadError(d) ==
    /\ widget = "viz"
    /\ d \in elements
    /\ Fail
    /\ UNCHANGED <<page, elements, result, pc, watch>>

\* A pulseerror, or the navigation to the session-expired context.
PulseError(d) ==
    /\ widget = "pulse"
    /\ d \in elements
    /\ Fail
    /\ UNCHANGED <<page, elements, result, pc, watch>>

\* A bridge whose channel is wedged disposes of itself; disposeBridge still
\* points to it.
BridgeGivesUp(d) ==
    /\ d \in bridges
    /\ bridges' = bridges \ {d}
    /\ UNCHANGED <<page, elements, result, pc, container, disposer, link, failed>>

HandleToolResult(d) ==
    \/ ErrorDelivery(d)
    \/ EmptyDelivery(d)
    \/ UnparseableDelivery(d)
    \/ \E r \in Result : RenderDelivery(d, r)
    \/ ApiLoads(d)
    \/ ApiFailsToLoad(d)
    \/ MintFails(d)
    \/ MintSucceeds(d)

Next == \E d \in Delivery : \/ HandleToolResult(d)
                            \/ VizLoadError(d)
                            \/ PulseError(d)
                            \/ BridgeGivesUp(d)

Spec == Init /\ [][Next]_vars

-----------------------------------------------------------------------------
(* Properties.                                                             *)

\* However deliveries overlap, and with bridges that give up by themselves,
\* the pieces of the page agree: a mounted viz is watched by no bridge but
\* its own and offered by no link but its own, and no bridge escapes
\* disposeBridge (handleToolResult.ts:190-217).
PageIsConsistent ==
    /\ bridges \subseteq {disposer}
    /\ container \in Delivery => /\ bridges \subseteq {container}
                                 /\ link \in {container, Nothing}

\* What is on screen has a reason, however deliveries overlap and whatever
\* became of the bridge.  A viz that was mounted is gone only after a failure
\* that was reported since: results of other tools do not take it away.  And
\* once all deliveries have settled, one that had something to say has left
\* the viz or its error there, not an empty page (handleToolResult.ts:141-196).
ScreenIsExplained ==
    mountPoint =>
       /\ elements # {} /\ ~failed => container \in Delivery
       /\ /\ \A d \in Delivery : pc[d] \in {"todo", "done"}
          /\ \E d \in Delivery : result[d] \notin {"none", "empty"}
          => container # Nothing

\* What the comment on disposeBridge says: a live bridge is "the bridge for
\* the currently mounted viz" (handleToolResult.ts:56).  The code leaves the
\* bridge alive when an error takes the place of its viz.
BridgeIsOfTheMountedViz == \A d \in bridges : d = container
=============================================================================
