-------------------------------- MODULE Widgets --------------------------------
(***************************************************************************)
(* What shows tool results in an iframe of the host: the deliveries to the *)
(* widget of a viz or a Pulse metric (WidgetDelivery) and the panels in    *)
(* which a human confirms (ConfirmPanel).  They share no state, so their   *)
(* steps interleave freely.                                                *)
(***************************************************************************)
EXTENDS Naturals

CONSTANTS
    MaxDeliveries, ErrorUI, Nothing,
    Resource, Life, Interval, MaxResults, MaxClicks, MaxTime

VARIABLES
    widget, result, pc, container, mountPoint, elements, bridges, disposer, link,
    failed,
    panels, error, clicks, now

deliveryVars == <<widget, result, pc, container, mountPoint, elements, bridges, disposer, link,
                  failed>>
panelVars    == <<panels, error, clicks, now>>

Delivery == INSTANCE WidgetDelivery

Panel == INSTANCE ConfirmPanel

\* What the components assume of their constants.
ASSUME DeliveryAssumption == Delivery!DeliveryAssumption
ASSUME PanelAssumption    == Panel!PanelAssumption

PageInit == Delivery!Init /\ Panel!Init

PageNext == \/ Delivery!Next /\ UNCHANGED panelVars
            \/ Panel!Next /\ UNCHANGED deliveryVars

PageSpec == PageInit /\ [][PageNext]_<<deliveryVars, panelVars>>

-----------------------------------------------------------------------------
(* Properties.                                                             *)

\* However deliveries overlap, element, bridge and link agree (handleToolResult.ts:190-217).
PageIsConsistent == Delivery!PageIsConsistent

\* What is on screen has a reason: no viz is lost to another tool's result, and no
\* delivery that had something to say leaves the page empty (handleToolResult.ts:141-196).
ScreenIsExplained == Delivery!ScreenIsExplained

\* Panels do what the human who clicks is shown (deleteWorkbookConfirmClient.ts:72-165).
PanelsAreHonest == Panel!PanelsAreHonest
=============================================================================
