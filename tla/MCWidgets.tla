------------------------------- MODULE MCWidgets -------------------------------
(***************************************************************************)
(* What runs in the iframes of the widgets: the deliveries of tool results *)
(* to one, three that may overlap; the confirmation panels, two of them on *)
(* two resources; the Pulse state bridge, with costs and a budget such     *)
(* that every rung of its ladder is the first to fit in some state; and    *)
(* the ladder of the viz, with sizes that are a linear function of the     *)
(* parts of a text: parts that dominate one at a time and, with overhead,  *)
(* a trim that makes the text longer, as a valuesTruncated flag may.  They *)
(* share no state, so each behaviour is one of one of them while the       *)
(* others rest in an initial state.                                        *)
(***************************************************************************)
EXTENDS Widgets, VizPushBudget, PulseState, TLC

CONSTANTS v1, None

VARIABLES
    running  \* "delivery", "panels", "pulse" or "budget"

PulseCost == [metric |-> 2, caveat |-> 1, time |-> 1, question |-> 1, prose |-> 2,
              filters |-> 3, values |-> 2, error |-> 2, failure |-> 1]

MCWeights == [base : {1, 9}, row : {1, 3}, mark : {0, 4}, full : {2, 8},
              squeezed : {1, 4}, pair : {1, 6}]

MCSnapshot ==
    {p \in [form : {"snapshot"}, data : BOOLEAN, rows : 0 .. 5, marks : {0, 1, 2},
            filters : {"none", "full"}, datasources : BOOLEAN, vds : BOOLEAN] :
        /\ p.vds => p.datasources
        /\ ~p.data => p.rows = 0}

MCBytes(w, p) ==
    IF p.form = "failure" THEN 2
    ELSE w.base + w.row * p.rows + w.mark * p.marks
         + (CASE p.filters = "none" -> 0
              [] p.filters = "full" -> w.full
              [] p.filters = "squeezed" -> w.squeezed)
         + (IF p.datasources THEN w.pair ELSE 0)
         + (IF p.vds THEN w.pair ELSE 0)
         + (IF p.form = "identity" THEN 1 ELSE 0)

\* The resources are interchangeable.
Symmetry == Permutations(Resource)

DeliveryRests == Delivery!Init /\ widget = "viz" /\ ~mountPoint
PulseRests    == /\ Pulse!Init
                 /\ metric = [compact |-> FALSE, filters |-> v1, time |-> v1]
                 /\ ~listening

BudgetRests   == /\ weights = None /\ payload = None /\ working = None /\ text = None
                 /\ bytes = 0 /\ rung = "initial" /\ trimmed = FALSE

MCInit ==
    \/ running = "delivery" /\ Delivery!Init /\ Panel!Init /\ PulseRests /\ BudgetRests
    \/ running = "panels" /\ DeliveryRests /\ Panel!Init /\ PulseRests /\ BudgetRests
    \/ /\ running = "pulse" /\ DeliveryRests /\ Panel!Init /\ Pulse!Init /\ BudgetRests
       /\ metric.filters = v1 /\ metric.time = v1
    \/ running = "budget" /\ DeliveryRests /\ Panel!Init /\ PulseRests /\ Init

DeliveryRuns == /\ running = "delivery" /\ Delivery!Next
                /\ UNCHANGED <<running, panelVars, pulseVars, budgetVars>>
PanelsRun    == /\ running = "panels" /\ Panel!Next
                /\ UNCHANGED <<running, deliveryVars, pulseVars, budgetVars>>
PulseRuns    == /\ running = "pulse" /\ Pulse!Next
                /\ UNCHANGED <<running, deliveryVars, panelVars, budgetVars>>
BudgetRuns   == /\ running = "budget" /\ Next
                /\ UNCHANGED <<running, deliveryVars, panelVars, pulseVars>>

MCNext == DeliveryRuns \/ PanelsRun \/ PulseRuns \/ BudgetRuns

MCSpec == MCInit /\ [][MCNext]_<<running, deliveryVars, panelVars, pulseVars, budgetVars>>
=============================================================================
