-------------------------------- MODULE MCCalls --------------------------------
(***************************************************************************)
(* Calls that a timer ends if nothing else does: those in the queue of a   *)
(* capture, four of them, one final; and those of the tools for Tableau    *)
(* Desktop, two that overlap, while an instance is restarted with the same *)
(* process id.  They share no state, so each behaviour is one of one of    *)
(* them while the other rests in its initial state.                        *)
(***************************************************************************)
EXTENDS SerialQueue, DesktopCalls, TLC

VARIABLES running  \* "queue" or "desktop"

MCInit == running \in {"queue", "desktop"} /\ Init /\ DesktopInit

QueueRuns   == running = "queue" /\ Next /\ UNCHANGED <<running, desktopVars>>
DesktopRuns == running = "desktop" /\ DesktopNext /\ UNCHANGED <<running, queueVars>>

MCNext == QueueRuns \/ DesktopRuns

MCSpec == /\ MCInit /\ [][MCNext]_<<running, queueVars, desktopVars>>
          /\ Fairness
          /\ DesktopFairness
=============================================================================
