------------------------------- MODULE MCTimers -------------------------------
(***************************************************************************)
(* The viz state bridge with two activations and one sheet name, the Pulse *)
(* state bridge with insights that have no id, and the expiring map with a *)
(* long timer, with more keys than the map may hold and delays on both     *)
(* sides of MAX_DELAY.  Each behaviour is one of one of them while the     *)
(* others rest in an initial state.                                        *)
(***************************************************************************)
EXTENDS Timers

CONSTANTS v1

VARIABLES running  \* "viz", "pulse" or "map"

MCCost == [metric |-> 2, caveat |-> 1, time |-> 1, question |-> 1, prose |-> 2,
           filters |-> 3, values |-> 2, error |-> 2, failure |-> 1]
MCDelay == 0 .. 3

PulseRests == /\ metric = [compact |-> FALSE, filters |-> v1, time |-> v1]
              /\ listening = FALSE
              /\ insights = << >> /\ announced = [id \in Id |-> Blank]
              /\ gone = FALSE /\ again = FALSE
              /\ debounced = FALSE /\ timeoutsInARow = 0 /\ suspendedAt = "idle"
              /\ pulsePayload = Blank /\ shown = Blank /\ heard = FALSE /\ pulseEvents = 0

\* At the end of its time, so that fairness asks nothing of it.
MapRests == /\ order = << >> /\ timeouts = [k \in Key |-> None] /\ timers = {}
            /\ life = [k \in Key |-> 0] /\ nextId = 1 /\ long = None /\ wish = None
            /\ now = MaxTime

VizRests == Init /\ ~loadListener

MCInit == \/ running = "viz" /\ Init /\ PulseRests /\ MapRests
          \/ running = "pulse" /\ VizRests /\ Pulse!Init /\ MapRests
          \/ running = "map" /\ VizRests /\ PulseRests /\ Expiring!Init

VizRuns   == running = "viz" /\ Next /\ UNCHANGED <<running, pulseVars, mapVars>>
PulseRuns == running = "pulse" /\ Pulse!Next /\ UNCHANGED <<running, bridgeVars, mapVars>>
MapRuns   == running = "map" /\ Expiring!Next /\ UNCHANGED <<running, bridgeVars, pulseVars>>

MCNext == VizRuns \/ PulseRuns \/ MapRuns

MCSpec == /\ MCInit /\ [][MCNext]_<<running, bridgeVars, pulseVars, mapVars>>
          /\ Fairness
          /\ Pulse!Fairness
          /\ Expiring!Fairness
=============================================================================
