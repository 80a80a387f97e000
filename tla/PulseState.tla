------------------------------ MODULE PulseState ------------------------------
(***************************************************************************)
(* The Pulse state bridge in the place it has beside the other components: *)
(* its constants and variables under names of their own, and what it is    *)
(* for.                                                                    *)
(***************************************************************************)
EXTENDS Naturals

CONSTANTS
    Id, NoId, Value, Unrecognized, MAX_ACCUMULATED_INSIGHTS, MAX_INSIGHTS,
    MAX_PULSE_TIMEOUTS, Budget, Cost, MaxPulseEvents, Blank

VARIABLES
    metric, insights, announced, gone, again, timeoutsInARow, debounced, listening,
    suspendedAt, pulsePayload, shown, heard, pulseEvents

pulseVars == <<metric, insights, announced, gone, again, timeoutsInARow, debounced,
               listening, suspendedAt, pulsePayload, shown, heard, pulseEvents>>

Pulse == INSTANCE PulseStateBridge WITH
             MAX_CONSECUTIVE_TIMEOUTS <- MAX_PULSE_TIMEOUTS,
             MaxEvents <- MaxPulseEvents, Nothing <- Blank,
             disposed <- gone, rerunRequested <- again,
             consecutiveTimeouts <- timeoutsInARow, timerArmed <- debounced,
             pc <- suspendedAt, payload <- pulsePayload, context <- shown,
             events <- pulseEvents

\* What the bridge assumes of its constants.
ASSUME PulseAssumption == Pulse!PulseAssumption

-----------------------------------------------------------------------------
(* Properties.                                                             *)

\* The Pulse bridge implements SingleFlight too (pulseStateBridge.ts:3-8).
PulseImplementsSingleFlight == Pulse!ImplementsSingleFlight

\* A bridge at rest has told the host what is on the screen, within the budget
\* (pulseStateBridge.ts:82-214, pulsePayload.ts:110-181).
SettledIsCurrent == Pulse!SettledIsCurrent
=============================================================================
