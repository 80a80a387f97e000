-------------------------------- MODULE Timers --------------------------------
(***************************************************************************)
(* What lives by timers that must fire: the viz state bridge, the Pulse    *)
(* state bridge, and the expiring map with a long timer.  They share no    *)
(* state.                                                                  *)
(***************************************************************************)
EXTENDS VizStateBridge, PulseState, Sequences

CONSTANTS
    Key, MAX_DELAY, MaxSize, Delay, LongDelay, MaxSets, MaxTime, None

VARIABLES
    order, timeouts, timers, life, nextId, long, wish, now

Expiring == INSTANCE ExpiringMap

\* What the map assumes of its constants.
ASSUME TimeAssumption  == Expiring!TimeAssumption

mapVars == <<order, timeouts, timers, life, nextId, long, wish, now>>

-----------------------------------------------------------------------------
(* Properties.                                                             *)

\* Entries and long timers expire neither early nor never (expiringMap.ts:52-78,
\* setLongTimeout.ts:6-22).
TimersAreOnTime == Expiring!TimersAreOnTime
=============================================================================
