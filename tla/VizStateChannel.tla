--------------------------- MODULE VizStateChannel ---------------------------
(***************************************************************************)
(* The viz state channel as it runs in the widget: the bridge              *)
(* (VizStateBridge) whose runCapture awaits captureVizState (VizCapture).  *)
(* The bridge's guard admits one capture at a time, so one set of capture  *)
(* variables is enough; what the bridge sees of a capture is whether it is *)
(* marked as aborted.                                                      *)
(***************************************************************************)
EXTENDS VizCapture

CONSTANTS Run, MAX_CONSECUTIVE_TIMEOUTS, MaxEvents

VARIABLES
    disposed, capturing, rerunRequested, consecutiveTimeouts,
    preferredSheetName, timerArmed, loadListener, pc, context, unseen, events

Bridge == INSTANCE VizStateBridge

\* What the bridge assumes of its constants.
ASSUME BridgeAssumption == /\ MAX_CONSECUTIVE_TIMEOUTS \in Nat \ {0}
                           /\ MaxEvents \in Nat

bridgeVars == <<disposed, capturing, rerunRequested, consecutiveTimeouts,
                preferredSheetName, timerArmed, loadListener, pc, context,
                unseen, events>>
channelVars == <<bridgeVars, captureVars>>

ChannelInit == Bridge!Init /\ Init

-----------------------------------------------------------------------------
\* Events, timers and pushes do not touch the capture in flight.
BridgeStep ==
    /\ \/ \E name \in Sheet \cup {NoSheet} : Bridge!VizEvent(name)
       \/ Bridge!VizLoaded
       \/ Bridge!RunCaptureReturnsEarly
       \/ \E r \in Run : Bridge!PushSettles(r) \/ Bridge!LastPushSettles(r)
       \/ Bridge!Dispose
    /\ UNCHANGED captureVars

\* runCapture calls captureVizState with the sheet preferred at that moment;
\* a viz that is gone or not loaded yet is unreadable.
Start(r) ==
    /\ Bridge!StartCapture(r)
    /\ \E readable \in BOOLEAN : Begin(preferredSheetName, readable)

\* The capture goes on, also after dispose: nothing cancels it.
CaptureStep ==
    /\ Advance \/ Answer \/ OverallTimeout
    /\ UNCHANGED bridgeVars

\* Mutant: any error line counts.
Marked_AnyError == errors # {}

\* The payload is handed to runCapture.
Marked == "capture aborted" \in errors

Deliver(r) ==
    /\ stage = "done"
    /\ Bridge!CaptureReturns(r, Marked) \/ Bridge!CaptureReturnsDisposed(r)
    /\ UNCHANGED captureVars

ChannelNext == \/ BridgeStep
               \/ CaptureStep
               \/ \E r \in Run : Start(r) \/ Deliver(r)

\* The timers of the bridge and of the queue, and the host's answer to a push.
ChannelFairness ==
    /\ WF_channelVars(Bridge!RunCaptureReturnsEarly /\ UNCHANGED captureVars)
    /\ WF_channelVars(\E r \in Run : Start(r))
    /\ WF_channelVars(Advance /\ UNCHANGED bridgeVars)
    /\ \A r \in Run :
          /\ WF_channelVars(Deliver(r))
          /\ WF_channelVars(Bridge!PushSettles(r) /\ UNCHANGED captureVars)
          /\ WF_channelVars(Bridge!LastPushSettles(r) /\ UNCHANGED captureVars)

ChannelSafetySpec == ChannelInit /\ [][ChannelNext]_channelVars
ChannelSpec == ChannelSafetySpec /\ ChannelFairness

-----------------------------------------------------------------------------
(* Properties.                                                             *)

\* The composition behaves as the bridge does, its fairness included: that a
\* capture always settles, which VizStateBridge assumes, follows from the
\* timers of the queue (vizStateBridge.ts:92-147, serialQueue.ts:46-51, 121-126).
ImplementsBridge == Bridge!Spec

\* The circuit breaker only ever counts timeouts: while it has counted any, a
\* timer did fire in the last capture, so a viz that answers everything, even
\* with errors, is never given up (vizStateBridge.ts:33-37, 115-118).
BreakerNeedsATimeout ==
    consecutiveTimeouts > 0 /\ ~capturing /\ ~disposed
        => reason \in {"call-timeout", "overall-timeout"}

=============================================================================
