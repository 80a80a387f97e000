--------------------------- MODULE VizStateBridge ---------------------------
(***************************************************************************)
(* startVizStateBridge (embed/vizState/vizStateBridge.ts): the listener    *)
(* that turns viz events into captures and pushes each captured snapshot   *)
(* into the host's model context.                                          *)
(*                                                                         *)
(* The bridge is a closure over a few mutable flags.  Its functions run to *)
(* completion between awaits, so an action here is the code from one       *)
(* resumption to the next await: an event handler, the debounce timer      *)
(* firing into runCapture, captureVizState settling, pushVizState          *)
(* settling, and dispose.  Each activation of the async runCapture has its *)
(* own program counter, so that two of them overlapping is expressible.    *)
(* captureVizState itself is the module VizCapture; here it is a call that *)
(* takes time and returns a payload that is marked as aborted or not.      *)
(***************************************************************************)
EXTENDS Naturals, FiniteSets

CONSTANTS
    Run,                       \* activations of runCapture
    Sheet,                     \* worksheet names an event may mention
    NoSheet,                   \* an event that mentions none; also: undefined
    MAX_CONSECUTIVE_TIMEOUTS,
    MaxEvents                  \* bound: viz events the user causes

ASSUME MaxTimeoutsAssumption == MAX_CONSECUTIVE_TIMEOUTS \in Nat \ {0}
ASSUME MaxEventsAssumption == MaxEvents \in Nat
ASSUME NoSheetAssumption == NoSheet \notin Sheet

VARIABLES
    disposed,
    capturing,
    rerunRequested,
    consecutiveTimeouts,
    preferredSheetName,
    timerArmed,     \* the debouncer's timer
    loadListener,   \* the once-only firstinteractive listener is registered
    pc,             \* where each activation of runCapture is suspended
    context,        \* what this bridge last put into the host's model context
    unseen,         \* history: an event came after the last capture started
    events          \* number of viz events so far

bridgeVars == <<disposed, capturing, rerunRequested, consecutiveTimeouts,
                preferredSheetName, timerArmed, loadListener, pc, context,
                unseen, events>>

-----------------------------------------------------------------------------
PC == {"idle", "capture", "push", "lastPush"}

TypeOK == /\ disposed \in BOOLEAN
          /\ capturing \in BOOLEAN
          /\ rerunRequested \in BOOLEAN
          /\ consecutiveTimeouts \in 0 .. MAX_CONSECUTIVE_TIMEOUTS
          /\ preferredSheetName \in Sheet \cup {NoSheet}
          /\ timerArmed \in BOOLEAN
          /\ loadListener \in BOOLEAN
          /\ pc \in [Run -> PC]
          /\ context \in {"none", "state", "wedged"}
          /\ unseen \in BOOLEAN
          /\ events \in 0 .. MaxEvents

\* loadListener is the option pushOnLoad at the start.
Init == /\ disposed = FALSE
        /\ capturing = FALSE
        /\ rerunRequested = FALSE
        /\ consecutiveTimeouts = 0
        /\ preferredSheetName = NoSheet
        /\ timerArmed = FALSE
        /\ loadListener \in BOOLEAN
        /\ pc = [r \in Run |-> "idle"]
        /\ context = "none"
        /\ unseen = FALSE
        /\ events = 0

-----------------------------------------------------------------------------
(* Triggers.  The interaction listeners stay registered until dispose.     *)

VizEvent(name) ==
    /\ ~disposed
    /\ events < MaxEvents
    /\ events' = events + 1
    /\ preferredSheetName' = IF name = NoSheet THEN preferredSheetName ELSE name
    /\ timerArmed' = TRUE
    /\ unseen' = TRUE
    /\ UNCHANGED <<disposed, capturing, rerunRequested, consecutiveTimeouts,
                   loadListener, pc, context>>

VizLoaded ==
    /\ loadListener
    /\ loadListener' = FALSE
    /\ timerArmed' = TRUE
    /\ unseen' = TRUE
    /\ UNCHANGED <<disposed, capturing, rerunRequested, consecutiveTimeouts,
                   preferredSheetName, pc, context, events>>

-----------------------------------------------------------------------------
(* The debounce timer fires into runCapture: it either returns early, the  *)
(* request remembered if a capture is running, or starts a capture.        *)

\* Mutant: the flag capturing is not looked at.
MayStart_NoFlag == ~disposed

MayStart == ~disposed /\ ~capturing

RunCaptureReturnsEarly ==
    /\ timerArmed
    /\ ~MayStart
    /\ timerArmed' = FALSE
    /\ rerunRequested' = (rerunRequested \/ ~disposed)
    /\ UNCHANGED <<disposed, capturing, consecutiveTimeouts, preferredSheetName,
                   loadListener, pc, context, unseen, events>>

StartCapture(r) ==
    /\ timerArmed
    /\ MayStart
    /\ pc[r] = "idle"
    /\ timerArmed' = FALSE
    /\ capturing' = TRUE
    /\ pc' = [pc EXCEPT ![r] = "capture"]
    /\ unseen' = FALSE
    /\ UNCHANGED <<disposed, rerunRequested, consecutiveTimeouts,
                   preferredSheetName, loadListener, context, events>>

-----------------------------------------------------------------------------
(* The rest of runCapture.                                                 *)

\* Mutant: the remembered request is dropped.
FinallyAlive_NoRerun(r) ==
    /\ pc' = [pc EXCEPT ![r] = "idle"]
    /\ capturing' = FALSE
    /\ rerunRequested' = FALSE
    /\ UNCHANGED timerArmed

\* The finally block of a bridge that is still alive: a remembered request
\* goes back through the debounce window.
FinallyAlive(r) ==
    /\ pc' = [pc EXCEPT ![r] = "idle"]
    /\ capturing' = FALSE
    /\ rerunRequested' = FALSE
    /\ timerArmed' = (timerArmed \/ rerunRequested)

\* The finally block once the bridge is disposed of.
FinallyDisposed(r) ==
    /\ pc' = [pc EXCEPT ![r] = "idle"]
    /\ capturing' = FALSE
    /\ UNCHANGED rerunRequested

FinallyBlock(r) ==
    \/ ~disposed /\ FinallyAlive(r)
    \/ disposed /\ FinallyDisposed(r) /\ UNCHANGED timerArmed

\* captureVizState settles after the element is gone: nothing is pushed.
CaptureReturnsDisposed(r) ==
    /\ pc[r] = "capture"
    /\ disposed
    /\ FinallyBlock(r)
    /\ UNCHANGED <<disposed, consecutiveTimeouts, preferredSheetName,
                   loadListener, context, unseen, events>>

\* Mutant: one timeout too many.
Wedged_OffByOne(timeouts) == timeouts > MAX_CONSECUTIVE_TIMEOUTS

Wedged(timeouts) == timeouts >= MAX_CONSECUTIVE_TIMEOUTS

TimeoutsAfter(marked) == IF marked THEN consecutiveTimeouts + 1 ELSE 0

\* captureVizState returns a payload; marked says whether one of its error
\* lines starts with ABORT_ERROR_PREFIX.
CaptureReturns(r, marked) ==
    /\ pc[r] = "capture"
    /\ ~disposed
    /\ consecutiveTimeouts' = TimeoutsAfter(marked)
    /\ pc' = [pc EXCEPT ![r] =
                 IF Wedged(TimeoutsAfter(marked)) THEN "lastPush" ELSE "push"]
    /\ UNCHANGED <<disposed, capturing, rerunRequested, preferredSheetName,
                   timerArmed, loadListener, context, unseen, events>>

\* The catch of runCapture: logged, no push.
CaptureThrows(r) ==
    /\ pc[r] = "capture"
    /\ FinallyBlock(r)
    /\ UNCHANGED <<disposed, consecutiveTimeouts, preferredSheetName,
                   loadListener, context, unseen, events>>

\* pushVizState settles.  A host without the capability, or a failed
\* updateModelContext, leaves the context as it was.
PushSettles(r) ==
    /\ pc[r] = "push"
    /\ context' \in {context, "state"}
    /\ FinallyBlock(r)
    /\ UNCHANGED <<disposed, consecutiveTimeouts, preferredSheetName,
                   loadListener, unseen, events>>

\* dispose: listeners and timer go, once and for all.
DisposeOf ==
    /\ disposed' = TRUE
    /\ loadListener' = FALSE
    /\ timerArmed' = FALSE

\* Mutant: the bridge goes on after its last words.
LastPushSettles_GoesOn(r) ==
    /\ pc[r] = "lastPush"
    /\ context' \in {context, "wedged"}
    /\ FinallyAlive(r)
    /\ UNCHANGED <<disposed, loadListener, consecutiveTimeouts,
                   preferredSheetName, unseen, events>>

\* The degraded payload was the last one: the bridge disposes of itself.
LastPushSettles(r) ==
    /\ pc[r] = "lastPush"
    /\ context' \in {context, "wedged"}
    /\ DisposeOf
    /\ FinallyDisposed(r)
    /\ UNCHANGED <<consecutiveTimeouts, preferredSheetName, unseen, events>>

-----------------------------------------------------------------------------
\* Called by the owner of the bridge when a new tool result replaces the viz.
Dispose ==
    /\ ~disposed
    /\ DisposeOf
    /\ UNCHANGED <<capturing, rerunRequested, consecutiveTimeouts,
                   preferredSheetName, pc, context, unseen, events>>

-----------------------------------------------------------------------------
TimerFires == RunCaptureReturnsEarly \/ \E r \in Run : StartCapture(r)

CaptureSettles(r) == \/ CaptureReturnsDisposed(r)
                     \/ \E marked \in BOOLEAN : CaptureReturns(r, marked)
                     \/ CaptureThrows(r)

Next == \/ \E name \in Sheet \cup {NoSheet} : VizEvent(name)
        \/ VizLoaded
        \/ RunCaptureReturnsEarly
        \/ \E r \in Run : \/ StartCapture(r)
                          \/ CaptureReturnsDisposed(r)
                          \/ \E marked \in BOOLEAN : CaptureReturns(r, marked)
                          \/ CaptureThrows(r)
                          \/ PushSettles(r)
                          \/ LastPushSettles(r)
        \/ Dispose

\* The timer fires, a capture is bounded by its queue's timers and a push by
\* the request timeout of the host SDK; events and disposal are not forced.
Fairness == /\ WF_bridgeVars(TimerFires)
            /\ \A r \in Run : /\ WF_bridgeVars(CaptureSettles(r))
                              /\ WF_bridgeVars(PushSettles(r))
                              /\ WF_bridgeVars(LastPushSettles(r))

SafetySpec == Init /\ [][Next]_bridgeVars
Spec == SafetySpec /\ Fairness

-----------------------------------------------------------------------------
(* Properties.                                                             *)

\* Two activations of runCapture never overlap: their Embedding API calls
\* would interleave and wedge the channel (vizStateBridge.ts:97-102).
CapturesNeverOverlap ==
    \A r, s \in Run : pc[r] # "idle" /\ pc[s] # "idle" => r = s

\* A disposed bridge is quiet: no listener is left and no timer can revive
\* it, also when it is disposed of while a capture with a remembered rerun is
\* in flight (vizStateBridge.ts:137-146, 162-175).
DisposedIsQuiet == disposed => ~timerArmed /\ ~loadListener

\* A bridge that is between captures and still listening has not used up its
\* timeouts: it stops for good at the limit, not later.
BreakerBelowLimit ==
    ~disposed /\ (\A r \in Run : pc[r] # "lastPush")
        => consecutiveTimeouts < MAX_CONSECUTIVE_TIMEOUTS

\* What holds of the captures at all times, together (vizStateBridge.ts:92-175).
CaptureDiscipline == /\ CapturesNeverOverlap
                     /\ DisposedIsQuiet
                     /\ BreakerBelowLimit

\* No snapshot captured before the element went away is pushed after it: a
\* step that starts a push is a step of a live bridge.
NoPushOnceDisposed ==
    [][\A r \in Run : pc[r] = "capture" /\ pc'[r] \in {"push", "lastPush"}
                          => ~disposed]_bridgeVars

\* The explanation that the channel is wedged is the last thing the bridge
\* ever says: no later push of the same bridge replaces it.
WedgeNoticeStays == [][context = "wedged" => context' = "wedged"]_bridgeVars

\* What the bridge says to the host, and when (vizStateBridge.ts:109-131): no
\* late snapshot, and nothing after the wedge notice.
PushDiscipline == NoPushOnceDisposed /\ WedgeNoticeStays

\* An interaction is never lost: a capture that starts after it follows,
\* however the events, the timer and a running capture interleave, unless the
\* bridge is disposed of first.
InteractionIsCaptured == unseen ~> (~unseen \/ disposed)

\* The bridge implements the single-flight coalescing of SingleFlight.
Flight == INSTANCE SingleFlight WITH
              wanted <- (timerArmed \/ rerunRequested) /\ ~disposed,
              flying <- \E r \in Run : pc[r] # "idle",
              closed <- disposed

ImplementsSingleFlight == Flight!Spec
=============================================================================
