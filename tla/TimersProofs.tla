----------------------------- MODULE TimersProofs -----------------------------
(***************************************************************************)
(* Proofs about what lives by timers, for all values of the constants.     *)
(*                                                                         *)
(* VizStateBridge: its type invariant, the invariants the runs check, its  *)
(* two action properties, and that it implements SingleFlight.  None of    *)
(* the invariants is inductive alone.  That captures do not overlap needs  *)
(* the flag capturing to be true exactly while an activation is suspended; *)
(* that the counter stays within its type needs that a bridge which has    *)
(* reached the limit is already saying its last words; that the last words *)
(* stay needs that a bridge that said them is disposed of and has no       *)
(* activation left.                                                        *)
(*                                                                         *)
(* PulseStateBridge: that it implements SingleFlight, and that a bridge at *)
(* rest has told what is on the screen, within the budget.  The invariant  *)
(* follows the capture: as long as nothing has asked for another one, what *)
(* has been read so far is what is on the screen (PulseTruth).             *)
(*                                                                         *)
(* ExpiringMap: entries go neither before their time nor without a timer,  *)
(* and no long delay is cut short.  A timer that is set is the one of its  *)
(* key, due when the life of the entry ends (TimersAreOwned).              *)
(***************************************************************************)
EXTENDS Timers, Lists, FiniteSetTheorems, WellFoundedInduction, TLAPS

(***************************************************************************)
(* The viz state bridge.                                                   *)
(***************************************************************************)

\* The flag is the lock: it is set exactly while runCapture is suspended.
CapturingIsTheLock == capturing <=> \E r \in Run : pc[r] # "idle"

\* A rerun is only remembered while there is a capture to follow.
RerunHasACapture == rerunRequested => capturing \/ disposed

\* A bridge says its last words once: then it is disposed of and at rest.
WedgedIsOver == context = "wedged" => disposed /\ \A r \in Run : pc[r] = "idle"

\* While the last push is in flight the counter is at its limit.
LastPushAtLimit ==
    \A r \in Run : pc[r] = "lastPush" => consecutiveTimeouts = MAX_CONSECUTIVE_TIMEOUTS

IInv == /\ TypeOK
        /\ CapturesNeverOverlap
        /\ DisposedIsQuiet
        /\ BreakerBelowLimit
        /\ CapturingIsTheLock
        /\ RerunHasACapture
        /\ WedgedIsOver
        /\ LastPushAtLimit

-----------------------------------------------------------------------------
LEMMA InitInv == Init => IInv
<1> SUFFICES ASSUME Init PROVE IInv
  OBVIOUS
<1> USE MaxTimeoutsAssumption, MaxEventsAssumption DEF Init
<1>1. TypeOK
  <2>1. pc \in [Run -> PC]
    BY DEF PC
  <2>2. consecutiveTimeouts \in 0 .. MAX_CONSECUTIVE_TIMEOUTS /\ events \in 0 .. MaxEvents
    OBVIOUS
  <2>3. QED
    BY <2>1, <2>2 DEF TypeOK
<1>2. BreakerBelowLimit
  BY DEF BreakerBelowLimit
<1>3. CapturesNeverOverlap /\ DisposedIsQuiet /\ CapturingIsTheLock /\ RerunHasACapture
  BY DEF CapturesNeverOverlap, DisposedIsQuiet, CapturingIsTheLock, RerunHasACapture
<1>4. WedgedIsOver /\ LastPushAtLimit
  BY DEF WedgedIsOver, LastPushAtLimit
<1>5. QED
  BY <1>1, <1>2, <1>3, <1>4 DEF IInv

\* What an activation that settles leaves behind: no activation is suspended.
LEMMA OthersAreIdle ==
    ASSUME IInv, NEW r \in Run, pc[r] # "idle", pc' = [pc EXCEPT ![r] = "idle"]
    PROVE  \A s \in Run : pc'[s] = "idle"
BY DEF IInv, TypeOK, CapturesNeverOverlap

\* The finally block of runCapture frees the lock, keeps the types, and arms no
\* timer of a disposed bridge.
LEMMA FinallyEffect ==
    ASSUME IInv, NEW r \in Run, pc[r] # "idle", FinallyBlock(r)
    PROVE  /\ \A s \in Run : pc'[s] = "idle"
           /\ pc' \in [Run -> PC]
           /\ capturing' = FALSE
           /\ timerArmed' \in BOOLEAN
           /\ rerunRequested' \in BOOLEAN
           /\ disposed => ~timerArmed'
           /\ ~disposed => ~rerunRequested'
<1> USE DEF IInv, TypeOK, DisposedIsQuiet
<1>1. pc' = [pc EXCEPT ![r] = "idle"] /\ capturing' = FALSE
  BY DEF FinallyBlock, FinallyAlive, FinallyDisposed
<1>2. \A s \in Run : pc'[s] = "idle"
  BY <1>1, OthersAreIdle
<1>3. pc' \in [Run -> PC]
  BY <1>1 DEF PC
<1>4. CASE ~disposed
  <2>1. FinallyAlive(r)
    BY <1>4 DEF FinallyBlock
  <2>2. timerArmed' \in BOOLEAN /\ rerunRequested' = FALSE
    BY <2>1 DEF FinallyAlive
  <2>3. QED
    BY <1>1, <1>2, <1>3, <1>4, <2>2
<1>5. CASE disposed
  <2>1. timerArmed' = timerArmed /\ rerunRequested' = rerunRequested
    BY <1>5 DEF FinallyBlock, FinallyDisposed
  <2>2. QED
    BY <1>1, <1>2, <1>3, <1>5, <2>1
<1>6. QED
  BY <1>4, <1>5

LEMMA StepInv == IInv /\ [Next]_bridgeVars => IInv'
<1> SUFFICES ASSUME IInv, [Next]_bridgeVars PROVE IInv'
  OBVIOUS
<1> USE MaxTimeoutsAssumption, MaxEventsAssumption
        DEF IInv, TypeOK, PC, CapturesNeverOverlap, DisposedIsQuiet,
            BreakerBelowLimit, CapturingIsTheLock, RerunHasACapture,
            WedgedIsOver, LastPushAtLimit
<1>1. ASSUME NEW name \in Sheet \cup {NoSheet}, VizEvent(name) PROVE IInv'
  BY <1>1 DEF VizEvent
<1>2. CASE VizLoaded
  BY <1>2 DEF VizLoaded
<1>3. CASE RunCaptureReturnsEarly
  BY <1>3 DEF RunCaptureReturnsEarly, MayStart
<1>4. ASSUME NEW r \in Run, StartCapture(r) PROVE IInv'
  <2>1. \A s \in Run : pc[s] = "idle"
    BY <1>4 DEF StartCapture, MayStart
  <2>2. \A s \in Run : pc'[s] = IF s = r THEN "capture" ELSE "idle"
    BY <1>4, <2>1 DEF StartCapture, MayStart
  <2>3. QED
    BY <1>4, <2>1, <2>2 DEF StartCapture, MayStart
<1>5. ASSUME NEW r \in Run, CaptureReturnsDisposed(r) PROVE IInv'
  <2>1. FinallyBlock(r) /\ pc[r] # "idle"
    BY <1>5 DEF CaptureReturnsDisposed
  <2>2. QED
    BY <1>5, <2>1, FinallyEffect DEF CaptureReturnsDisposed
<1>6. ASSUME NEW r \in Run, NEW marked \in BOOLEAN, CaptureReturns(r, marked) PROVE IInv'
  <2>1. \A s \in Run : s # r => pc[s] = "idle" /\ pc'[s] = "idle"
    BY <1>6 DEF CaptureReturns, Wedged
  <2>2. consecutiveTimeouts < MAX_CONSECUTIVE_TIMEOUTS
    BY <1>6, <2>1 DEF CaptureReturns, Wedged
  <2>3. CASE TimeoutsAfter(marked) >= MAX_CONSECUTIVE_TIMEOUTS
    <3>1. pc'[r] = "lastPush" /\ consecutiveTimeouts' = MAX_CONSECUTIVE_TIMEOUTS
      BY <1>6, <2>2, <2>3 DEF CaptureReturns, Wedged, TimeoutsAfter
    <3>2. QED
      BY <1>6, <2>1, <3>1 DEF CaptureReturns, Wedged
  <2>4. CASE ~(TimeoutsAfter(marked) >= MAX_CONSECUTIVE_TIMEOUTS)
    <3>1. /\ pc'[r] = "push"
          /\ consecutiveTimeouts' \in 0 .. MAX_CONSECUTIVE_TIMEOUTS
          /\ consecutiveTimeouts' < MAX_CONSECUTIVE_TIMEOUTS
      BY <1>6, <2>2, <2>4 DEF CaptureReturns, Wedged, TimeoutsAfter
    <3>2. QED
      BY <1>6, <2>1, <3>1 DEF CaptureReturns, Wedged
  <2>5. QED
    BY <2>3, <2>4
<1>7. ASSUME NEW r \in Run, CaptureThrows(r) PROVE IInv'
  <2>1. FinallyBlock(r) /\ pc[r] # "idle"
    BY <1>7 DEF CaptureThrows
  <2>2. ~disposed => consecutiveTimeouts < MAX_CONSECUTIVE_TIMEOUTS
    BY <1>7 DEF CaptureThrows
  <2>3. QED
    BY <1>7, <2>1, <2>2, FinallyEffect DEF CaptureThrows
<1>8. ASSUME NEW r \in Run, PushSettles(r) PROVE IInv'
  <2>1. FinallyBlock(r) /\ pc[r] # "idle"
    BY <1>8 DEF PushSettles
  <2>2. ~disposed => consecutiveTimeouts < MAX_CONSECUTIVE_TIMEOUTS
    BY <1>8 DEF PushSettles
  <2>3. context' \in {"none", "state"}
    BY <1>8 DEF PushSettles
  <2>4. QED
    BY <1>8, <2>1, <2>2, <2>3, FinallyEffect DEF PushSettles
<1>9. ASSUME NEW r \in Run, LastPushSettles(r) PROVE IInv'
  <2>1. \A s \in Run : pc'[s] = "idle"
    BY <1>9, OthersAreIdle DEF LastPushSettles, DisposeOf, FinallyDisposed
  <2>2. QED
    BY <1>9, <2>1 DEF LastPushSettles, DisposeOf, FinallyDisposed
<1>10. CASE Dispose
  BY <1>10 DEF Dispose, DisposeOf
<1>11. CASE UNCHANGED bridgeVars
  BY <1>11 DEF bridgeVars
<1>12. QED
  BY <1>1, <1>2, <1>3, <1>4, <1>5, <1>6, <1>7, <1>8, <1>9, <1>10, <1>11 DEF Next

\* The inductive invariant holds throughout.
THEOREM InvariantHolds == SafetySpec => []IInv
<1>1. QED
  BY InitInv, StepInv, PTL DEF SafetySpec

-----------------------------------------------------------------------------
(* What follows from the invariant.                                        *)

\* Every variable keeps its type; in particular the counter never exceeds the
\* limit (vizStateBridge.ts:71-90).
THEOREM TypeCorrect == SafetySpec => []TypeOK
<1>1. IInv => TypeOK
  BY DEF IInv
<1>2. QED
  BY <1>1, InvariantHolds, PTL

\* Two activations of runCapture never overlap, however many triggers there are
\* (vizStateBridge.ts:97-104, 137-138).
THEOREM NoOverlap == SafetySpec => []CapturesNeverOverlap
<1>1. IInv => CapturesNeverOverlap
  BY DEF IInv
<1>2. QED
  BY <1>1, InvariantHolds, PTL

\* Nothing can wake a disposed bridge (vizStateBridge.ts:137-146, 162-175).
THEOREM QuietOnceDisposed == SafetySpec => []DisposedIsQuiet
<1>1. IInv => DisposedIsQuiet
  BY DEF IInv
<1>2. QED
  BY <1>1, InvariantHolds, PTL

\* A listening bridge has not used up its timeouts (vizStateBridge.ts:115-130).
THEOREM BreakerTrips == SafetySpec => []BreakerBelowLimit
<1>1. IInv => BreakerBelowLimit
  BY DEF IInv
<1>2. QED
  BY <1>1, InvariantHolds, PTL

\* The three together (vizStateBridge.ts:92-175).
THEOREM Disciplined == SafetySpec => []CaptureDiscipline
<1>1. IInv => CaptureDiscipline
  BY DEF IInv, CaptureDiscipline
<1>2. QED
  BY <1>1, InvariantHolds, PTL

\* No step of a disposed bridge starts a push (vizStateBridge.ts:109-113).
THEOREM NoLatePush == SafetySpec => NoPushOnceDisposed
<1> DEFINE A == \A r \in Run : pc[r] = "capture" /\ pc'[r] \in {"push", "lastPush"}
                                   => ~disposed
<1>1. IInv /\ [Next]_bridgeVars => [A]_bridgeVars
  <2> SUFFICES ASSUME IInv, Next, NEW r \in Run, pc[r] = "capture",
                      pc'[r] \in {"push", "lastPush"}, disposed
               PROVE  FALSE
    BY DEF bridgeVars
  <2> USE DEF IInv, TypeOK, PC, DisposedIsQuiet
  <2>1. ASSUME NEW name \in Sheet \cup {NoSheet}, VizEvent(name) PROVE FALSE
    BY <2>1 DEF VizEvent
  <2>2. CASE VizLoaded \/ RunCaptureReturnsEarly \/ Dispose
    BY <2>2 DEF VizLoaded, RunCaptureReturnsEarly, MayStart, Dispose, DisposeOf
  <2>3. ASSUME NEW s \in Run, StartCapture(s) PROVE FALSE
    BY <2>3 DEF StartCapture, MayStart
  <2>4. ASSUME NEW s \in Run, NEW marked \in BOOLEAN, CaptureReturns(s, marked) PROVE FALSE
    BY <2>4 DEF CaptureReturns, Wedged
  <2>5. ASSUME NEW s \in Run,
               CaptureReturnsDisposed(s) \/ CaptureThrows(s) \/ PushSettles(s)
        PROVE  FALSE
    <3>1. FinallyBlock(s) /\ pc[s] # "idle"
      BY <2>5 DEF CaptureReturnsDisposed, CaptureThrows, PushSettles
    <3>2. QED
      BY <3>1, FinallyEffect
  <2>6. ASSUME NEW s \in Run, LastPushSettles(s) PROVE FALSE
    <3>1. \A q \in Run : pc'[q] = "idle"
      BY <2>6, OthersAreIdle DEF LastPushSettles, DisposeOf, FinallyDisposed
    <3>2. QED
      BY <3>1
  <2>7. QED
    BY <2>1, <2>2, <2>3, <2>4, <2>5, <2>6 DEF Next
<1>2. QED
  BY <1>1, InvariantHolds, PTL DEF SafetySpec, NoPushOnceDisposed

\* The notice that the channel is wedged is the last push of the bridge
\* (vizStateBridge.ts:118-130).
THEOREM LastWordsStay == SafetySpec => WedgeNoticeStays
<1>1. IInv /\ [Next]_bridgeVars => [context = "wedged" => context' = "wedged"]_bridgeVars
  <2> SUFFICES ASSUME IInv, Next, context = "wedged" PROVE context' = "wedged"
    BY DEF bridgeVars
  <2>1. disposed /\ ~loadListener /\ \A r \in Run : pc[r] = "idle"
    BY DEF IInv, WedgedIsOver, DisposedIsQuiet
  <2>2. QED
    BY <2>1 DEF Next, VizEvent, VizLoaded, RunCaptureReturnsEarly, StartCapture, MayStart,
                CaptureReturnsDisposed, CaptureReturns, Wedged, CaptureThrows,
                PushSettles, LastPushSettles, Dispose, DisposeOf
<1>2. QED
  BY <1>1, InvariantHolds, PTL DEF SafetySpec, WedgeNoticeStays

\* No late snapshot and nothing after the wedge notice, for any number of
\* activations and any limit (vizStateBridge.ts:109-131).
THEOREM PushesDisciplined == SafetySpec => PushDiscipline
BY NoLatePush, LastWordsStay DEF PushDiscipline

-----------------------------------------------------------------------------
(* The bridge implements the safety part of SingleFlight.                  *)

\* A finally block lands the flight and keeps what is wanted.
LEMMA FinallyLands ==
    ASSUME IInv, NEW r \in Run, pc[r] # "idle", FinallyBlock(r), disposed' = disposed
    PROVE  [Flight!Next]_(Flight!vars)
<1>1. (\A s \in Run : pc'[s] = "idle") /\ (\E s \in Run : pc[s] # "idle")
  BY FinallyEffect
<1>2. CASE disposed
  <2>1. Flight!Land
    BY <1>1, <1>2 DEF Flight!Land
  <2>2. QED
    BY <2>1 DEF Flight!Next
<1>3. CASE ~disposed
  <2>1. FinallyAlive(r)
    BY <1>3 DEF FinallyBlock
  <2>2. (timerArmed' \/ rerunRequested') <=> (timerArmed \/ rerunRequested)
    BY <2>1 DEF FinallyAlive
  <2>3. Flight!Land
    BY <1>1, <1>3, <2>2 DEF Flight!Land
  <2>4. QED
    BY <2>3 DEF Flight!Next
<1>4. QED
  BY <1>2, <1>3

\* Every step of the bridge is a step of SingleFlight or changes nothing there.
LEMMA StepImplements ==
    IInv /\ [Next]_bridgeVars => [Flight!Next]_(Flight!vars)
<1> SUFFICES ASSUME IInv, [Next]_bridgeVars PROVE [Flight!Next]_(Flight!vars)
  OBVIOUS
<1>1. ASSUME NEW name \in Sheet \cup {NoSheet}, VizEvent(name)
      PROVE  [Flight!Next]_(Flight!vars)
  <2>1. Flight!Request
    BY <1>1 DEF VizEvent, Flight!Request
  <2>2. QED
    BY <2>1 DEF Flight!Next
<1>2. CASE VizLoaded
  <2>1. ~disposed
    BY <1>2 DEF VizLoaded, IInv, DisposedIsQuiet
  <2>2. Flight!Request
    BY <1>2, <2>1 DEF VizLoaded, Flight!Request
  <2>3. QED
    BY <2>2 DEF Flight!Next
<1>3. CASE RunCaptureReturnsEarly
  <2>1. ~disposed /\ rerunRequested'
    BY <1>3 DEF RunCaptureReturnsEarly, MayStart, IInv, DisposedIsQuiet
  <2>2. UNCHANGED Flight!vars
    BY <1>3, <2>1 DEF RunCaptureReturnsEarly, MayStart, Flight!vars
  <2>3. QED
    BY <2>2
<1>4. ASSUME NEW r \in Run, StartCapture(r) PROVE [Flight!Next]_(Flight!vars)
  <2>1. (\A s \in Run : pc[s] = "idle") /\ ~rerunRequested
    BY <1>4 DEF StartCapture, MayStart, IInv, CapturingIsTheLock, RerunHasACapture
  <2>2. pc'[r] = "capture"
    BY <1>4 DEF StartCapture, MayStart, IInv, TypeOK
  <2>3. Flight!Launch
    BY <1>4, <2>1, <2>2 DEF StartCapture, MayStart, Flight!Launch
  <2>4. QED
    BY <2>3 DEF Flight!Next
<1>5. ASSUME NEW r \in Run, NEW marked \in BOOLEAN, CaptureReturns(r, marked)
      PROVE  [Flight!Next]_(Flight!vars)
  <2>1. pc[r] # "idle" /\ pc'[r] # "idle"
    BY <1>5 DEF CaptureReturns, Wedged, IInv, TypeOK
  <2>2. UNCHANGED Flight!vars
    BY <1>5, <2>1 DEF CaptureReturns, Wedged, Flight!vars
  <2>3. QED
    BY <2>2
<1>6. ASSUME NEW r \in Run,
             CaptureReturnsDisposed(r) \/ CaptureThrows(r) \/ PushSettles(r)
      PROVE  [Flight!Next]_(Flight!vars)
  BY <1>6, FinallyLands DEF CaptureReturnsDisposed, CaptureThrows, PushSettles
<1>7. ASSUME NEW r \in Run, LastPushSettles(r) PROVE [Flight!Next]_(Flight!vars)
  <2>1. (\A s \in Run : pc'[s] = "idle") /\ (\E s \in Run : pc[s] # "idle")
    BY <1>7, OthersAreIdle DEF LastPushSettles, DisposeOf, FinallyDisposed
  <2>2. CASE disposed
    <3>1. Flight!Land
      BY <1>7, <2>1, <2>2 DEF LastPushSettles, DisposeOf, Flight!Land
    <3>2. QED
      BY <3>1 DEF Flight!Next
  <2>3. CASE ~disposed
    <3>1. Flight!Close
      BY <1>7, <2>1, <2>3 DEF LastPushSettles, DisposeOf, Flight!Close, IInv, TypeOK
    <3>2. QED
      BY <3>1 DEF Flight!Next
  <2>4. QED
    BY <2>2, <2>3
<1>8. CASE Dispose
  <2>1. Flight!Close
    BY <1>8 DEF Dispose, DisposeOf, Flight!Close
  <2>2. QED
    BY <2>1 DEF Flight!Next
<1>9. CASE UNCHANGED bridgeVars
  BY <1>9 DEF bridgeVars, Flight!vars
<1>10. QED
  BY <1>1, <1>2, <1>3, <1>4, <1>5, <1>6, <1>7, <1>8, <1>9 DEF Next

\* The bridge's requests, captures and disposal are those of SingleFlight: one
\* flight at a time, a request made meanwhile is kept, and none starts once it
\* is closed.  The liveness part of ImplementsSingleFlight is model-checked.
THEOREM RefinesSingleFlight == SafetySpec => Flight!SafetySpec
<1>1. Init => Flight!Init
  BY DEF Init, Flight!Init
<1>2. QED
  BY <1>1, InvariantHolds, StepImplements, PTL DEF SafetySpec, Flight!SafetySpec

-----------------------------------------------------------------------------
(* The Pulse state bridge.                                                 *)

PulseStages == {"idle", "filters", "time", "push", "lastPush"}

\* What the flags of the Pulse bridge mean: nothing wakes it once disposed of, and a
\* rerun is only remembered while there is a capture to follow.
PulseFlags ==
    /\ gone \in BOOLEAN /\ again \in BOOLEAN /\ debounced \in BOOLEAN
    /\ listening \in BOOLEAN /\ heard \in BOOLEAN /\ suspendedAt \in PulseStages
    /\ gone => ~debounced /\ ~listening
    /\ again => gone \/ suspendedAt # "idle"

LEMMA PulseFlagsInit == Pulse!Init => PulseFlags
BY DEF Pulse!Init, PulseFlags, PulseStages

\* The finally block ends the capture and keeps what is wanted.
LEMMA PulseFinally ==
    ASSUME PulseFlags, Pulse!FinallyBlock, gone' = gone
    PROVE  /\ suspendedAt' = "idle"
           /\ debounced' \in BOOLEAN /\ again' \in BOOLEAN
           /\ gone => ~debounced'
           /\ again' => gone
           /\ ~gone => (debounced' \/ again' <=> debounced \/ again)
BY DEF PulseFlags, Pulse!FinallyBlock

\* A capture's end: the finally block of a bridge that is gone, or a push.
LEMMA PulseCaptured ==
    ASSUME PulseFlags, NEW p, Pulse!Captured(p)
    PROVE  /\ UNCHANGED <<metric, insights, shown, heard, gone, listening>>
           /\ gone => Pulse!FinallyBlock
           /\ ~gone => /\ UNCHANGED <<debounced, again>>
                       /\ \/ suspendedAt' = "push" /\ pulsePayload' = p
                          \/ suspendedAt' = "lastPush"
BY DEF Pulse!Captured, Pulse!data

LEMMA PulseFlagsStep == PulseFlags /\ [Pulse!Next]_(Pulse!vars) => PulseFlags'
<1> SUFFICES ASSUME PulseFlags, [Pulse!Next]_(Pulse!vars) PROVE PulseFlags'
  OBVIOUS
<1> USE DEF PulseFlags, PulseStages
<1>1. ASSUME NEW change, Pulse!PulseEvent(change) PROVE PulseFlags'
  BY <1>1 DEF Pulse!PulseEvent
<1>2. CASE Pulse!PulseLoaded
  BY <1>2 DEF Pulse!PulseLoaded
<1>3. CASE Pulse!RunCaptureReturnsEarly
  BY <1>3 DEF Pulse!RunCaptureReturnsEarly
<1>4. CASE Pulse!StartCapture
  BY <1>4 DEF Pulse!StartCapture
<1>5. ASSUME NEW p, suspendedAt # "idle", Pulse!Captured(p) PROVE PulseFlags'
  BY <1>5, PulseCaptured, PulseFinally
<1>6. CASE Pulse!GetFilters
  BY <1>5, <1>6 DEF Pulse!GetFilters, Pulse!flags
<1>7. CASE Pulse!GetTimeDimension
  BY <1>5, <1>7 DEF Pulse!GetTimeDimension
<1>8. CASE Pulse!PushSettles
  BY <1>8, PulseFinally DEF Pulse!PushSettles, Pulse!Push
<1>9. CASE Pulse!LastPushSettles
  BY <1>9 DEF Pulse!LastPushSettles, Pulse!DisposeOf, Pulse!Push
<1>10. CASE Pulse!Dispose
  BY <1>10 DEF Pulse!Dispose, Pulse!DisposeOf
<1>11. CASE UNCHANGED Pulse!vars
  BY <1>11 DEF Pulse!vars, Pulse!flags, Pulse!data
<1>12. QED
  BY <1>1, <1>2, <1>3, <1>4, <1>6, <1>7, <1>8, <1>9, <1>10, <1>11
  DEF Pulse!Next, Pulse!TimerFires, Pulse!RunCapture

\* What a capture of the present gathers, and what it may have missed.
Gathered(filters, time, errors) ==
    [compact |-> metric.compact, insights |-> Pulse!DedupeInsights(insights),
     filters |-> filters, time |-> time, errors |-> errors]

ReadFilters == {Pulse!SerializePulseFilters(metric.filters), Blank}
ReadTime    == {Pulse!SerializeTimeDimension(metric.time), Blank}

Admits(filters, time, errors) ==
    /\ filters \in ReadFilters /\ time \in ReadTime
    /\ errors \in SUBSET {"filters", "time", "aborted"}
    /\ filters = Blank => errors \cap {"filters", "aborted"} # {}
    /\ time # Pulse!SerializeTimeDimension(metric.time) => errors \cap {"time", "aborted"} # {}

\* While nothing has happened since it started, a capture has gathered what is on
\* the screen now; and the context of a bridge at rest is what was gathered.
PulseTruth ==
    /\ metric.filters \in Value /\ metric.time \in Value
    /\ metric = [compact |-> metric.compact, filters |-> metric.filters, time |-> metric.time]
    /\ ~gone /\ ~debounced /\ ~again =>
        /\ suspendedAt = "filters" => pulsePayload = Gathered(Blank, Blank, {})
        /\ suspendedAt = "time" =>
              \E filters \in ReadFilters, errors \in SUBSET {"filters"} :
                  /\ filters = Blank => errors # {}
                  /\ pulsePayload = Gathered(filters, Blank, errors)
        /\ suspendedAt = "push" =>
              \E filters, time, errors : Admits(filters, time, errors)
                                         /\ pulsePayload = Gathered(filters, time, errors)
        /\ suspendedAt = "idle" /\ heard =>
              \E filters, time, errors :
                  /\ Admits(filters, time, errors)
                  /\ shown = Pulse!Fit(Pulse!Text(Gathered(filters, time, errors)))

LEMMA PulseTruthInit == Pulse!Init => PulseTruth
BY DEF Pulse!Init, PulseTruth

\* Steps that leave alone what is on the screen.
ScreenRests == UNCHANGED <<metric, insights>>

LEMMA GatheredRests ==
    ASSUME ScreenRests
    PROVE  /\ \A f, t, e : Gathered(f, t, e)' = Gathered(f, t, e)
           /\ \A f, t, e : Admits(f, t, e)' <=> Admits(f, t, e)
           /\ ReadFilters' = ReadFilters /\ ReadTime' = ReadTime
BY DEF ScreenRests, Gathered, Admits, ReadFilters, ReadTime

\* What asks for another capture may change the screen; what does not, does not.
LEMMA PulseTruthStep ==
    PulseFlags /\ PulseTruth /\ [Pulse!Next]_(Pulse!vars) => PulseTruth'
<1> SUFFICES ASSUME PulseFlags, PulseTruth, [Pulse!Next]_(Pulse!vars) PROVE PulseTruth'
  OBVIOUS
<1>0. Blank \notin Value /\ Blank # "note"
  BY PulseAssumption DEF Pulse!PulseAssumption
<1>1. ASSUME NEW change, Pulse!PulseEvent(change), 
             metric.filters' \in Value, metric.time' \in Value,
             metric' = [compact |-> metric.compact, filters |-> metric.filters',
                        time |-> metric.time']
      PROVE PulseTruth'
  BY <1>1 DEF Pulse!PulseEvent, PulseTruth
<1>2. CASE Pulse!PulseEvent(Pulse!FiltersChange)
  <2>1. \E v \in Value : metric' = [metric EXCEPT !.filters = v]
    BY <1>2 DEF Pulse!PulseEvent, Pulse!FiltersChange
  <2>2. QED
    BY <1>1, <1>2, <2>1 DEF PulseTruth
<1>3. CASE Pulse!PulseEvent(Pulse!TimeChanges)
  <2>1. \E v \in Value : metric' = [metric EXCEPT !.time = v]
    BY <1>3 DEF Pulse!PulseEvent, Pulse!TimeChanges
  <2>2. QED
    BY <1>1, <1>3, <2>1 DEF PulseTruth
<1>4. CASE Pulse!PulseEvent(Pulse!RecordInsight)
  <2>1. metric' = metric
    BY <1>4 DEF Pulse!PulseEvent, Pulse!RecordInsight
  <2>2. QED
    BY <1>1, <1>4, <2>1 DEF PulseTruth
<1>5. CASE Pulse!PulseLoaded
  BY <1>5 DEF Pulse!PulseLoaded, Pulse!data, PulseTruth
<1>6. CASE Pulse!RunCaptureReturnsEarly
  BY <1>6 DEF Pulse!RunCaptureReturnsEarly, Pulse!data, PulseTruth, PulseFlags
<1>7. CASE Pulse!StartCapture
  <2>1. ScreenRests /\ suspendedAt' = "filters" /\ pulsePayload' = Gathered(Blank, Blank, {})
    BY <1>7 DEF Pulse!StartCapture, Pulse!data, ScreenRests, Pulse!BlankPayload, Gathered
  <2>2. QED
    BY <2>1, GatheredRests DEF PulseTruth, ScreenRests
<1>8. ASSUME NEW p, Pulse!Captured(p),
             ~debounced /\ ~again /\ ~gone =>
                 \E f, t, e : Admits(f, t, e) /\ p = Gathered(f, t, e)
      PROVE  PulseTruth'
  <2>1. ScreenRests
    BY <1>8, PulseCaptured DEF ScreenRests
  <2>2. CASE gone \/ suspendedAt' # "push" \/ debounced' \/ again'
    <3>1. gone \/ (~gone' /\ suspendedAt' \in {"push", "lastPush"})
      BY <1>8, PulseCaptured DEF PulseFlags
    <3>2. QED
      BY <1>8, <2>1, <2>2, <3>1, PulseCaptured DEF PulseTruth, ScreenRests
  <2>3. CASE ~gone /\ suspendedAt' = "push" /\ ~debounced' /\ ~again'
    <3>1. ~debounced /\ ~again /\ pulsePayload' = p
      BY <1>8, <2>3, PulseCaptured
    <3>2. PICK f, t, e : Admits(f, t, e) /\ p = Gathered(f, t, e)
      BY <1>8, <2>3, <3>1
    <3>3. QED
      BY <2>1, <2>3, <3>1, <3>2, GatheredRests DEF PulseTruth, ScreenRests
  <2>4. QED
    BY <2>2, <2>3
<1>9. CASE Pulse!GetFilters
  <2> DEFINE Now == ~debounced /\ ~again /\ ~gone
  <2>1. suspendedAt = "filters" /\ (Now => pulsePayload = Gathered(Blank, Blank, {}))
    BY <1>9 DEF Pulse!GetFilters, PulseTruth
  <2>2. CASE Pulse!Captured([pulsePayload EXCEPT !.errors = @ \cup {"aborted"}])
    <3>1. Now => /\ [pulsePayload EXCEPT !.errors = @ \cup {"aborted"}]
                      = Gathered(Blank, Blank, {"aborted"})
                 /\ Admits(Blank, Blank, {"aborted"})
      BY <2>1 DEF Gathered, Admits, ReadFilters, ReadTime
    <3>2. QED
      BY <1>8, <2>2, <3>1
  <2>3. CASE /\ pulsePayload' \in {[pulsePayload EXCEPT !.filters =
                                 Pulse!SerializePulseFilters(metric.filters)],
                              [pulsePayload EXCEPT !.errors = @ \cup {"filters"}]}
             /\ suspendedAt' = "time"
             /\ UNCHANGED <<metric, insights, gone, debounced, again>>
    <3>1. Pulse!SerializePulseFilters(metric.filters) # Blank
      BY <1>0 DEF PulseTruth, Pulse!SerializePulseFilters
    <3>2. ScreenRests
      BY <2>3 DEF ScreenRests
    <3>3. ASSUME Now
          PROVE  \E filters \in ReadFilters, errors \in SUBSET {"filters"} :
                     /\ filters = Blank => errors # {}
                     /\ pulsePayload' = Gathered(filters, Blank, errors)
      <4>1. CASE pulsePayload' = [pulsePayload EXCEPT !.filters =
                                Pulse!SerializePulseFilters(metric.filters)]
        <5>1. pulsePayload' = Gathered(Pulse!SerializePulseFilters(metric.filters), Blank, {})
          BY <2>1, <3>3, <4>1 DEF Gathered
        <5>2. QED
          BY <3>1, <5>1 DEF ReadFilters
      <4>2. CASE pulsePayload' = [pulsePayload EXCEPT !.errors = @ \cup {"filters"}]
        <5>1. pulsePayload' = Gathered(Blank, Blank, {"filters"})
          BY <2>1, <3>3, <4>2 DEF Gathered
        <5>2. QED
          BY <5>1 DEF ReadFilters
      <4>3. QED
        BY <2>3, <4>1, <4>2
    <3>4. QED
      BY <2>3, <3>2, <3>3, GatheredRests DEF PulseTruth, ScreenRests
  <2>4. QED
    BY <1>9, <2>2, <2>3 DEF Pulse!GetFilters, Pulse!data, Pulse!flags
<1>10. CASE Pulse!GetTimeDimension
  <2> DEFINE Now == ~debounced /\ ~again /\ ~gone
             T   == Pulse!SerializeTimeDimension(metric.time)
  <2>1. suspendedAt = "time"
    BY <1>10 DEF Pulse!GetTimeDimension
  <2>2. CASE Pulse!Captured([pulsePayload EXCEPT !.time = T])
    <3>1. ASSUME Now
          PROVE  \E f, t, e : Admits(f, t, e)
                              /\ [pulsePayload EXCEPT !.time = T] = Gathered(f, t, e)
      <4>1. PICK f \in ReadFilters, e \in SUBSET {"filters"} :
                (f = Blank => e # {}) /\ pulsePayload = Gathered(f, Blank, e)
        BY <2>1, <3>1 DEF PulseTruth
      <4>2. [pulsePayload EXCEPT !.time = T] = Gathered(f, T, e)
        BY <4>1 DEF Gathered
      <4>3. Admits(f, T, e)
        BY <4>1 DEF Admits, ReadTime
      <4>4. QED
        BY <4>2, <4>3
    <3>2. QED
      BY <1>8, <2>2, <3>1
  <2>3. ASSUME NEW x \in {"time", "aborted"},
               Pulse!Captured([pulsePayload EXCEPT !.errors = @ \cup {x}])
        PROVE  PulseTruth'
    <3>1. ASSUME Now
          PROVE  \E f, t, e : Admits(f, t, e)
                              /\ [pulsePayload EXCEPT !.errors = @ \cup {x}] = Gathered(f, t, e)
      <4>1. PICK f \in ReadFilters, e \in SUBSET {"filters"} :
                (f = Blank => e # {}) /\ pulsePayload = Gathered(f, Blank, e)
        BY <2>1, <3>1 DEF PulseTruth
      <4>2. [pulsePayload EXCEPT !.errors = @ \cup {x}] = Gathered(f, Blank, e \cup {x})
        BY <4>1 DEF Gathered
      <4>3. Admits(f, Blank, e \cup {x})
        BY <4>1 DEF Admits, ReadTime
      <4>4. QED
        BY <4>2, <4>3
    <3>2. QED
      BY <1>8, <2>3, <3>1
  <2>4. QED
    BY <1>10, <2>2, <2>3 DEF Pulse!GetTimeDimension
<1>11. CASE Pulse!PushSettles
  <2>1. /\ ScreenRests /\ UNCHANGED gone /\ Pulse!FinallyBlock /\ Pulse!Push
        /\ suspendedAt = "push" /\ suspendedAt' = "idle"
    BY <1>11 DEF Pulse!PushSettles, Pulse!data, ScreenRests, Pulse!FinallyBlock
  <2>2. CASE ~gone' /\ ~debounced' /\ ~again' /\ heard'
    <3>1. ~gone /\ ~debounced /\ ~again
      BY <2>1, <2>2, PulseFinally
    <3>2. PICK f, t, e : Admits(f, t, e) /\ pulsePayload = Gathered(f, t, e)
      BY <2>1, <3>1 DEF PulseTruth
    <3>3. shown' = Pulse!Fit(Pulse!Text(Gathered(f, t, e)))
      BY <2>1, <2>2, <3>2 DEF Pulse!Push
    <3>4. QED
      BY <2>1, <3>2, <3>3, GatheredRests DEF PulseTruth, ScreenRests
  <2>3. QED
    BY <2>1, <2>2 DEF PulseTruth, ScreenRests
<1>12. CASE Pulse!LastPushSettles
  BY <1>12 DEF Pulse!LastPushSettles, Pulse!DisposeOf, Pulse!data, PulseTruth
<1>13. CASE Pulse!Dispose
  BY <1>13 DEF Pulse!Dispose, Pulse!DisposeOf, Pulse!data, PulseTruth
<1>14. CASE UNCHANGED Pulse!vars
  <2>1. ScreenRests
    BY <1>14 DEF Pulse!vars, Pulse!data, ScreenRests
  <2>2. QED
    BY <1>14, <2>1, GatheredRests DEF Pulse!vars, Pulse!flags, PulseTruth, ScreenRests
<1>15. QED
  BY <1>2, <1>3, <1>4, <1>5, <1>6, <1>7, <1>9, <1>10, <1>11, <1>12, <1>13, <1>14
  DEF Pulse!Next, Pulse!TimerFires, Pulse!RunCapture

-----------------------------------------------------------------------------
\* Every step of the Pulse bridge is a step of SingleFlight or changes nothing there.
LEMMA PulseStepImplements ==
    PulseFlags /\ [Pulse!Next]_(Pulse!vars) => [Pulse!Flight!Next]_(Pulse!Flight!vars)
<1> SUFFICES ASSUME PulseFlags, [Pulse!Next]_(Pulse!vars)
             PROVE  [Pulse!Flight!Next]_(Pulse!Flight!vars)
  OBVIOUS
<1> USE DEF PulseFlags
<1>1. ASSUME NEW change, Pulse!PulseEvent(change) PROVE Pulse!Flight!Request
  BY <1>1 DEF Pulse!PulseEvent, Pulse!Flight!Request
<1>2. CASE Pulse!PulseLoaded
  <2>1. Pulse!Flight!Request
    BY <1>2 DEF Pulse!PulseLoaded, Pulse!Flight!Request
  <2>2. QED
    BY <2>1 DEF Pulse!Flight!Next
<1>3. CASE Pulse!RunCaptureReturnsEarly
  <2>1. UNCHANGED Pulse!Flight!vars
    BY <1>3 DEF Pulse!RunCaptureReturnsEarly, Pulse!Flight!vars
  <2>2. QED
    BY <2>1
<1>4. CASE Pulse!StartCapture
  <2>1. Pulse!Flight!Launch
    BY <1>4 DEF Pulse!StartCapture, Pulse!Flight!Launch
  <2>2. QED
    BY <2>1 DEF Pulse!Flight!Next
<1>5. ASSUME Pulse!FinallyBlock, UNCHANGED gone, suspendedAt # "idle"
      PROVE  Pulse!Flight!Land
  BY <1>5, PulseFinally DEF Pulse!Flight!Land
<1>6. ASSUME NEW p, suspendedAt # "idle", Pulse!Captured(p)
      PROVE  [Pulse!Flight!Next]_(Pulse!Flight!vars)
  <2>1. CASE gone
    <3>1. Pulse!FinallyBlock /\ UNCHANGED gone
      BY <1>6, <2>1, PulseCaptured
    <3>2. QED
      BY <1>5, <1>6, <3>1 DEF Pulse!Flight!Next
  <2>2. CASE ~gone
    <3>1. UNCHANGED <<gone, debounced, again>> /\ suspendedAt' # "idle"
      BY <1>6, <2>2, PulseCaptured
    <3>2. UNCHANGED Pulse!Flight!vars
      BY <1>6, <3>1 DEF Pulse!Flight!vars
    <3>3. QED
      BY <3>2
  <2>3. QED
    BY <2>1, <2>2
<1>7. CASE Pulse!GetFilters
  <2>1. CASE suspendedAt' = "time" /\ UNCHANGED <<gone, debounced, again>>
    <3>1. UNCHANGED Pulse!Flight!vars
      BY <1>7, <2>1 DEF Pulse!GetFilters, Pulse!Flight!vars
    <3>2. QED
      BY <3>1
  <2>2. QED
    BY <1>6, <1>7, <2>1 DEF Pulse!GetFilters, Pulse!flags
<1>8. CASE Pulse!GetTimeDimension
  BY <1>6, <1>8 DEF Pulse!GetTimeDimension
<1>9. CASE Pulse!PushSettles
  <2>1. Pulse!Flight!Land
    BY <1>5, <1>9 DEF Pulse!PushSettles
  <2>2. QED
    BY <2>1 DEF Pulse!Flight!Next
<1>10. CASE Pulse!LastPushSettles
  <2>1. suspendedAt = "lastPush" /\ gone' = TRUE /\ ~debounced' /\ suspendedAt' = "idle"
    BY <1>10 DEF Pulse!LastPushSettles, Pulse!DisposeOf
  <2>2. IF gone THEN Pulse!Flight!Land ELSE Pulse!Flight!Close
    BY <2>1 DEF Pulse!Flight!Land, Pulse!Flight!Close
  <2>3. QED
    BY <2>2 DEF Pulse!Flight!Next
<1>11. CASE Pulse!Dispose
  <2>1. Pulse!Flight!Close
    BY <1>11 DEF Pulse!Dispose, Pulse!DisposeOf, Pulse!Flight!Close
  <2>2. QED
    BY <2>1 DEF Pulse!Flight!Next
<1>12. CASE UNCHANGED Pulse!vars
  BY <1>12 DEF Pulse!vars, Pulse!flags, Pulse!Flight!vars
<1>13. QED
  BY <1>1, <1>2, <1>3, <1>4, <1>7, <1>8, <1>9, <1>10, <1>11, <1>12
  DEF Pulse!Next, Pulse!TimerFires, Pulse!RunCapture, Pulse!Flight!Next

\* The Pulse bridge keeps the promise of SingleFlight, as the viz bridge does: one
\* flight at a time, a request made meanwhile is kept, none starts once it is closed
\* (pulseStateBridge.ts:3-8).  The liveness part of ImplementsSingleFlight is
\* model-checked.
THEOREM PulseRefinesSingleFlight == Pulse!Spec => Pulse!Flight!SafetySpec
<1>1. Pulse!Init => Pulse!Flight!Init
  BY DEF Pulse!Init, Pulse!Flight!Init
<1>2. QED
  BY <1>1, PulseFlagsInit, PulseFlagsStep, PulseStepImplements, PTL
  DEF Pulse!Spec, Pulse!Flight!SafetySpec

\* At rest, what was gathered last is what would be gathered now.
LEMMA RestIsPresent == PulseFlags /\ PulseTruth => Pulse!ContextIsOfThePresent
<1> SUFFICES ASSUME PulseFlags, PulseTruth, Pulse!Settled
             PROVE  Pulse!ContextIsOfThePresent
  BY DEF Pulse!ContextIsOfThePresent
<1>1. PICK f, t, e : /\ Admits(f, t, e)
                     /\ shown = Pulse!Fit(Pulse!Text(Gathered(f, t, e)))
  BY DEF PulseTruth, Pulse!Settled
<1>2. Pulse!Text(Gathered(f, t, e)) = Pulse!Present(f, t, e)
  BY DEF Pulse!Text, Pulse!Present, Gathered
<1>3. QED
  BY <1>1, <1>2 DEF Pulse!ContextIsOfThePresent, Admits, ReadFilters, ReadTime

\* A Pulse bridge at rest has told what is on the screen, for any settings, wordings
\* and sizes of the buffer: whatever changed during a capture or a push has been
\* captured since, and what could not be read has its error line
\* (pulseStateBridge.ts:82-214).
THEOREM RestingPulseIsCurrent == Pulse!Spec => []Pulse!ContextIsOfThePresent
BY PulseFlagsInit, PulseFlagsStep, PulseTruthInit, PulseTruthStep, RestIsPresent, PTL
DEF Pulse!Spec

-----------------------------------------------------------------------------
(* The budget of a push.                                                   *)

\* A set of natural numbers has a least element.
LEMMA LeastNatural ==
    ASSUME NEW T \in SUBSET Nat, T # {}
    PROVE  \E x \in T : \A y \in T : x <= y
<1> DEFINE R == OpToRel(<, Nat)
<1>1. PICK x \in T : \A y \in T : <<y, x>> \notin R
  <2>1. IsWellFoundedOn(R, Nat)
    BY NatLessThanWellFounded
  <2> HIDE DEF R
  <2>2. QED
    BY <2>1, WFMin, Zenon
<1>2. \A y \in T : <<y, x>> \in R <=> y < x
  BY DEF OpToRel
<1> HIDE DEF R
<1>3. \A y \in T : ~(y < x)
  BY <1>1, <1>2
<1>4. QED
  BY <1>3


\* Whatever the ladder makes of a text, what is pushed fits.
LEMMA FitFits ==
    ASSUME NEW t
    PROVE  Pulse!PayloadBytes(Pulse!Fit(t)) <= Budget
<1> DEFINE rungs == Pulse!Ladder(t)
           I     == {i \in 1 .. Len(rungs) : Pulse!PayloadBytes(rungs[i]) <= Budget}
           First == CHOOSE x \in I : \A y \in I : x <= y
<1>1. Pulse!Fit(t) = IF I = {} THEN Pulse!BudgetFailure
                     ELSE IF First = 0 THEN Pulse!BudgetFailure ELSE rungs[First]
  BY DEF Pulse!Fit, Pulse!SelectInSeq, Pulse!Min
<1>2. Pulse!PayloadBytes(Pulse!BudgetFailure) <= Budget
  BY PulseAssumption DEF Pulse!PayloadBytes, Pulse!BudgetFailure, Pulse!PulseAssumption
<1>3. ASSUME I # {} PROVE First \in I
  <2>1. I \in SUBSET Nat
    OBVIOUS
  <2> HIDE DEF I
  <2>2. QED
    BY <1>3, <2>1, LeastNatural
<1>4. QED
  BY <1>1, <1>2, <1>3

\* What the host is given of a Pulse metric never exceeds the budget, whatever the
\* sizes of its parts (pulsePayload.ts:110-181).
THEOREM PulsePushFits == Pulse!Spec => []Pulse!ContextFitsBudget
<1>1. Pulse!Init => Pulse!ContextFitsBudget
  BY DEF Pulse!Init, Pulse!ContextFitsBudget
<1>2. Pulse!ContextFitsBudget /\ [Pulse!Next]_(Pulse!vars) => Pulse!ContextFitsBudget'
  <2> SUFFICES ASSUME Pulse!ContextFitsBudget, [Pulse!Next]_(Pulse!vars)
               PROVE  Pulse!ContextFitsBudget'
    OBVIOUS
  <2>1. UNCHANGED shown \/ shown' = Pulse!Fit(Pulse!Text(pulsePayload))
    BY DEF Pulse!Next, Pulse!vars, Pulse!PulseEvent, Pulse!PulseLoaded, Pulse!TimerFires,
           Pulse!RunCaptureReturnsEarly, Pulse!StartCapture, Pulse!RunCapture,
           Pulse!GetFilters, Pulse!GetTimeDimension, Pulse!Captured, Pulse!PushSettles,
           Pulse!LastPushSettles, Pulse!Push, Pulse!Dispose
  <2>2. QED
    BY <2>1, FitFits DEF Pulse!ContextFitsBudget
<1>3. QED
  BY <1>1, <1>2, PTL DEF Pulse!Spec

-----------------------------------------------------------------------------
(* The wordings of insights.                                               *)

\* Indices are finite in number.
LEMMA FiniteIndices ==
    ASSUME NEW n \in Nat, NEW I \in SUBSET (0 .. n)
    PROVE  IsFiniteSet(I) /\ Cardinality(I) \in Nat
<1>1. IsFiniteSet(0 .. n)
  BY FS_Interval
<1>2. IsFiniteSet(I)
  BY <1>1, FS_Subset
<1>3. QED
  BY <1>2, FS_CardinalityType

\* The k-th of a set of indices is one of them, for as many as there are.
LEMMA NthIn ==
    ASSUME NEW n \in Nat, NEW I, \A j \in I : j \in Nat /\ j <= n, IsFiniteSet(I),
           NEW k \in 1 .. Cardinality(I)
    PROVE  Nth(I, k) \in I
<1> DEFINE UpTo(m) == {j \in I : j <= m}
           Enough == {m \in Nat : Cardinality(UpTo(m)) >= k}
<1>0. \A j \in I : j \in Nat /\ j <= n
  OBVIOUS
<1>1. IsFiniteSet(I) /\ Cardinality(I) \in Nat
  BY FS_CardinalityType
<1>2. ASSUME NEW J \in SUBSET I PROVE IsFiniteSet(J) /\ Cardinality(J) \in Nat
  BY <1>1, <1>2, FS_Subset, FS_CardinalityType
<1>3. UpTo(n) = I
  BY <1>0
<1>4. n \in Enough
  BY <1>1, <1>3
<1>5. PICK m \in Enough : \A y \in Enough : m <= y
  <2> HIDE DEF Enough
  <2>1. Enough \in SUBSET Nat
    BY DEF Enough
  <2>2. QED
    BY <1>4, <2>1, LeastNatural
<1> DEFINE below == {j \in I : j < m}
<1>a. m \in Nat /\ Cardinality(UpTo(m)) >= k
  OBVIOUS
<1>b. ASSUME NEW y \in Nat, Cardinality(UpTo(y)) >= k PROVE m <= y
  BY <1>5, <1>b
<1> HIDE DEF Enough
<1>6. IsFiniteSet(below) /\ Cardinality(below) \in Nat
  BY <1>2
<1>7. Cardinality(below) < k
  <2>1. CASE m = 0
    <3>1. \A j \in below : FALSE
      BY <1>0, <2>1
    <3>2. QED
      BY <3>1, FS_EmptySet
  <2>2. CASE m # 0
    <3>1. m - 1 \in Nat /\ ~(m <= m - 1)
      BY <1>a, <2>2
    <3>2. UpTo(m - 1) = below
      BY <1>0, <1>a
    <3>3. ~(Cardinality(UpTo(m - 1)) >= k)
      BY <3>1, <1>b
    <3>4. QED
      BY <3>2, <3>3, <1>6
  <2>3. QED
    BY <2>1, <2>2
<1>8. m \in I
  <2>1. CASE m \notin I
    <3>1. UpTo(m) = below
      BY <2>1, <1>0, <1>a
    <3>2. QED
      BY <3>1, <1>6, <1>7, <1>a
  <2>2. QED
    BY <2>1
<1>9. Cardinality(below) = k - 1
  <2>1. UpTo(m) = below \cup {m} /\ m \notin below
    <3>1. /\ \A j \in I : j <= m <=> j < m \/ j = m
          /\ ~(m < m)
      BY <1>0, <1>a
    <3>2. QED
      BY <3>1, <1>8
  <2>2. Cardinality(UpTo(m)) = Cardinality(below) + 1
    BY <2>1, <1>6, FS_AddElement
  <2>3. QED
    BY <2>2, <1>6, <1>7, <1>a
<1>10. (CHOOSE i \in I : Cardinality({j \in I : j < i}) = k - 1) \in I
  BY <1>8, <1>9
<1>11. QED
  BY <1>10 DEF Nth

\* The operators on finite sets and lists are the same in an instance.
LEMMA Counted ==
  /\ \A S : Pulse!Cardinality(S) = Cardinality(S)
  /\ \A I, k : Pulse!Nth(I, k) = Nth(I, k)
  /\ \A s, I : Pulse!Picked(s, I) = Picked(s, I)
<1>1. \A S : Pulse!Cardinality(S) = Cardinality(S)
  BY DEF Pulse!Cardinality, Cardinality, Pulse!IsFiniteSet, IsFiniteSet
<1>2. \A I, k : Pulse!Nth(I, k) = Nth(I, k)
  BY <1>1 DEF Nth, Pulse!Nth
<1>3. QED
  BY <1>1, <1>2 DEF Picked, Pulse!Picked

\* Each id has a last entry.
LEMMA LastOfIs ==
    ASSUME NEW s \in Seq(Pulse!Insight), NEW k \in DOMAIN s
    PROVE  LET l == Pulse!LastOf(s, s[k].id)
           IN  /\ l \in DOMAIN s /\ s[l].id = s[k].id
               /\ \A j \in (l + 1) .. Len(s) : s[j].id # s[l].id
<1> DEFINE same == {m \in Nat : Len(s) - m \in DOMAIN s /\ s[Len(s) - m].id = s[k].id}
<1>1. Len(s) - k \in same
  OBVIOUS
<1>2. PICK m \in same : \A y \in same : m <= y
  <2> HIDE DEF same
  <2>1. same \in SUBSET Nat
    BY DEF same
  <2>2. QED
    BY <1>1, <2>1, LeastNatural
<1>3. ASSUME NEW j \in (Len(s) - m + 1) .. Len(s) PROVE s[j].id # s[k].id
  <2>1. Len(s) - j \in Nat /\ Len(s) - j < m /\ j \in DOMAIN s
    BY <1>2
  <2>2. Len(s) - j \notin same
    BY <1>2, <2>1
  <2>3. QED
    BY <2>1, <2>2
<1>4. QED
  BY <1>2, <1>3 DEF Pulse!LastOf

\* No later entry has the id of this one.
IsLast(s, k) == \A j \in (k + 1) .. Len(s) : s[j].id # s[k].id

\* An insight that has been deduped has no id, or is the last entry of its own.
LEMMA DedupedAreLast ==
    ASSUME NEW s \in Seq(Pulse!Insight)
    PROVE  /\ Len(Pulse!DedupeInsights(s)) \in Nat
           /\ Pulse!DedupeInsights(s) \in Seq(Pulse!Insight)
           /\ \A i \in DOMAIN Pulse!DedupeInsights(s) :
                  \E k \in DOMAIN s : /\ Pulse!DedupeInsights(s)[i] = s[k]
                                      /\ s[k].id = NoId \/ IsLast(s, k)
<1> DEFINE F == Pulse!FirstEntries(s)
           N == {k \in DOMAIN s : s[k].id = NoId}
           Good == {x \in Pulse!Insight : \E k \in DOMAIN s :
                       x = s[k] /\ (s[k].id = NoId \/ IsLast(s, k))}
           all == Pulse!ById(s) \o Pulse!Picked(s, N)
           cut == IF Len(all) < MAX_INSIGHTS THEN Len(all) ELSE MAX_INSIGHTS
<1>1. /\ F \subseteq DOMAIN s /\ Len(s) \in Nat
      /\ F \in SUBSET (0 .. Len(s)) /\ N \in SUBSET (0 .. Len(s))
      /\ \A j \in F \cup N : j \in Nat /\ j <= Len(s)
  BY DEF Pulse!FirstEntries
<1> HIDE DEF F
<1>2. /\ Cardinality(F) \in Nat /\ Cardinality(N) \in Nat
      /\ IsFiniteSet(F) /\ IsFiniteSet(N)
  <2> HIDE DEF N
  <2>1. QED
    BY <1>1, FiniteIndices
<1>3. Pulse!ById(s) \in Seq(Good)
  <2>1. ASSUME NEW k \in 1 .. Cardinality(F)
        PROVE  s[Pulse!LastOf(s, s[Nth(F, k)].id)] \in Good
    <3> DEFINE j == Nth(F, k)
               l == Pulse!LastOf(s, s[j].id)
    <3>1. j \in DOMAIN s
      <4>1. \A i \in F : i \in Nat /\ i <= Len(s)
        BY <1>1
      <4>2. QED
        BY <1>1, <1>2, <4>1, NthIn
    <3> HIDE DEF j
    <3>2. l \in DOMAIN s /\ IsLast(s, l)
      BY <3>1, LastOfIs DEF IsLast
    <3>3. QED
      BY <3>2 DEF j
  <2> HIDE DEF F, Good
  <2>2. [k \in 1 .. Cardinality(F) |-> s[Pulse!LastOf(s, s[Nth(F, k)].id)]] \in Seq(Good)
    BY <2>1, <1>2
  <2>3. QED
    BY <2>2, Counted DEF Pulse!ById, F
<1>4. Pulse!Picked(s, N) \in Seq(Good)
  <2>1. ASSUME NEW k \in 1 .. Cardinality(N) PROVE s[Nth(N, k)] \in Good
    <3>1. Nth(N, k) \in N
      <4> HIDE DEF N
      <4>1. \A i \in N : i \in Nat /\ i <= Len(s)
        BY <1>1
      <4>2. QED
        BY <1>1, <1>2, <4>1, NthIn
    <3> DEFINE j == Nth(N, k)
    <3>2. j \in DOMAIN s /\ s[j].id = NoId
      BY <3>1
    <3> HIDE DEF j
    <3>3. s[j] \in Good
      BY <3>2
    <3>4. QED
      BY <3>3 DEF j
  <2> HIDE DEF N, Good
  <2>2. [k \in 1 .. Cardinality(N) |-> s[Nth(N, k)]] \in Seq(Good)
    BY <2>1, <1>2
  <2>3. QED
    BY <2>2, Counted DEF Picked
<1>5. all \in Seq(Good)
  BY <1>3, <1>4
<1>6. Good \subseteq Pulse!Insight
  OBVIOUS
<1> HIDE DEF all, Good
<1>7. MAX_INSIGHTS \in Nat
  BY PulseAssumption DEF Pulse!PulseAssumption
<1>8. SubSeq(all, 1, cut) \in Seq(Good)
  BY <1>5, <1>7
<1>9. Pulse!DedupeInsights(s) = SubSeq(all, 1, cut)
  BY DEF Pulse!DedupeInsights, all
<1>10. Pulse!DedupeInsights(s) \in Seq(Good)
  BY <1>8, <1>9
<1>11. QED
  BY <1>10, <1>6 DEF Good
\* What the insights say is what was last announced: an entry that no later one of the
\* same id follows has the last wording of its insight.
PulseWordings ==
    /\ insights \in Seq(Pulse!Insight)
    /\ \A k \in DOMAIN insights :
          insights[k].id # NoId /\ IsLast(insights, k) =>
              insights[k].wording = announced[insights[k].id]
    /\ DOMAIN announced = Id

LEMMA PulseWordingsInit == Pulse!Init => PulseWordings
BY DEF Pulse!Init, PulseWordings

\* Evicting the oldest leaves the last entries where they are from the end.
LEMMA EvictedIs ==
    ASSUME NEW s \in Seq(Pulse!Insight)
    PROVE  /\ Pulse!Evicted(s) \in Seq(Pulse!Insight)
           /\ Len(Pulse!Evicted(s)) <= Len(s)
           /\ \A k \in 1 .. Len(Pulse!Evicted(s)) :
                 Pulse!Evicted(s)[k] = s[k + (Len(s) - Len(Pulse!Evicted(s)))]
<1>1. MAX_ACCUMULATED_INSIGHTS \in Nat \ {0}
  BY PulseAssumption DEF Pulse!PulseAssumption
<1>2. CASE Len(s) <= MAX_ACCUMULATED_INSIGHTS
  BY <1>2 DEF Pulse!Evicted
<1>3. CASE ~(Len(s) <= MAX_ACCUMULATED_INSIGHTS)
  <2> DEFINE d == Len(s) - MAX_ACCUMULATED_INSIGHTS
  <2>1. d \in Nat /\ d <= Len(s) /\ Len(s) \in Nat
    BY <1>1, <1>3
  <2>2. Pulse!Evicted(s) = SubSeq(s, d + 1, Len(s))
    BY <1>3 DEF Pulse!Evicted
  <2> HIDE DEF d
  <2>3. SubSeq(s, d + 1, Len(s)) = [k \in 1 .. (Len(s) - d) |-> s[k + d]]
    BY <2>1
  <2>4. \A k \in 1 .. (Len(s) - d) : s[k + d] \in Pulse!Insight
    BY <2>1
  <2>5. /\ [k \in 1 .. (Len(s) - d) |-> s[k + d]] \in Seq(Pulse!Insight)
        /\ Len([k \in 1 .. (Len(s) - d) |-> s[k + d]]) = Len(s) - d
    BY <2>1, <2>4
  <2> DEFINE r == [k \in 1 .. (Len(s) - d) |-> s[k + d]]
  <2>6. r \in Seq(Pulse!Insight) /\ Len(r) = Len(s) - d /\ Pulse!Evicted(s) = r
    BY <2>2, <2>3, <2>5
  <2>7. \A k \in 1 .. Len(r) : r[k] = s[k + (Len(s) - Len(r))]
    BY <2>1, <2>5
  <2>8. QED
    BY <2>1, <2>6, <2>7
<1>4. QED
  BY <1>2, <1>3

\* A new insight has its own wording; those it does not follow keep theirs.
LEMMA RecordKeepsWordings ==
    ASSUME PulseWordings, NEW id \in Id \cup {NoId}, NEW v \in Value,
           insights' = Pulse!Evicted(Append(insights, [id |-> id, wording |-> v])),
           announced' = IF id = NoId THEN announced ELSE [announced EXCEPT ![id] = v]
    PROVE  PulseWordings'
<1> DEFINE e == [id |-> id, wording |-> v]
           a == Append(insights, e)
<1>1. e \in Pulse!Insight /\ insights \in Seq(Pulse!Insight)
  BY DEF Pulse!Insight, PulseWordings
<1>2. /\ a \in Seq(Pulse!Insight) /\ Len(a) = Len(insights) + 1 /\ Len(insights) \in Nat
      /\ a[Len(a)] = e /\ \A k \in DOMAIN insights : a[k] = insights[k]
  BY <1>1
<1> HIDE DEF a
<1> DEFINE d == Len(a) - Len(insights')
<1>3. /\ insights' \in Seq(Pulse!Insight) /\ Len(insights') <= Len(a)
      /\ \A k \in 1 .. Len(insights') : insights'[k] = a[k + d]
  BY <1>2, EvictedIs DEF a
<1>4. ASSUME NEW k \in DOMAIN insights', insights'[k].id # NoId, IsLast(insights', k)
      PROVE  insights'[k].wording = announced'[insights'[k].id]
  <2>1. /\ k \in 1 .. Len(insights') /\ k + d \in 1 .. Len(a) /\ insights'[k] = a[k + d]
        /\ k \in Nat
    BY <1>2, <1>3
  <2>2. ASSUME NEW j \in (k + d + 1) .. Len(a) PROVE a[j].id # a[k + d].id
    <3>1. /\ j - d \in (k + 1) .. Len(insights') /\ j - d \in 1 .. Len(insights')
          /\ (j - d) + d = j
      BY <1>2, <1>3, <2>1
    <3>2. insights'[j - d] = a[j]
      BY <1>3, <3>1
    <3>3. QED
      BY <1>4, <2>1, <3>1, <3>2 DEF IsLast
  <2>3. CASE k + d = Len(a)
    <3>1. id # NoId /\ insights'[k] = e /\ id \in Id
      BY <1>2, <1>4, <2>1, <2>3
    <3>2. announced'[id] = v
      BY <3>1 DEF PulseWordings
    <3>3. QED
      BY <3>1, <3>2
  <2>4. CASE k + d # Len(a)
    <3> DEFINE i == k + d
    <3>1. i \in DOMAIN insights /\ Len(a) \in (i + 1) .. Len(a)
      BY <1>2, <2>1, <2>4
    <3>2. insights'[k] = insights[i] /\ insights[i].id # NoId
      BY <1>2, <1>4, <2>1, <3>1
    <3>3. insights[i].id # id
      <4>1. a[Len(a)].id = id /\ a[i] = insights[i]
        BY <1>2, <3>1
      <4>2. QED
        BY <2>2, <3>1, <4>1
    <3>4. IsLast(insights, i)
      <4> SUFFICES ASSUME NEW j \in (i + 1) .. Len(insights)
                   PROVE  insights[j].id # insights[i].id
        BY DEF IsLast
      <4>1. j \in (i + 1) .. Len(a) /\ j \in DOMAIN insights
        BY <1>2, <3>1
      <4>2. QED
        BY <1>2, <2>2, <3>1, <4>1
    <3>5. insights[i].wording = announced[insights[i].id]
      BY <3>1, <3>2, <3>4 DEF PulseWordings
    <3>6. announced'[insights[i].id] = announced[insights[i].id]
      BY <3>2, <3>3
    <3>7. QED
      BY <3>2, <3>5, <3>6
  <2>5. QED
    BY <2>3, <2>4
<1>5. DOMAIN announced' = Id
  BY DEF PulseWordings
<1>6. QED
  BY <1>3, <1>4, <1>5 DEF PulseWordings

LEMMA PulseWordingsStep == PulseWordings /\ [Pulse!Next]_(Pulse!vars) => PulseWordings'
<1> SUFFICES ASSUME PulseWordings, [Pulse!Next]_(Pulse!vars) PROVE PulseWordings'
  OBVIOUS
<1>1. ASSUME UNCHANGED <<insights, announced>> PROVE PulseWordings'
  BY <1>1 DEF PulseWordings, IsLast
<1>2. CASE Pulse!PulseEvent(Pulse!RecordInsight)
  BY <1>1, <1>2, RecordKeepsWordings DEF Pulse!PulseEvent, Pulse!RecordInsight
<1>3. CASE Pulse!PulseEvent(Pulse!FiltersChange) \/ Pulse!PulseEvent(Pulse!TimeChanges)
  BY <1>1, <1>3 DEF Pulse!PulseEvent, Pulse!FiltersChange, Pulse!TimeChanges
<1>4. CASE Pulse!PulseLoaded \/ Pulse!TimerFires \/ Pulse!Dispose
  BY <1>1, <1>4 DEF Pulse!PulseLoaded, Pulse!TimerFires, Pulse!RunCaptureReturnsEarly,
     Pulse!StartCapture, Pulse!Dispose, Pulse!data
<1>5. CASE Pulse!RunCapture
  BY <1>1, <1>5 DEF Pulse!RunCapture, Pulse!GetFilters, Pulse!GetTimeDimension,
     Pulse!Captured, Pulse!PushSettles, Pulse!LastPushSettles, Pulse!data
<1>6. CASE UNCHANGED Pulse!vars
  BY <1>1, <1>6 DEF Pulse!vars, Pulse!data
<1>7. QED
  BY <1>2, <1>3, <1>4, <1>5, <1>6 DEF Pulse!Next

-----------------------------------------------------------------------------
\* A list that is halved gets no longer: there is a length to halve it to, since the
\* least of the lengths is none.
LEMMA HalvedShortens ==
    ASSUME NEW n \in Nat, NEW k \in 1 .. n
    PROVE  Pulse!Halved(n, k) \in 0 .. n
<1> DEFINE H == Pulse!Halvings(n)
           S == {m \in H : m + k <= n}
           T == {d \in Nat : n - d \in S}
<1>1. H \subseteq 0 .. n /\ n \in H
  BY DEF Pulse!Halvings
<1>2. \A m \in H : m \div 2 \in H
  <2> SUFFICES ASSUME NEW m \in H PROVE m \div 2 \in H
    OBVIOUS
  <2>1. m \in 0 .. n /\ m \div 2 \in 0 .. n
    BY <1>1
  <2>2. QED
    BY <2>1 DEF Pulse!Halvings
<1> HIDE DEF H
<1>3. 0 \in H
  <2>1. H \in SUBSET Nat /\ H # {}
    BY <1>1
  <2>2. PICK l \in H : \A y \in H : l <= y
    BY <2>1, LeastNatural
  <2>3. l \in Nat /\ l <= l \div 2
    BY <1>2, <2>1, <2>2
  <2>4. l = 0
    BY <2>3
  <2>5. QED
    BY <2>2, <2>4
<1>4. \A m \in S : m \in Nat /\ m <= n /\ n - m \in T
  BY <1>1
<1>5. n \in T
  BY <1>3
<1>6. PICK d \in T : \A y \in T : d <= y
  <2> HIDE DEF T
  <2>1. T \in SUBSET Nat
    BY DEF T
  <2>2. QED
    BY <1>5, <2>1, LeastNatural
<1>7. n - d \in S /\ d \in Nat
  BY <1>6
<1>8. \A j \in S : j <= n - d
  <2> SUFFICES ASSUME NEW j \in S PROVE j <= n - d
    OBVIOUS
  <2> HIDE DEF S, T
  <2>1. j \in Nat /\ j <= n /\ d <= n - j
    BY <1>4, <1>6
  <2>2. QED
    BY <1>7, <2>1
<1>9. Pulse!Halved(n, k) \in H
  BY <1>7, <1>8 DEF Pulse!Halved, H
<1>10. QED
  BY <1>1, <1>9

\* What is left of the insights when a text is made poorer: a beginning of them.
Begins(r, s) == \A i \in DOMAIN r : i \in DOMAIN s /\ r[i] = s[i]

LEMMA LadderKeepsOrder ==
    ASSUME NEW p, p.insights \in Seq(Pulse!Insight)
    PROVE  \A n \in 1 .. Len(Pulse!Ladder(Pulse!Text(p))) :
               Begins(Pulse!Ladder(Pulse!Text(p))[n].insights, p.insights)
<1> DEFINE t == Pulse!Text(p)
           s == p.insights
           quiet == [t EXCEPT !.prose = FALSE]
           half(k) == [quiet EXCEPT !.insights = SubSeq(@, 1, Pulse!Halved(Len(@), k))]
           halved == [k \in 1 .. Len(t.insights) |-> half(k)]
           plain == [quiet EXCEPT !.insights = << >>, !.values = FALSE]
           identity == [plain EXCEPT !.filters = Blank, !.time = Blank,
                                     !.errors = @ \cup {"identity only"}]
           S == {t, quiet, plain, identity} \cup {half(k) : k \in 1 .. Len(s)}
<1>1. /\ t.insights = s /\ quiet.insights = s
      /\ plain.insights = << >> /\ identity.insights = << >>
  BY DEF Pulse!Text
<1>2. Len(s) \in Nat
  OBVIOUS
<1>4. ASSUME NEW k \in 1 .. Len(s) PROVE Begins(half(k).insights, s)
  <2> DEFINE m == Pulse!Halved(Len(s), k)
  <2>1. half(k).insights = SubSeq(s, 1, m)
    BY <1>1 DEF Pulse!Text
  <2>2. m \in Nat /\ m <= Len(s)
    BY <1>2, HalvedShortens
  <2> HIDE DEF half, m
  <2>3. SubSeq(s, 1, m) = [i \in 1 .. m |-> s[i]]
    BY <1>2, <2>2
  <2>4. \A i \in 1 .. m : i \in DOMAIN s
    BY <1>2, <2>2
  <2> HIDE DEF s
  <2>5. QED
    BY <2>1, <2>3, <2>4 DEF Begins
<1>5. \A r \in S : Begins(r.insights, s)
  <2>1. Begins(s, s) /\ Begins(<< >>, s)
    BY DEF Begins
  <2> HIDE DEF t, quiet, half, plain, identity
  <2>2. QED
    BY <1>1, <1>4, <2>1
<1>6. Pulse!Ladder(t) = <<t, quiet>> \o halved \o <<plain, identity>>
  BY DEF Pulse!Ladder
<1>7. t.insights = s
  BY <1>1
<1> HIDE DEF t, quiet, half, plain, identity
<1>8. halved \in Seq(S) /\ <<t, quiet>> \in Seq(S) /\ <<plain, identity>> \in Seq(S)
  BY <1>2, <1>7
<1> HIDE DEF halved, S
<1>9. Pulse!Ladder(t) \in Seq(S)
  BY <1>6, <1>8
<1>10. QED
  BY <1>5, <1>9 DEF t

\* So what is pushed lists a beginning of the insights, or none.
LEMMA FitKeepsOrder ==
    ASSUME NEW p, p.insights \in Seq(Pulse!Insight)
    PROVE  Begins(Pulse!Fit(Pulse!Text(p)).insights, p.insights)
<1> DEFINE t == Pulse!Text(p)
           rungs == Pulse!Ladder(t)
           I     == {i \in 1 .. Len(rungs) : Pulse!PayloadBytes(rungs[i]) <= Budget}
           First == CHOOSE x \in I : \A y \in I : x <= y
<1>1. Pulse!Fit(t) = IF I = {} THEN Pulse!BudgetFailure
                     ELSE IF First = 0 THEN Pulse!BudgetFailure ELSE rungs[First]
  BY DEF Pulse!Fit, Pulse!SelectInSeq, Pulse!Min
<1>2. Begins(Pulse!BudgetFailure.insights, p.insights)
  BY DEF Begins, Pulse!BudgetFailure
<1>3. ASSUME I # {} PROVE First \in I
  <2>1. I \in SUBSET Nat
    OBVIOUS
  <2> HIDE DEF I
  <2>2. QED
    BY <1>3, <2>1, LeastNatural
<1>4. ASSUME I # {} PROVE Begins(rungs[First].insights, p.insights)
  <2>1. First \in 1 .. Len(rungs)
    BY <1>3, <1>4
  <2> HIDE DEF First
  <2>2. QED
    BY <2>1, LadderKeepsOrder
<1>5. QED
  BY <1>1, <1>2, <1>4

\* A bridge at rest has told what it would gather now, and what it would gather has the
\* last wordings.
LEMMA RestHasLastWordings ==
    PulseWordings /\ Pulse!ContextIsOfThePresent => Pulse!WordingsAreTheLast
<1> SUFFICES ASSUME PulseWordings, Pulse!ContextIsOfThePresent, Pulse!Settled,
                    NEW i \in DOMAIN shown.insights
             PROVE  \/ shown.insights[i].id = NoId
                    \/ shown.insights[i].wording = announced[shown.insights[i].id]
  BY DEF Pulse!WordingsAreTheLast
<1> DEFINE deduped == Pulse!DedupeInsights(insights)
<1>1. PICK f, t, e : shown = Pulse!Fit(Pulse!Present(f, t, e))
  BY DEF Pulse!ContextIsOfThePresent
<1> DEFINE p == [compact |-> metric.compact, insights |-> deduped,
                 filters |-> f, time |-> t, errors |-> e]
<1>2. shown = Pulse!Fit(Pulse!Text(p))
  BY <1>1 DEF Pulse!Present
<1>3. p.insights = deduped /\ deduped \in Seq(Pulse!Insight) /\ insights \in Seq(Pulse!Insight)
  BY DedupedAreLast DEF PulseWordings
<1>4. i \in DOMAIN deduped /\ shown.insights[i] = deduped[i]
  <2> HIDE DEF p
  <2>1. Begins(shown.insights, p.insights)
    BY <1>2, <1>3, FitKeepsOrder
  <2>2. QED
    BY <1>3, <2>1 DEF Begins
<1>5. PICK k \in DOMAIN insights :
          /\ deduped[i] = insights[k]
          /\ insights[k].id = NoId \/ IsLast(insights, k)
  BY <1>3, <1>4, DedupedAreLast
<1>6. QED
  BY <1>4, <1>5 DEF PulseWordings

\* A Pulse bridge at rest has told the host what is on the screen, within the budget, with
\* each insight in the wording announced last, for any insights, settings, sizes of the
\* buffer and costs (pulseStateBridge.ts:82-214, capturePulseState.ts:224-243,
\* pulsePayload.ts:110-181).
THEOREM PulseStaysCurrent == Pulse!Spec => []SettledIsCurrent
<1>1. PulseWordings /\ Pulse!ContextFitsBudget /\ Pulse!ContextIsOfThePresent
      => SettledIsCurrent
  BY RestHasLastWordings DEF SettledIsCurrent, Pulse!SettledIsCurrent
<1>2. QED
  BY <1>1, PulseWordingsInit, PulseWordingsStep, RestingPulseIsCurrent, PulsePushFits, PTL
  DEF Pulse!Spec

-----------------------------------------------------------------------------
(* The expiring map and the long timer.                                    *)

\* The keys of a Map are distinct.
Distinct(s) == \A i, l \in DOMAIN s : s[i] = s[l] => i = l

\* What remains of distinct keys when one is removed: the others.
LEMMA RemoveFirstFacts ==
    ASSUME NEW s \in Seq(Key), Distinct(s), NEW e, NEW r, r = Expiring!RemoveFirst(s, e)
    PROVE  /\ r \in Seq(Key) /\ Distinct(r) /\ Len(r) <= Len(s)
           /\ \A i \in DOMAIN r : r[i] # e /\ \E l \in DOMAIN s : s[l] = r[i]
<1> DEFINE I == {i \in 1 .. Len(s) : s[i] = e}
           n == CHOOSE x \in I : \A y \in I : x <= y
<1>1. CASE I = {}
  <2>1. r = s
    BY <1>1 DEF Expiring!RemoveFirst
  <2>2. QED
    BY <1>1, <2>1
<1>2. CASE I # {}
  <2> DEFINE A == SubSeq(s, 1, n - 1)
             B == SubSeq(s, n + 1, Len(s))
  <2>1. n \in 1 .. Len(s) /\ s[n] = e
    <3>1. I \in SUBSET Nat /\ \A i \in I : i \in 1 .. Len(s) /\ s[i] = e
      OBVIOUS
    <3> HIDE DEF I
    <3>2. n \in I
      BY <1>2, <3>1, LeastNatural
    <3>3. QED
      BY <3>1, <3>2
  <2>2. r = A \o B
    BY <1>2 DEF Expiring!RemoveFirst, Expiring!RemoveAt, Expiring!SelectInSeq, Expiring!Min
  <2> HIDE DEF n, I
  <2>3. A \in Seq(Key) /\ Len(A) = n - 1 /\ \A i \in 1 .. n - 1 : A[i] = s[i]
    BY <2>1
  <2>4. B \in Seq(Key) /\ Len(B) = Len(s) - n /\ \A i \in 1 .. Len(s) - n : B[i] = s[n + i]
    BY <2>1
  <2> HIDE DEF A, B
  <2>5. r \in Seq(Key) /\ Len(r) = Len(s) - 1
    BY <2>1, <2>2, <2>3, <2>4
  <2>6. \A i \in 1 .. Len(r) : r[i] = IF i < n THEN s[i] ELSE s[i + 1]
    <3>1. SUFFICES ASSUME NEW i \in 1 .. Len(r)
                   PROVE  r[i] = IF i < n THEN s[i] ELSE s[i + 1]
      OBVIOUS
    <3>2. CASE i < n
      BY <2>1, <2>2, <2>3, <2>4, <2>5, <3>2
    <3>3. CASE ~(i < n)
      <4>1. r[i] = B[i - (n - 1)]
        BY <2>1, <2>2, <2>3, <2>4, <2>5, <3>3
      <4>2. i - (n - 1) \in 1 .. Len(s) - n /\ n + (i - (n - 1)) = i + 1
        BY <2>1, <2>5, <3>3
      <4>3. QED
        BY <2>4, <3>3, <4>1, <4>2
    <3>4. QED
      BY <3>2, <3>3
  <2> DEFINE from(i) == IF i < n THEN i ELSE i + 1
  <2>7. /\ \A i \in 1 .. Len(r) : from(i) \in 1 .. Len(s) /\ from(i) # n /\ r[i] = s[from(i)]
        /\ \A i, l \in 1 .. Len(r) : from(i) = from(l) => i = l
    BY <2>1, <2>5, <2>6
  <2> HIDE DEF from
  <2>8. \A i, l \in 1 .. Len(s) : s[i] = s[l] => i = l
    BY DEF Distinct
  <2>9. ASSUME NEW i \in 1 .. Len(r), NEW l \in 1 .. Len(r), r[i] = r[l]
        PROVE  i = l
    <3>1. s[from(i)] = s[from(l)]
      BY <2>7, <2>9
    <3>2. from(i) = from(l)
      BY <2>7, <2>8, <3>1
    <3>3. QED
      BY <2>7, <3>2
  <2>10. Distinct(r)
    BY <2>5, <2>9 DEF Distinct
  <2>11. \A i \in 1 .. Len(r) : r[i] # e /\ \E l \in 1 .. Len(s) : s[l] = r[i]
    BY <2>1, <2>7, <2>8
  <2>12. QED
    BY <2>5, <2>10, <2>11
<1>3. QED
  BY <1>1, <1>2

\* A key added at the end.
LEMMA AppendFacts ==
    ASSUME NEW s \in Seq(Key), Distinct(s), NEW k \in Key, k \notin Expiring!ToSet(s)
    PROVE  /\ Append(s, k) \in Seq(Key) /\ Distinct(Append(s, k))
           /\ Len(Append(s, k)) = Len(s) + 1
           /\ \A i \in DOMAIN Append(s, k) :
                 Append(s, k)[i] = k \/ \E l \in DOMAIN s : s[l] = Append(s, k)[i]
           /\ Len(s) > 0 => Head(Append(s, k)) # k
BY DEF Distinct, Expiring!ToSet

\* What remains of distinct keys when the oldest goes: the others.
LEMMA TailFacts ==
    ASSUME NEW s \in Seq(Key), Distinct(s), Len(s) > 0
    PROVE  /\ Tail(s) \in Seq(Key) /\ Distinct(Tail(s)) /\ Len(Tail(s)) = Len(s) - 1
           /\ Head(s) \in Key
           /\ \A i \in DOMAIN Tail(s) :
                 Tail(s)[i] # Head(s) /\ \E l \in DOMAIN s : s[l] = Tail(s)[i]
<1>1. Tail(s) \in Seq(Key) /\ Len(Tail(s)) = Len(s) - 1 /\ Head(s) = s[1] /\ s[1] \in Key
  OBVIOUS
<1>2. \A i \in 1 .. Len(Tail(s)) : Tail(s)[i] = s[i + 1]
  OBVIOUS
<1>3. QED
  BY <1>1, <1>2 DEF Distinct

\* The types of what the proofs look at; keys are distinct, and at most MaxSize.
MapTypes ==
    /\ order \in Seq(Key) /\ Distinct(order)
    /\ MaxSize > 0 => Len(order) <= MaxSize
    /\ timeouts \in [Key -> Nat \cup {None}] /\ life \in [Key -> Nat]
    /\ nextId \in Nat \ {0} /\ now \in Nat

\* A timer that is set is the one of its key, due when the entry's life ends.
TimersAreOwned ==
    \A t \in timers : /\ t.key \in Key /\ t.id \in Nat /\ timeouts[t.key] = t.id
                      /\ t.at = life[t.key]

\* No two keys share a timer, and ids are given out once.
IdsAreIssued ==
    /\ \A k \in Key : timeouts[k] # None => timeouts[k] < nextId
    /\ \A k, l \in Key : timeouts[k] = timeouts[l] /\ timeouts[k] # None => k = l

\* An entry of the Map has its timer.
Timed(k) == \E t \in timers : t.key = k /\ t.id = timeouts[k]
EntriesAreTimed == \A i \in DOMAIN order : Timed(order[i])

\* What is left of a long delay reaches as far as was asked for.
LongReaches == long # None => /\ long.at \in Nat /\ long.rest \in Nat
                              /\ wish \in Nat /\ wish <= long.at + long.rest

\* The invariant of the map and of the long timer.
MapInv == MapTypes /\ TimersAreOwned /\ IdsAreIssued /\ EntriesAreTimed /\ LongReaches

LEMMA MapInit == Expiring!Init => MapInv
<1> SUFFICES ASSUME Expiring!Init PROVE MapInv
  OBVIOUS
<1> USE TimeAssumption DEF Expiring!Init, Expiring!TimeAssumption
<1>1. MapTypes
  BY DEF MapTypes, Distinct
<1>2. TimersAreOwned /\ EntriesAreTimed /\ LongReaches
  BY DEF TimersAreOwned, EntriesAreTimed, LongReaches
<1>3. IdsAreIssued
  BY DEF IdsAreIssued
<1>4. QED
  BY <1>1, <1>2, <1>3 DEF MapInv

\* No delay that set admits is beyond what setTimeout can take.
LEMMA DueOf ==
    ASSUME MapTypes, NEW ms \in Nat, ms <= MAX_DELAY
    PROVE  Expiring!Due(ms) = now + ms
BY TimeAssumption DEF MapTypes, Expiring!Due, Expiring!TimeAssumption

\* A key goes with its timer, and only that.
LEMMA UnsetKeeps ==
    ASSUME MapInv, NEW k \in Key, NEW pending \in SUBSET timers,
           \A t \in timers \ pending : t.id = timeouts[k],
           Expiring!Unset(k, pending), UNCHANGED <<life, nextId, long, wish, now>>
    PROVE  MapInv'
<1> USE DEF MapInv
<1>1. /\ order' \in Seq(Key) /\ Distinct(order') /\ Len(order') <= Len(order)
      /\ \A i \in DOMAIN order' : order'[i] # k /\ \E l \in DOMAIN order : order[l] = order'[i]
  BY RemoveFirstFacts DEF Expiring!Unset, MapTypes
<1>2. /\ timeouts' = [timeouts EXCEPT ![k] = None]
      /\ timers' = {t \in pending : t.id # timeouts[k]}
  BY DEF Expiring!Unset, Expiring!WithoutTimer
<1>3. None \notin Nat /\ MaxSize \in Nat
  BY TimeAssumption DEF Expiring!TimeAssumption
<1>4. timers' = {t \in timers : t.id # timeouts[k]}
  BY <1>2
<1>5. MapTypes'
  BY <1>1, <1>2, <1>3 DEF MapTypes
<1>6. TimersAreOwned'
  BY <1>2, <1>4 DEF TimersAreOwned, MapTypes
<1>7. IdsAreIssued'
  BY <1>2 DEF IdsAreIssued, MapTypes
<1>8. EntriesAreTimed'
  <2> SUFFICES ASSUME NEW i \in DOMAIN order' PROVE Timed(order[i])'
    BY DEF EntriesAreTimed
  <2>1. PICK l \in DOMAIN order : order[l] = order'[i]
    BY <1>1
  <2>2. order'[i] \in Key /\ order'[i] # k
    BY <1>1
  <2>3. PICK t \in timers : t.key = order'[i] /\ t.id = timeouts[order'[i]]
    BY <2>1 DEF EntriesAreTimed, Timed
  <2>4. t.id # timeouts[k]
    BY <1>3, <2>2, <2>3 DEF IdsAreIssued, TimersAreOwned, MapTypes
  <2>5. t \in timers' /\ timeouts'[order'[i]] = t.id
    BY <1>2, <1>4, <2>2, <2>3, <2>4 DEF MapTypes
  <2>6. QED
    BY <2>3, <2>5 DEF Timed
<1>9. LongReaches'
  BY DEF LongReaches
<1>10. QED
  BY <1>5, <1>6, <1>7, <1>8, <1>9

\* A key that is set: the entry gets a timer of its own, and the oldest goes if
\* there are too many, which is never the one that is set.
LEMMA SetKeeps ==
    ASSUME MapInv, NEW k \in Key, NEW ms \in Delay, Expiring!Set(k, ms)
    PROVE  MapInv'
<1> DEFINE keys == IF k \in Expiring!ToSet(order) THEN order ELSE Append(order, k)
           evicted == Expiring!Evicted(keys)
           new  == [id |-> nextId, key |-> k, at |-> Expiring!Due(ms)]
           left == {t \in Expiring!CurrentTimers(k) : \A g \in evicted : t.id # timeouts[g]}
<1> USE DEF MapInv
<1>1. /\ None \notin Nat /\ MaxSize \in Nat /\ ms \in Nat
      /\ Expiring!Due(ms) = now + ms
  BY DueOf, TimeAssumption DEF Expiring!TimeAssumption, Expiring!Set
<1>2. /\ order' = IF evicted = {} THEN keys ELSE Tail(keys)
      /\ timers' = left \cup {new}
      /\ timeouts' = [x \in Key |-> IF x = k THEN nextId
                                    ELSE IF x \in evicted THEN None ELSE timeouts[x]]
      /\ life' = [life EXCEPT ![k] = now + ms]
      /\ nextId' = nextId + 1 /\ UNCHANGED <<long, wish, now>>
  BY DEF Expiring!Set, Expiring!longVars
<1>3. /\ keys \in Seq(Key) /\ Distinct(keys)
      /\ \A i \in DOMAIN keys : keys[i] = k \/ \E l \in DOMAIN order : order[l] = keys[i]
      /\ MaxSize > 0 => Len(keys) <= MaxSize + 1
  BY <1>1, AppendFacts DEF MapTypes
<1>4. evicted # {} => /\ Len(keys) > 0 /\ MaxSize > 0 /\ evicted = {Head(keys)} /\ Head(keys) # k
  <2>1. CASE k \in Expiring!ToSet(order)
    <3>1. keys = order
      BY <2>1
    <3> HIDE DEF keys
    <3>2. QED
      BY <1>1, <3>1 DEF Expiring!Evicted, MapTypes
  <2>2. CASE k \notin Expiring!ToSet(order)
    <3>1. keys = Append(order, k) /\ Len(keys) = Len(order) + 1
      BY <2>2 DEF MapTypes
    <3>2. Len(order) > 0 => Head(keys) # k
      BY <2>2, <3>1, AppendFacts DEF MapTypes
    <3> HIDE DEF keys
    <3>3. QED
      BY <1>1, <1>3, <3>1, <3>2 DEF Expiring!Evicted, MapTypes
  <2>3. QED
    BY <2>1, <2>2
<1>5. /\ timers' = {t \in timers : t.id # timeouts[k] /\ \A g \in evicted : t.id # timeouts[g]}
                   \cup {new}
  BY <1>2 DEF Expiring!CurrentTimers, Expiring!WithoutTimer
<1>6. k \notin evicted /\ evicted \in SUBSET Key
  <2>1. evicted # {} => Head(keys) \in Key
    <3> HIDE DEF keys, evicted
    <3>1. QED
      BY <1>3, <1>4, TailFacts
  <2>2. QED
    BY <1>4, <2>1
<1>7. /\ order' \in Seq(Key) /\ Distinct(order')
      /\ MaxSize > 0 => Len(order') <= MaxSize
      /\ \A i \in DOMAIN order' : /\ order'[i] \notin evicted
                                  /\ order'[i] = k \/ \E l \in DOMAIN order : order[l] = order'[i]
  <2>1. CASE evicted = {}
    <3> HIDE DEF keys
    <3>1. MaxSize > 0 => Len(keys) <= MaxSize
      <4>1. Len(keys) \in Nat
        BY <1>3
      <4>2. ~(MaxSize > 0 /\ Len(keys) > MaxSize)
        BY <2>1 DEF Expiring!Evicted
      <4>3. QED
        BY <1>1, <4>1, <4>2
    <3> HIDE DEF evicted
    <3>2. QED
      BY <1>2, <1>3, <2>1, <3>1
  <2>2. CASE evicted # {}
    <3> HIDE DEF keys, evicted
    <3>1. /\ Tail(keys) \in Seq(Key) /\ Distinct(Tail(keys)) /\ Len(Tail(keys)) = Len(keys) - 1
          /\ \A i \in DOMAIN Tail(keys) : /\ Tail(keys)[i] # Head(keys)
                                          /\ \E l \in DOMAIN keys : keys[l] = Tail(keys)[i]
      BY <1>3, <1>4, <2>2, TailFacts
    <3>2. order' = Tail(keys) /\ evicted = {Head(keys)}
      BY <1>2, <1>4, <2>2
    <3>3. MaxSize > 0 => Len(order') <= MaxSize
      BY <1>1, <1>3, <3>1, <3>2
    <3>4. QED
      BY <1>3, <3>1, <3>2, <3>3
  <2>3. QED
    BY <2>1, <2>2
<1> HIDE DEF keys, evicted, left
<1>8. MapTypes'
  BY <1>1, <1>2, <1>7 DEF MapTypes
<1>9. TimersAreOwned'
  <2> SUFFICES ASSUME NEW t \in timers'
               PROVE  /\ t.key \in Key /\ t.id \in Nat /\ timeouts'[t.key] = t.id
                      /\ t.at = life'[t.key]
    BY DEF TimersAreOwned
  <2>1. CASE t = new
    BY <1>1, <1>2, <2>1 DEF MapTypes
  <2>2. CASE t \in timers /\ t.id # timeouts[k] /\ \A g \in evicted : t.id # timeouts[g]
    <3>1. t.key # k /\ t.key \notin evicted
      BY <2>2 DEF TimersAreOwned
    <3>2. QED
      BY <1>2, <2>2, <3>1 DEF TimersAreOwned, MapTypes
  <2>3. QED
    BY <1>5, <2>1, <2>2
<1>10. IdsAreIssued'
  <2>1. \A x \in Key : timeouts'[x] # None => \/ x = k /\ timeouts'[x] = nextId
                                              \/ x # k /\ timeouts'[x] = timeouts[x]
    BY <1>2
  <2>2. \A x \in Key : timeouts[x] # None => timeouts[x] \in Nat /\ timeouts[x] < nextId
    BY DEF MapTypes, IdsAreIssued
  <2>3. QED
    BY <1>1, <1>2, <2>1, <2>2 DEF IdsAreIssued, MapTypes
<1>11. EntriesAreTimed'
  <2> SUFFICES ASSUME NEW i \in DOMAIN order' PROVE Timed(order[i])'
    BY DEF EntriesAreTimed
  <2> DEFINE x == order'[i]
  <2>1. x \in Key /\ x \notin evicted /\ (x = k \/ \E l \in DOMAIN order : order[l] = x)
    BY <1>7
  <2>2. CASE x = k
    <3>1. new \in timers' /\ new.key = x /\ new.id = timeouts'[x]
      BY <1>2, <1>5, <2>2
    <3>2. QED
      BY <3>1 DEF Timed
  <2>3. CASE x # k
    <3>1. PICK t \in timers : t.key = x /\ t.id = timeouts[x]
      BY <2>1, <2>3 DEF EntriesAreTimed, Timed
    <3>2. t.id \in Nat /\ t.id # None
      BY <1>1 DEF TimersAreOwned
    <3>3. t.id # timeouts[k] /\ \A g \in evicted : t.id # timeouts[g]
      BY <1>6, <2>1, <2>3, <3>1, <3>2 DEF IdsAreIssued
    <3>4. t \in timers' /\ t.id = timeouts'[x]
      BY <1>2, <1>5, <2>1, <2>3, <3>1, <3>3
    <3>5. QED
      BY <3>1, <3>4 DEF Timed
  <2>4. QED
    BY <2>2, <2>3
<1>12. LongReaches'
  BY <1>2 DEF LongReaches
<1>13. QED
  BY <1>8, <1>9, <1>10, <1>11, <1>12

\* A leg and what is left after it make up the delay.
LEMMA LegReaches ==
    ASSUME MapTypes, NEW delay \in Nat
    PROVE  /\ Expiring!Leg(delay).at \in Nat /\ Expiring!Leg(delay).rest \in Nat
           /\ Expiring!Leg(delay).at + Expiring!Leg(delay).rest = now + delay
BY TimeAssumption DEF MapTypes, Expiring!Leg, Expiring!Due, Expiring!TimeAssumption

LEMMA MapStep == MapInv /\ [Expiring!Next]_(Expiring!vars) => MapInv'
<1> SUFFICES ASSUME MapInv, [Expiring!Next]_(Expiring!vars) PROVE MapInv'
  OBVIOUS
<1> USE DEF MapInv
<1>1. ASSUME NEW k \in Key, NEW ms \in Delay, Expiring!Set(k, ms) PROVE MapInv'
  BY <1>1, SetKeeps
<1>2. ASSUME NEW k \in Key, Expiring!Delete(k) PROVE MapInv'
  BY <1>2, UnsetKeeps DEF Expiring!Delete, Expiring!longVars
<1>3. CASE Expiring!Clear
  <2>1. /\ order' = << >> /\ timeouts' = [k \in Key |-> None] /\ timers' = {}
        /\ UNCHANGED <<life, nextId, long, wish, now>>
    BY <1>3 DEF Expiring!Clear, Expiring!longVars, TimersAreOwned
  <2>2. None \notin Nat /\ MaxSize \in Nat
    BY TimeAssumption DEF Expiring!TimeAssumption
  <2>3. MapTypes'
    BY <2>1, <2>2 DEF MapTypes, Distinct
  <2>4. QED
    BY <2>1, <2>3 DEF TimersAreOwned, IdsAreIssued, EntriesAreTimed, LongReaches
<1>4. ASSUME NEW t \in timers, Expiring!Expire(t) PROVE MapInv'
  <2>1. t.key \in Key /\ t.id = timeouts[t.key]
    BY DEF TimersAreOwned
  <2>2. QED
    BY <1>4, <2>1, UnsetKeeps DEF Expiring!Expire, Expiring!longVars
<1>5. ASSUME UNCHANGED <<order, timeouts, timers, life, nextId>>, now' \in Nat, LongReaches'
      PROVE  MapInv'
  <2>1. MapTypes' /\ TimersAreOwned' /\ IdsAreIssued'
    BY <1>5 DEF MapTypes, TimersAreOwned, IdsAreIssued
  <2>2. EntriesAreTimed'
    BY <1>5 DEF EntriesAreTimed, Timed
  <2>3. QED
    BY <1>5, <2>1, <2>2
<1>6. ASSUME NEW delay \in LongDelay, Expiring!SetLongTimeout(delay) PROVE MapInv'
  <2>1. delay \in Nat
    BY TimeAssumption DEF Expiring!TimeAssumption
  <2>2. long' = Expiring!Leg(delay) /\ wish' = now + delay
    BY <1>6 DEF Expiring!SetLongTimeout
  <2>4. LongReaches'
    <3>1. /\ Expiring!Leg(delay).at \in Nat /\ Expiring!Leg(delay).rest \in Nat
          /\ Expiring!Leg(delay).at + Expiring!Leg(delay).rest = now + delay
      BY <2>1, LegReaches
    <3>2. now + delay \in Nat
      BY <2>1 DEF MapTypes
    <3>3. QED
      BY <2>2, <3>1, <3>2 DEF LongReaches
  <2>3. QED
    BY <1>5, <1>6, <2>4 DEF Expiring!SetLongTimeout, Expiring!mapVars, MapTypes
<1>7. CASE Expiring!NextLeg
  <2>1. LongReaches'
    BY <1>7, LegReaches DEF Expiring!NextLeg, LongReaches, MapTypes
  <2>2. QED
    BY <1>5, <1>7, <2>1 DEF Expiring!NextLeg, Expiring!mapVars, MapTypes
<1>8. CASE Expiring!Callback
  BY <1>5, <1>8 DEF Expiring!Callback, Expiring!mapVars, LongReaches, MapTypes
<1>9. CASE Expiring!Tick
  BY <1>5, <1>9 DEF Expiring!Tick, Expiring!mapVars, Expiring!longVars, LongReaches, MapTypes
<1>10. CASE UNCHANGED Expiring!vars
  BY <1>5, <1>10 DEF Expiring!vars, Expiring!mapVars, Expiring!longVars, LongReaches, MapTypes
<1>11. QED
  BY <1>1, <1>2, <1>3, <1>4, <1>6, <1>7, <1>8, <1>9, <1>10 DEF Expiring!Next, Expiring!Expiry

\* No entry expires before the life its last set gave it, and none is forgotten by
\* its timer, whatever was overwritten, evicted, deleted or cleared before, for any
\* keys, delays and size of the map (expiringMap.ts:40-93).
THEOREM EntriesStayTimed == Expiring!Spec => Expiring!EntriesExpireOnTime
<1> DEFINE A == \A t \in timers : Expiring!Expire(t) /\ t.key \in Expiring!ToSet(order)
                                      => life[t.key] <= now
<1>1. MapInv => Expiring!EveryEntryIsTimed
  BY DEF MapInv, EntriesAreTimed, Timed, Expiring!EveryEntryIsTimed, Expiring!ToSet
<1>2. MapInv /\ [Expiring!Next]_(Expiring!vars) => [A]_(Expiring!vars)
  BY DEF MapInv, TimersAreOwned, Expiring!Expire
<1>3. QED
  BY <1>1, <1>2, MapInit, MapStep, PTL
  DEF Expiring!Spec, Expiring!EntriesExpireOnTime, Expiring!NoEarlyExpiry

\* The callback of a long timer never comes early, in however many legs the delay is
\* served (setLongTimeout.ts:6-22).
THEOREM LongTimerStaysPatient == Expiring!Spec => Expiring!LongTimerNotEarly
<1> DEFINE A == Expiring!Callback => wish <= now
<1>1. MapInv /\ [Expiring!Next]_(Expiring!vars) => [A]_(Expiring!vars)
  BY DEF MapInv, MapTypes, LongReaches, Expiring!Callback
<1>2. QED
  BY <1>1, MapInit, MapStep, PTL DEF Expiring!Spec, Expiring!LongTimerNotEarly
=============================================================================
