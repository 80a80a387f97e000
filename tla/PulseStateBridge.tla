-------------------------- MODULE PulseStateBridge --------------------------
(***************************************************************************)
(* startPulseStateBridge, capturePulseState and pushPulseState             *)
(* (web/apps/src/pulse/pulseState): the bridge of an embedded Pulse metric *)
(* with the data it carries.  Insights exist only in the events that        *)
(* announce them, so the bridge keeps them; filters and time dimension are  *)
(* read by each capture, in two calls on a serial queue.                    *)
(***************************************************************************)
EXTENDS Lists, SequencesExt

CONSTANTS
    Id,                        \* ids of insights
    NoId,                      \* an insight that has none
    Value,                     \* settings of filters and time, wordings of insights
    Unrecognized,              \* of them, those of a shape the code does not know
    MAX_ACCUMULATED_INSIGHTS,
    MAX_INSIGHTS,
    MAX_CONSECUTIVE_TIMEOUTS,
    Budget,                    \* bytes left by the preamble
    Cost,                      \* bytes of each part of a snapshot
    MaxEvents,                 \* bound: events of the metric
    Nothing                    \* nothing pushed, read or known

\* What the constants are assumed to be.
PulseAssumption == /\ MAX_ACCUMULATED_INSIGHTS \in Nat \ {0}
                   /\ MAX_INSIGHTS \in Nat
                   /\ MAX_CONSECUTIVE_TIMEOUTS \in Nat \ {0}
                   /\ MaxEvents \in Nat /\ NoId \notin Id
                   /\ Unrecognized \subseteq Value
                   /\ Nothing \notin Value \cup {"note"}
                   /\ Cost.failure <= Budget   \* the fixed text fits

VARIABLES
    metric,      \* on the screen: a compact layout (card, ban) or not, and
                 \* the settings of filters and time dimension
    insights,    \* accumulated, the last discovered last
    announced,   \* history: the last wording of each insight
    disposed, rerunRequested, consecutiveTimeouts,
    timerArmed,  \* the debouncer's timer
    listening,   \* the once-only listener of the first size is registered
    pc,          \* where runCapture is suspended; "idle" is ~capturing
    payload,     \* of the running capture
    context,     \* what this bridge last put into the host's model context
    heard,       \* history: the last push reached the host
    events       \* number of events so far

flags == <<disposed, rerunRequested, consecutiveTimeouts, timerArmed, listening>>
data  == <<metric, insights, announced, events>>
vars  == <<data, flags, pc, payload, context, heard>>

Insight == [id : Id \cup {NoId}, wording : Value]

TypeOK ==
    /\ metric \in [compact : BOOLEAN, filters : Value, time : Value]
    /\ insights \in Seq(Insight) /\ Len(insights) <= MAX_ACCUMULATED_INSIGHTS
    /\ disposed \in BOOLEAN /\ rerunRequested \in BOOLEAN /\ timerArmed \in BOOLEAN
    /\ listening \in BOOLEAN /\ heard \in BOOLEAN
    /\ consecutiveTimeouts \in 0 .. MAX_CONSECUTIVE_TIMEOUTS
    /\ pc \in {"idle", "filters", "time", "push", "lastPush"}
    /\ events \in 0 .. MaxEvents

Init ==
    /\ metric \in [compact : BOOLEAN, filters : Value, time : Value]
    /\ insights = << >> /\ announced = [id \in Id |-> Nothing]
    /\ disposed = FALSE /\ rerunRequested = FALSE /\ timerArmed = FALSE
    /\ consecutiveTimeouts = 0
    /\ listening \in BOOLEAN
    /\ pc = "idle" /\ payload = Nothing /\ context = Nothing
    /\ heard = FALSE /\ events = 0

-----------------------------------------------------------------------------
(* Events of the metric.                                                   *)

\* Oldest-first eviction.
Evicted(s) == IF Len(s) <= MAX_ACCUMULATED_INSIGHTS THEN s
              ELSE SubSeq(s, Len(s) - MAX_ACCUMULATED_INSIGHTS + 1, Len(s))

\* An event, what it changes on the screen or announces, and the trigger.  An
\* insight of which nothing is readable triggers and is not recorded.
PulseEvent(change) ==
    /\ ~disposed
    /\ events < MaxEvents
    /\ events' = events + 1
    /\ timerArmed' = TRUE
    /\ change
    /\ UNCHANGED <<disposed, rerunRequested, consecutiveTimeouts, listening,
                   pc, payload, context, heard>>

FiltersChange == /\ \E v \in Value : metric' = [metric EXCEPT !.filters = v]
                 /\ UNCHANGED <<insights, announced>>
TimeChanges   == /\ \E v \in Value : metric' = [metric EXCEPT !.time = v]
                 /\ UNCHANGED <<insights, announced>>

RecordInsight ==
    /\ UNCHANGED metric
    /\ \/ \E id \in Id \cup {NoId}, v \in Value :
              /\ insights' = Evicted(Append(insights, [id |-> id, wording |-> v]))
              /\ announced' = IF id = NoId THEN announced ELSE [announced EXCEPT ![id] = v]
       \/ UNCHANGED <<insights, announced>>

PulseLoaded ==
    /\ listening
    /\ listening' = FALSE
    /\ timerArmed' = TRUE
    /\ UNCHANGED <<data, disposed, rerunRequested, consecutiveTimeouts, pc, payload,
                   context, heard>>

-----------------------------------------------------------------------------
(* dedupeInsights: a Map keeps its keys in the order of their first entry.  *)

FirstEntries(s) ==
    {k \in DOMAIN s : s[k].id # NoId /\ \A j \in 1 .. (k - 1) : s[j].id # s[k].id}
LastOf(s, id) == CHOOSE k \in DOMAIN s : s[k].id = id /\ \A j \in (k + 1) .. Len(s) : s[j].id # id

\* Mutant: the first entry of an id is kept.
ById_First(s) == Picked(s, FirstEntries(s))

ById(s) == [k \in 1 .. Cardinality(FirstEntries(s)) |->
               s[LastOf(s, s[Nth(FirstEntries(s), k)].id)]]

DedupeInsights(s) ==
    LET all == ById(s) \o Picked(s, {k \in DOMAIN s : s[k].id = NoId})
    IN SubSeq(all, 1, IF Len(all) < MAX_INSIGHTS THEN Len(all) ELSE MAX_INSIGHTS)

-----------------------------------------------------------------------------
(* runCapture, up to the first call of capturePulseState.                   *)

BlankPayload ==
    [compact |-> metric.compact, insights |-> DedupeInsights(insights),
     filters |-> Nothing, time |-> Nothing, errors |-> {}]

RunCaptureReturnsEarly ==
    /\ timerArmed
    /\ disposed \/ pc # "idle"
    /\ timerArmed' = FALSE
    /\ rerunRequested' = (rerunRequested \/ ~disposed)
    /\ UNCHANGED <<data, disposed, consecutiveTimeouts, listening, pc, payload, context,
                   heard>>

StartCapture ==
    /\ timerArmed
    /\ ~disposed
    /\ pc = "idle"
    /\ timerArmed' = FALSE
    /\ pc' = "filters"
    /\ payload' = BlankPayload
    /\ UNCHANGED <<data, disposed, rerunRequested, consecutiveTimeouts, listening,
                   context, heard>>

\* Mutant: the remembered request is dropped.
FinallyBlock_NoRerun == pc' = "idle" /\ rerunRequested' = FALSE /\ UNCHANGED timerArmed

\* A remembered request goes back through the debounce window.
FinallyBlock ==
    /\ pc' = "idle"
    /\ timerArmed' = (timerArmed \/ (~disposed' /\ rerunRequested))
    /\ rerunRequested' = (disposed' /\ rerunRequested)

\* The capture is over: nothing is said of an element that is gone, and the
\* second capture in a row that was aborted is the last.
TimeoutsAfter(p) == IF "aborted" \in p.errors THEN consecutiveTimeouts + 1 ELSE 0

Captured(p) ==
    /\ UNCHANGED <<data, disposed, listening, context, heard>>
    /\ IF disposed
       THEN FinallyBlock /\ payload' = Nothing /\ UNCHANGED consecutiveTimeouts
       ELSE /\ consecutiveTimeouts' = TimeoutsAfter(p)
            /\ IF TimeoutsAfter(p) >= MAX_CONSECUTIVE_TIMEOUTS
               THEN pc' = "lastPush" /\ payload' = [p EXCEPT !.errors = @ \cup {"wedged"}]
               ELSE pc' = "push" /\ payload' = p
            /\ UNCHANGED <<timerArmed, rerunRequested>>

\* Filters of an unknown shape leave a note, a time dimension leaves nothing.
SerializePulseFilters(v)  == IF v \in Unrecognized THEN "note" ELSE v
SerializeTimeDimension(v) == IF v \in Unrecognized THEN Nothing ELSE v

\* A call answers, is not exposed or not readable, or the queue aborts: then
\* the next call is skipped.
GetFilters ==
    /\ pc = "filters"
    /\ \/ /\ payload' \in {[payload EXCEPT !.filters = SerializePulseFilters(metric.filters)],
                          [payload EXCEPT !.errors = @ \cup {"filters"}]}
          /\ pc' = "time"
          /\ UNCHANGED <<data, flags, context, heard>>
       \/ Captured([payload EXCEPT !.errors = @ \cup {"aborted"}])

GetTimeDimension ==
    /\ pc = "time"
    /\ \/ Captured([payload EXCEPT !.time = SerializeTimeDimension(metric.time)])
       \/ \E e \in {"time", "aborted"} : Captured([payload EXCEPT !.errors = @ \cup {e}])

-----------------------------------------------------------------------------
(* fitPulsePayloadToBudget: ever poorer texts, the first that fits is pushed. *)

\* prose and values say whether those parts are still in the text.
Text(p) == [kind |-> "snapshot", prose |-> TRUE, values |-> TRUE, compact |-> p.compact,
            insights |-> p.insights, filters |-> p.filters, time |-> p.time,
            errors |-> p.errors]

If(condition, bytes) == IF condition THEN bytes ELSE 0

PayloadBytes(t) ==
    IF t.kind = "failure" THEN Cost.failure
    ELSE Cost.metric + If(t.compact, Cost.caveat) + If(t.time # Nothing, Cost.time)
         + Len(t.insights) * (Cost.question + If(t.prose, Cost.prose))
         + If(t.filters # Nothing, Cost.filters + If(t.values, Cost.values))
         + Cardinality(t.errors) * Cost.error

\* Of the lengths a list of n comes to by halving, the longest that is at least k shorter.
Halved(n, k) == CHOOSE m \in Halvings(n) :
                    m + k <= n /\ \A j \in Halvings(n) : j + k <= n => j <= m

\* Without prose, with half the insights again and again, without the filters'
\* values, the identity alone.
Ladder(t) ==
    LET quiet    == [t EXCEPT !.prose = FALSE]
        halved   == [k \in 1 .. Len(t.insights) |->
                        [quiet EXCEPT !.insights = SubSeq(@, 1, Halved(Len(@), k))]]
        plain    == [quiet EXCEPT !.insights = << >>, !.values = FALSE]
        identity == [plain EXCEPT !.filters = Nothing, !.time = Nothing,
                                  !.errors = @ \cup {"identity only"}]
    IN <<t, quiet>> \o halved \o <<plain, identity>>

\* What is pushed where no rung fits: a fixed text.
BudgetFailure == [kind |-> "failure", insights |-> << >>]

Fit(t) ==
    LET fits == SelectInSeq(Ladder(t), LAMBDA rung : PayloadBytes(rung) <= Budget)
    IN IF fits = 0 THEN BudgetFailure ELSE Ladder(t)[fits]

\* pushPulseState settles; without the capability, or if the host fails, the
\* context stays what it was.
Push == \/ context' = Fit(Text(payload)) /\ heard' = TRUE
        \/ UNCHANGED context /\ heard' = FALSE

PushSettles ==
    /\ pc = "push"
    /\ Push
    /\ payload' = Nothing
    /\ UNCHANGED disposed
    /\ FinallyBlock
    /\ UNCHANGED <<data, consecutiveTimeouts, listening>>

\* dispose: the listeners and the timer go.
DisposeOf == disposed' = TRUE /\ listening' = FALSE /\ timerArmed' = FALSE

LastPushSettles ==
    /\ pc = "lastPush"
    /\ Push
    /\ payload' = Nothing
    /\ DisposeOf
    /\ pc' = "idle"
    /\ UNCHANGED <<data, rerunRequested, consecutiveTimeouts>>

Dispose ==
    /\ ~disposed
    /\ DisposeOf
    /\ UNCHANGED <<data, rerunRequested, consecutiveTimeouts, pc, payload, context, heard>>

-----------------------------------------------------------------------------
TimerFires == RunCaptureReturnsEarly \/ StartCapture
RunCapture == GetFilters \/ GetTimeDimension \/ PushSettles \/ LastPushSettles

Next == \/ PulseEvent(FiltersChange)
        \/ PulseEvent(TimeChanges)
        \/ PulseEvent(RecordInsight)
        \/ PulseLoaded
        \/ TimerFires
        \/ RunCapture
        \/ Dispose

\* The timer fires; the serial queue bounds the calls and the host SDK's
\* request timeout the push.
Fairness == WF_vars(TimerFires) /\ WF_vars(RunCapture)

Spec == Init /\ [][Next]_vars /\ Fairness

-----------------------------------------------------------------------------
(* Properties.                                                             *)

Settled == pc = "idle" /\ ~timerArmed /\ ~rerunRequested /\ ~disposed /\ heard

\* What a capture of the present would be, given what could be read.
Present(filters, time, errors) ==
    Text([compact |-> metric.compact, insights |-> DedupeInsights(insights),
          filters |-> filters, time |-> time, errors |-> errors])

\* What the host is given fits the budget.
ContextFitsBudget == context # Nothing => PayloadBytes(context) <= Budget

\* When nothing is under way, the context is of the present: whatever changed
\* between the calls of a capture, or while its push was on the way, has been
\* captured since; what could not be read has its error line.
ContextIsOfThePresent ==
    Settled =>
        \E errors \in SUBSET {"filters", "time", "aborted"},
           filters \in {SerializePulseFilters(metric.filters), Nothing},
           time \in {SerializeTimeDimension(metric.time), Nothing} :
           /\ filters = Nothing => errors \cap {"filters", "aborted"} # {}
           /\ time # SerializeTimeDimension(metric.time) =>
                  errors \cap {"time", "aborted"} # {}
           /\ context = Fit(Present(filters, time, errors))

\* And no insight is listed in a wording that was announced anew.
WordingsAreTheLast ==
    Settled => \A i \in DOMAIN context.insights :
                   LET insight == context.insights[i]
                   IN insight.id = NoId \/ insight.wording = announced[insight.id]

\* A bridge at rest has told what is on the screen, within the budget
\* (pulseStateBridge.ts:82-214, pulsePayload.ts:110-181).
SettledIsCurrent == ContextFitsBudget /\ ContextIsOfThePresent /\ WordingsAreTheLast

\* The bridge implements the single-flight coalescing of SingleFlight, as the
\* viz bridge does (pulseStateBridge.ts:3-8).
Flight == INSTANCE SingleFlight WITH
              wanted <- (timerArmed \/ rerunRequested) /\ ~disposed,
              flying <- pc # "idle",
              closed <- disposed

ImplementsSingleFlight == Flight!Spec

\* What the comment on dedupeInsights says: "Insights without an id cannot be
\* deduped and are all kept" (capturePulseState.ts:228).
WithoutIdAreKept ==
    [][pc = "idle" /\ pc' = "filters" =>
          \A i \in DOMAIN insights :
              insights[i].id = NoId => insights[i] \in ToSet(payload'.insights)]_vars
=============================================================================
