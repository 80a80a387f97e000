----------------------------- MODULE VizCapture -----------------------------
(***************************************************************************)
(* captureVizState and what it calls (embed/vizState/captureVizState.ts,   *)
(* captureSummaryData.ts), run over one SerialQueue (serialQueue.ts).      *)
(*                                                                         *)
(* One capture reads the viz stage by stage: filters, the worksheets each  *)
(* filter applies to, parameters, selection, a page of summary data, the   *)
(* datasources of every worksheet and the VizQL session.  Every read is    *)
(* one call of the queue, awaited before the next is made; the call may    *)
(* answer, fail or never settle.  Two timers run beside it: the per-call   *)
(* timer, which abandons the call, and the timer of the whole capture,     *)
(* which only marks the queue so that the NEXT call is refused.  Captures  *)
(* of one bridge follow each other and share the datasource cache.         *)
(*                                                                         *)
(* Names, values and rows are abstracted to which of them were read; the   *)
(* error lines are kept as the set of their kinds.                         *)
(***************************************************************************)
EXTENDS Naturals, Sequences, FiniteSets

CONSTANTS
    Worksheets,     \* the worksheets on the active sheet, in screen order
    NoSheet,        \* no sheet preferred or sampled
    Filter,         \* filters, by the key they are deduplicated on
    Source,         \* datasources, by the key they are merged on
    Surface,        \* the API surfaces an Embedding API version may offer
    Contents,       \* which datasources each worksheet may read
    Undefined,      \* no cache entry; no result in hand
    MAX_FILTERS_WITH_APPLIED_TO,
    MAX_DATASOURCES,
    MAX_DATASOURCES_TOTAL

Sheet == {Worksheets[i] : i \in DOMAIN Worksheets}

SheetMethod == {"getFiltersAsync", "getSelectedMarksAsync",
                "getSummaryDataReaderAsync", "getDataSourcesAsync"}

\* A surface says which methods each worksheet has, and whether filters know
\* their worksheets, the workbook its parameters and the viz its session.
SurfaceType == [sheet : [Sheet -> SUBSET SheetMethod],
                appliedTo : BOOLEAN, parameters : BOOLEAN, session : BOOLEAN]

ASSUME WorksheetsAssumption ==
    /\ Worksheets \in Seq(Sheet)
    /\ \A i, j \in DOMAIN Worksheets : Worksheets[i] = Worksheets[j] => i = j
    /\ NoSheet \notin Sheet
ASSUME SurfaceAssumption == Surface \subseteq SurfaceType
ASSUME ContentsAssumption == Contents \subseteq [Sheet -> Seq(Source)]
ASSUME UndefinedAssumption == Undefined \notin Seq(Source)
ASSUME LimitsAssumption == /\ MAX_FILTERS_WITH_APPLIED_TO \in Nat
                           /\ MAX_DATASOURCES \in Nat \ {0}
                           /\ MAX_DATASOURCES_TOTAL \in Nat \ {0}

VARIABLES
    surface,          \* environment: the API surface of this page
    content,          \* environment: the datasources behind each worksheet
    datasourceCache,  \* the bridge's cache, shared by its captures
    stage,            \* the read the capture has come to
    todo,             \* worksheets the current stage has still to visit
    inCall,           \* the capture awaits the call of its stage
    reason,           \* why the queue aborted, or "none"
    errors,           \* the kinds of the error lines so far
    preferred,        \* the option preferredSheetName
    filters,          \* filters read, deduplicated
    applied,          \* filters asked for their worksheets
    selectionActive,
    dataSheet,        \* the worksheet sampled for summary data
    reader,           \* its data table reader: "none", "open" or "released"
    batch,            \* the result of the worksheet being swept, what is left of it
    merged,           \* datasources found, in the order of discovery
    worksheetsOf,     \* for each datasource found, the sheets that use it
    vds,              \* the session pair was captured
    read              \* history: which reads of this capture succeeded

envVars == <<surface, content>>
payloadVars == <<filters, applied, selectionActive, dataSheet, reader, batch,
                 merged, worksheetsOf, vds, read>>
captureVars == <<envVars, datasourceCache, stage, todo, inCall, reason, errors,
                 preferred, payloadVars>>

-----------------------------------------------------------------------------
Stage == {"idle", "filters", "appliedTo", "parameters", "selection", "summary",
          "page", "release", "datasources", "session", "done"}

\* The stages whose refused or timed-out call is noted as "capture aborted".
NotingStage == {"filters", "appliedTo", "parameters", "selection",
                "datasources", "session"}

ErrorKind == {"viz unreadable", "capture aborted", "sheet unreadable",
              "parameters unavailable", "selection unreadable",
              "summary data unavailable", "summary data capture aborted",
              "datasources unavailable", "datasource querying unavailable"}

Read == {<<"parameters">>, <<"data">>, <<"session">>}
            \cup ({"filters", "marks", "sources"} \X Sheet)

TypeOK ==
    /\ surface \in Surface
    /\ content \in Contents
    /\ datasourceCache \in [Sheet -> Seq(Source) \cup {Undefined}]
    /\ stage \in Stage
    /\ todo \in Seq(Sheet)
    /\ inCall \in BOOLEAN
    /\ reason \in {"none", "call-timeout", "overall-timeout", "disposed"}
    /\ errors \subseteq ErrorKind
    /\ preferred \in Sheet \cup {NoSheet}
    /\ filters \subseteq Filter
    /\ applied \subseteq filters
    /\ selectionActive \in BOOLEAN
    /\ dataSheet \in Sheet \cup {NoSheet}
    /\ reader \in {"none", "open", "released"}
    /\ batch \in Seq(Source) \cup {Undefined}
    /\ merged \in Seq(Source)
    /\ worksheetsOf \in [Source -> SUBSET Sheet]
    /\ vds \in BOOLEAN
    /\ read \subseteq Read

BlankFilters == filters' = {} /\ applied' = {}

BlankPayload ==
    /\ BlankFilters
    /\ selectionActive' = FALSE
    /\ dataSheet' = NoSheet
    /\ reader' = "none"
    /\ batch' = Undefined
    /\ merged' = <<>>
    /\ worksheetsOf' = [d \in Source |-> {}]
    /\ vds' = FALSE
    /\ read' = {}

Init ==
    /\ surface \in Surface
    /\ content \in Contents
    /\ datasourceCache = [s \in Sheet |-> Undefined]
    /\ stage = "idle"
    /\ todo = <<>>
    /\ inCall = FALSE
    /\ reason = "none"
    /\ errors = {}
    /\ preferred = NoSheet
    /\ filters = {}
    /\ applied = {}
    /\ selectionActive = FALSE
    /\ dataSheet = NoSheet
    /\ reader = "none"
    /\ batch = Undefined
    /\ merged = <<>>
    /\ worksheetsOf = [d \in Source |-> {}]
    /\ vds = FALSE
    /\ read = {}

-----------------------------------------------------------------------------
(* The queue.  Entries are never queued behind one another here, so a call *)
(* is issued as soon as it is enqueued, and the abort checks at enqueue    *)
(* and at dequeue are one guard.                                           *)

\* Mutant: the last reason wins.
Abort_LastWins(why, now) == why

\* SerialQueue.abort, of a queue whose reason is now: the first reason wins.
Abort(why, now) == IF now = "none" THEN why ELSE now

\* Mutant: releaseAsync is enqueued with run.
Refuses_Final == reason # "none"

\* run refuses once the queue is aborted; runFinal, for releaseAsync, does not.
Refuses == reason # "none" /\ stage # "release"

\* The capture is over; its finally block stops the queue's clock.
Settle(now) ==
    /\ stage' = "done"
    /\ todo' = <<>>
    /\ inCall' = FALSE
    /\ reason' = Abort("disposed", now)

GoOn(next, sheets, now) ==
    /\ stage' = next
    /\ todo' = sheets
    /\ inCall' = FALSE
    /\ reason' = now

GoTo(next, sheets) == GoOn(next, sheets, reason)

Report(kind) == errors' = errors \cup {kind}

Has(method, s) == method \in surface.sheet[s]

-----------------------------------------------------------------------------
(* A capture begins.  A missing workbook, a missing active sheet and a     *)
(* story sheet end it at once with an error line.                          *)

Begin(sheet, readable) ==
    /\ stage \in {"idle", "done"}
    /\ preferred' = sheet
    /\ BlankPayload
    /\ \/ /\ readable
          /\ inCall' = FALSE
          /\ stage' = "filters"
          /\ todo' = Worksheets
          /\ reason' = "none"
          /\ errors' = {}
       \/ /\ ~readable
          /\ Settle("none")
          /\ errors' = {"viz unreadable"}
    /\ UNCHANGED <<envVars, datasourceCache>>

-----------------------------------------------------------------------------
(* When the capture stands before a call, and what it does when there is   *)
(* none to make.                                                           *)

Unasked == filters \ applied

HasDatasources == merged # <<>>

\* The next step of the stage is the call of this method.
CallNext ==
    \/ stage = "filters" /\ todo # <<>> /\ Has("getFiltersAsync", Head(todo))
    \/ /\ stage = "appliedTo"
       /\ surface.appliedTo
       /\ Unasked # {}
       /\ Cardinality(applied) < MAX_FILTERS_WITH_APPLIED_TO
    \/ stage = "parameters" /\ surface.parameters
    \/ /\ stage = "selection"
       /\ todo # <<>>
       /\ ~selectionActive
       /\ Has("getSelectedMarksAsync", Head(todo))
    \/ /\ stage = "summary"
       /\ dataSheet # NoSheet
       /\ Has("getSummaryDataReaderAsync", dataSheet)
    \/ stage = "page"
    \/ stage = "release"
    \/ /\ stage = "datasources"
       /\ todo # <<>>
       /\ batch = Undefined
       /\ datasourceCache[Head(todo)] = Undefined
       /\ Has("getDataSourcesAsync", Head(todo))
    \/ stage = "session" /\ HasDatasources /\ surface.session

\* preferred ?? readable[0] ?? sheets[0]
SampledSheet ==
    LET Readable(s) == Has("getSummaryDataReaderAsync", s)
        readable == {i \in DOMAIN Worksheets : Readable(Worksheets[i])}
        First(I) == CHOOSE i \in I : \A j \in I : i <= j
    IN  IF preferred # NoSheet /\ Readable(preferred) THEN preferred
        ELSE IF readable # {} THEN Worksheets[First(readable)]
        ELSE IF Worksheets = <<>> THEN NoSheet
        ELSE Worksheets[1]

\* The sampled sheet's datasources come first, the others in screen order.
SweepOrder ==
    IF dataSheet = NoSheet THEN Worksheets
    ELSE [i \in DOMAIN Worksheets |->
             IF i = 1 THEN dataSheet
             ELSE IF \E j \in i .. Len(Worksheets) : Worksheets[j] = dataSheet
             THEN Worksheets[i - 1] ELSE Worksheets[i]]

Upto(n, seq) == SubSeq(seq, 1, IF Len(seq) < n THEN Len(seq) ELSE n)

\* payload.datasources
Datasources == Upto(MAX_DATASOURCES_TOTAL, merged)

\* A worksheet without the method contributes nothing.
SkipWorksheet ==
    /\ ~CallNext
    /\ ~inCall
    /\ todo # <<>>
    /\ \/ stage = "filters"
       \/ stage = "selection" /\ ~selectionActive
       \/ /\ stage = "datasources"
          /\ batch = Undefined
          /\ datasourceCache[Head(todo)] = Undefined
    /\ todo' = Tail(todo)
    /\ UNCHANGED <<envVars, datasourceCache, stage, inCall, reason, errors,
                   preferred, payloadVars>>

UseCachedDatasources ==
    /\ stage = "datasources"
    /\ ~inCall
    /\ todo # <<>>
    /\ batch = Undefined
    /\ datasourceCache[Head(todo)] # Undefined
    /\ batch' = datasourceCache[Head(todo)]
    /\ UNCHANGED <<envVars, datasourceCache, stage, todo, inCall, reason, errors,
                   preferred, filters, applied, selectionActive, dataSheet,
                   reader, merged, worksheetsOf, vds, read>>

\* Mutant: a datasource already found is left as it is.
Attribute_FirstSheet(d) ==
    IF worksheetsOf[d] = {}
    THEN /\ merged' = Append(merged, d)
         /\ worksheetsOf' = [worksheetsOf EXCEPT ![d] = {Head(todo)}]
    ELSE UNCHANGED <<merged, worksheetsOf>>

Attribute(d) ==
    /\ merged' = IF worksheetsOf[d] = {} THEN Append(merged, d) ELSE merged
    /\ worksheetsOf' = [worksheetsOf EXCEPT ![d] = @ \cup {Head(todo)}]

\* One round of collectDatasources' inner loop, on the result of the sheet.
MergeDatasource ==
    /\ batch \notin {Undefined, <<>>}
    /\ Attribute(Head(batch))
    /\ batch' = Tail(batch)
    /\ UNCHANGED <<envVars, datasourceCache, stage, todo, inCall, reason, errors,
                   preferred, filters, applied, selectionActive, dataSheet,
                   reader, vds, read>>

WorksheetSwept ==
    /\ batch = <<>>
    /\ batch' = Undefined
    /\ read' = read \cup {<<"sources", Head(todo)>>}
    /\ todo' = Tail(todo)
    /\ UNCHANGED <<envVars, datasourceCache, stage, inCall, reason, errors,
                   preferred, filters, applied, selectionActive, dataSheet,
                   reader, merged, worksheetsOf, vds>>

\* The loops and the optional reads that end without a call.
NextStage ==
    /\ ~CallNext
    /\ ~inCall
    /\ \/ /\ stage = "filters" /\ todo = <<>>
          /\ GoTo("appliedTo", <<>>)
          /\ UNCHANGED <<errors, dataSheet>>
       \/ /\ stage = "appliedTo"
          /\ GoTo("parameters", <<>>)
          /\ UNCHANGED <<errors, dataSheet>>
       \/ /\ stage = "parameters"
          /\ Report("parameters unavailable")
          /\ GoTo("selection", Worksheets)
          /\ UNCHANGED dataSheet
       \/ /\ stage = "selection" /\ (todo = <<>> \/ selectionActive)
          /\ dataSheet' = SampledSheet
          /\ GoTo("summary", <<>>)
          /\ UNCHANGED errors
       \/ /\ stage = "summary"
          /\ Report("summary data unavailable")
          /\ GoTo("datasources", SweepOrder)
          /\ UNCHANGED dataSheet
       \/ /\ stage = "datasources" /\ todo = <<>>
          /\ GoTo("session", <<>>)
          /\ UNCHANGED <<errors, dataSheet>>
       \/ /\ stage = "session" /\ ~HasDatasources
          /\ Settle(reason)
          /\ UNCHANGED <<errors, dataSheet>>
       \/ /\ stage = "session" /\ HasDatasources
          /\ Report("datasource querying unavailable")
          /\ Settle(reason)
          /\ UNCHANGED dataSheet
    /\ UNCHANGED <<envVars, datasourceCache, preferred, filters, applied,
                   selectionActive, reader, batch, merged, worksheetsOf, vds, read>>

-----------------------------------------------------------------------------
(* Calls.                                                                  *)

Issue ==
    /\ CallNext
    /\ ~inCall
    /\ ~Refuses
    /\ inCall' = TRUE
    /\ applied' \in IF stage = "appliedTo" THEN {applied \cup {f} : f \in Unasked}
                    ELSE {applied}
    /\ UNCHANGED <<envVars, datasourceCache, stage, todo, reason, errors,
                   preferred, filters, selectionActive, dataSheet, reader,
                   batch, merged, worksheetsOf, vds, read>>

\* A refused call and a call abandoned by its timer end alike, in a
\* CaptureAbortedError: the capture is over, except that the summary data is
\* given up with an error line of its own and the reader is still released.
CallAborts(now) ==
    /\ \/ /\ stage \in NotingStage
          /\ Report("capture aborted")
          /\ Settle(now)
          /\ UNCHANGED reader
       \/ /\ stage = "summary"
          /\ Report("summary data capture aborted")
          /\ GoOn("datasources", SweepOrder, now)
          /\ UNCHANGED reader
       \/ /\ stage = "page"
          /\ Report("summary data capture aborted")
          /\ GoOn("release", <<>>, now)
          /\ UNCHANGED reader
       \/ /\ stage = "release"
          /\ reader' = IF inCall THEN "released" ELSE reader
          /\ GoOn("datasources", SweepOrder, now)
          /\ UNCHANGED errors
    /\ UNCHANGED <<envVars, datasourceCache, preferred, filters, applied,
                   selectionActive, dataSheet, batch, merged, worksheetsOf, vds,
                   read>>

CallRefused == CallNext /\ ~inCall /\ Refuses /\ CallAborts(reason)

\* Mutant: releaseAsync is awaited without a timer.
CallTimesOut_ButRelease ==
    inCall /\ stage # "release" /\ CallAborts(Abort("call-timeout", reason))

CallTimesOut == inCall /\ CallAborts(Abort("call-timeout", reason))

\* The timer of the whole capture only marks the queue; the call in flight
\* goes on.
OverallTimeout ==
    /\ inCall
    /\ reason = "none"
    /\ reason' = "overall-timeout"
    /\ UNCHANGED <<envVars, datasourceCache, stage, todo, inCall, errors,
                   preferred, payloadVars>>

-----------------------------------------------------------------------------
(* Answers.                                                                *)

FiltersAnswer ==
    /\ stage = "filters" /\ inCall
    /\ \E found \in SUBSET Filter : filters' = filters \cup found
    /\ read' = read \cup {<<"filters", Head(todo)>>}
    /\ GoTo("filters", Tail(todo))
    /\ UNCHANGED <<envVars, datasourceCache, errors, preferred, applied,
                   selectionActive, dataSheet, reader, batch, merged,
                   worksheetsOf, vds>>

\* An answer and a failure alike: the field is filled in or stays absent.
AppliedToAnswer ==
    /\ stage = "appliedTo" /\ inCall
    /\ GoTo("appliedTo", todo)
    /\ UNCHANGED <<envVars, datasourceCache, errors, preferred, payloadVars>>

ParametersAnswer ==
    /\ stage = "parameters" /\ inCall
    /\ read' = read \cup {<<"parameters">>}
    /\ GoTo("selection", Worksheets)
    /\ UNCHANGED <<envVars, datasourceCache, errors, preferred, filters, applied,
                   selectionActive, dataSheet, reader, batch, merged,
                   worksheetsOf, vds>>

SelectionAnswer ==
    /\ stage = "selection" /\ inCall
    /\ selectionActive' \in BOOLEAN
    /\ read' = read \cup {<<"marks", Head(todo)>>}
    /\ GoTo("selection", Tail(todo))
    /\ UNCHANGED <<envVars, datasourceCache, errors, preferred, filters, applied,
                   dataSheet, reader, batch, merged, worksheetsOf, vds>>

ReaderAnswer ==
    /\ stage = "summary" /\ inCall
    /\ reader' = "open"
    /\ GoTo("page", <<>>)
    /\ UNCHANGED <<envVars, datasourceCache, errors, preferred, filters, applied,
                   selectionActive, dataSheet, batch, merged, worksheetsOf, vds,
                   read>>

PageAnswer ==
    /\ stage = "page" /\ inCall
    /\ read' = read \cup {<<"data">>}
    /\ GoTo("release", <<>>)
    /\ UNCHANGED <<envVars, datasourceCache, errors, preferred, filters, applied,
                   selectionActive, dataSheet, reader, batch, merged,
                   worksheetsOf, vds>>

\* An answer and a failure alike: a failed release is swallowed.
ReleaseAnswer ==
    /\ stage = "release" /\ inCall
    /\ reader' = "released"
    /\ GoTo("datasources", SweepOrder)
    /\ UNCHANGED <<envVars, datasourceCache, errors, preferred, filters, applied,
                   selectionActive, dataSheet, batch, merged, worksheetsOf, vds,
                   read>>

DatasourcesAnswer ==
    /\ stage = "datasources" /\ inCall
    /\ LET sources == Upto(MAX_DATASOURCES, content[Head(todo)])
       IN  /\ datasourceCache' = [datasourceCache EXCEPT ![Head(todo)] = sources]
           /\ batch' = sources
    /\ GoTo("datasources", todo)
    /\ UNCHANGED <<envVars, errors, preferred, filters, applied, selectionActive,
                   dataSheet, reader, merged, worksheetsOf, vds, read>>

\* Both halves of the pair or neither.
SessionAnswer ==
    /\ stage = "session" /\ inCall
    /\ vds' \in BOOLEAN
    /\ read' = read \cup {<<"session">>}
    /\ Settle(reason)
    /\ UNCHANGED <<envVars, datasourceCache, errors, preferred, filters, applied,
                   selectionActive, dataSheet, reader, batch, merged,
                   worksheetsOf>>

\* The call rejects with an error of the Embedding API: reported, and the
\* capture goes on.
CallFails ==
    /\ inCall
    /\ \/ /\ stage = "filters"
          /\ Report("sheet unreadable")
          /\ GoTo("filters", Tail(todo))
       \/ /\ stage = "parameters"
          /\ Report("parameters unavailable")
          /\ GoTo("selection", Worksheets)
       \/ /\ stage = "selection"
          /\ Report("selection unreadable")
          /\ GoTo("selection", Tail(todo))
       \/ /\ stage = "summary"
          /\ Report("summary data unavailable")
          /\ GoTo("datasources", SweepOrder)
       \/ /\ stage = "page"
          /\ Report("summary data unavailable")
          /\ GoTo("release", <<>>)
       \/ /\ stage = "session"
          /\ Report("datasource querying unavailable")
          /\ Settle(reason)
    /\ UNCHANGED <<envVars, datasourceCache, preferred, payloadVars>>

\* Mutant: the failure is cached as an empty list.
DatasourcesFail_Cached ==
    /\ stage = "datasources" /\ inCall
    /\ Report("datasources unavailable")
    /\ datasourceCache' = [datasourceCache EXCEPT ![Head(todo)] = <<>>]
    /\ GoTo("datasources", Tail(todo))
    /\ UNCHANGED <<envVars, preferred, payloadVars>>

\* Not cached, so that the next capture asks again.
DatasourcesFail ==
    /\ stage = "datasources" /\ inCall
    /\ Report("datasources unavailable")
    /\ GoTo("datasources", Tail(todo))
    /\ UNCHANGED <<envVars, datasourceCache, preferred, payloadVars>>

-----------------------------------------------------------------------------
\* What the capture does of itself, the timers included, however silent the
\* viz is.
Advance == \/ SkipWorksheet
           \/ UseCachedDatasources
           \/ MergeDatasource
           \/ WorksheetSwept
           \/ NextStage
           \/ Issue
           \/ CallRefused
           \/ CallTimesOut

Answer == \/ FiltersAnswer
          \/ AppliedToAnswer
          \/ ParametersAnswer
          \/ SelectionAnswer
          \/ ReaderAnswer
          \/ PageAnswer
          \/ ReleaseAnswer
          \/ DatasourcesAnswer
          \/ SessionAnswer
          \/ CallFails
          \/ DatasourcesFail

Next == \/ \E s \in Sheet \cup {NoSheet}, readable \in BOOLEAN : Begin(s, readable)
        \/ Advance
        \/ Answer
        \/ OverallTimeout

\* Only the timers and the code after an await are fair; the viz need never
\* answer and no further capture need begin.
SafetySpec == Init /\ [][Next]_captureVars
Spec == SafetySpec /\ WF_captureVars(Advance)

-----------------------------------------------------------------------------
(* Properties.                                                             *)

\* A reader the viz handed out is given back before the capture ends, on every
\* path: a failed, refused or timed-out page and an abort in between
\* (captureSummaryData.ts:84-91).
ReaderIsReleased == stage = "done" => reader # "open"

\* The cache only ever holds what a successful read of that worksheet returned,
\* so a failed or abandoned read is made again by the next capture
\* (captureVizState.ts:85-88, 549).
CacheIsTruthful ==
    \A s \in Sheet : datasourceCache[s] # Undefined =>
        datasourceCache[s] = Upto(MAX_DATASOURCES, content[s])

\* A snapshot without error lines is complete: every stage that fell short
\* left a line (captureVizState.ts:4-8, 95-96).  What a worksheet has no method
\* for, and which worksheets a filter applies to, are documented exceptions.
SilenceMeansComplete ==
    stage = "done" /\ errors = {} =>
        /\ {<<"parameters">>, <<"data">>} \subseteq read
        /\ \A s \in Sheet :
              /\ Has("getFiltersAsync", s) => <<"filters", s>> \in read
              /\ Has("getDataSourcesAsync", s) => <<"sources", s>> \in read
              /\ Has("getSelectedMarksAsync", s) /\ ~selectionActive
                    => <<"marks", s>> \in read
        /\ merged # <<>> => <<"session">> \in read

\* The datasource behind the sampled rows is the first one listed, also when
\* another sheet shares it, the cache answers, or a later read aborts
\* (captureVizState.ts:435-439).
SampledDatasourceFirst ==
    stage = "done" /\ <<"sources", dataSheet>> \in read /\ content[dataSheet] # <<>>
        => merged # <<>> /\ merged[1] = content[dataSheet][1]

\* Every datasource is listed once, with exactly the worksheets whose read
\* returned it in THIS capture; nothing of an earlier capture's list leaks in
\* through the cache (captureVizState.ts:475-489).
AttributionIsExact ==
    /\ \A d \in Source, s \in Sheet :
          batch = Undefined =>
             (s \in worksheetsOf[d] <=>
                 /\ <<"sources", s>> \in read
                 /\ \E i \in 1 .. MAX_DATASOURCES :
                       i <= Len(content[s]) /\ content[s][i] = d)
    /\ \A i, j \in DOMAIN merged : merged[i] = merged[j] => i = j
    /\ {merged[i] : i \in DOMAIN merged} = {d \in Source : worksheetsOf[d] # {}}

\* The line that makes a capture count as timed out is only ever there because
\* a timer fired; the 'disposed' abort that ends every capture neither causes
\* it nor overwrites its cause (serialQueue.ts:61, captureVizState.ts:127-133).
AbortMarkHasATimeout ==
    "capture aborted" \in errors => reason \in {"call-timeout", "overall-timeout"}

\* The session pair is published only beside datasources it can query.
SessionHasDatasources == vds => Datasources # <<>>

\* The published datasources in all: order, attribution, session
\* (captureVizState.ts:379-490).
DatasourcesAreRight == /\ SampledDatasourceFirst
                       /\ AttributionIsExact
                       /\ SessionHasDatasources

\* The error lines mean what they say, and so does their absence
\* (captureVizState.ts:4-8, 95-96, 127-133).
ErrorLinesAreHonest == /\ SilenceMeansComplete
                       /\ AbortMarkHasATimeout

\* Every capture ends, even if the viz never answers a single call.
CaptureTerminates == stage # "idle" ~> stage = "done"

\* What vizStateBridge.ts:36 says of captureVizState: a capture one of whose
\* calls timed out is marked with the line the circuit breaker counts.
TimedOutCaptureIsMarked ==
    stage = "done" /\ reason = "call-timeout" => "capture aborted" \in errors
=============================================================================
