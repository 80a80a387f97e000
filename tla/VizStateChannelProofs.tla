------------------------ MODULE VizStateChannelProofs ------------------------
(***************************************************************************)
(* Proofs about VizCapture and its composition with the bridge.            *)
(*                                                                         *)
(* A capture: for every sheet, every surface of the API and every content  *)
(* of its worksheets, however calls answer, fail or never settle, and      *)
(* whenever the timers fire.                                               *)
(*                                                                         *)
(* The composition, for all activations of runCapture: it is a bridge and  *)
(* a capture at once, its one set of capture variables is enough, and the  *)
(* circuit breaker counts nothing but timeouts.  The argument crosses the  *)
(* two components.  The lock of the bridge says that one activation is     *)
(* suspended at most; that a capture makes calls only while an activation  *)
(* awaits it (CallsAreAwaited) ties the capture's progress to it, so that  *)
(* the error lines the breaker last looked at stay as they were until the  *)
(* next capture starts (CountIsMarked), and these lines stand for a timer  *)
(* that fired (TimersAbort).                                               *)
(***************************************************************************)
EXTENDS VizStateChannel, WellFoundedInduction, TLAPS

-----------------------------------------------------------------------------
(* The operators of the model.                                             *)

LEMMA LeastNatural ==
    ASSUME NEW T \in SUBSET Nat, T # {}
    PROVE  \E x \in T : \A y \in T : x <= y
<1> DEFINE R == OpToRel(<, Nat)
<1>1. PICK x \in T : \A y \in T : <<y, x>> \notin R
  <2>1. IsWellFoundedOn(R, Nat)
    BY NatLessThanWellFounded
  <2> HIDE DEF R
  <2>2. QED
    BY <2>1, WFMin, Zenon
<1>2. \A y \in T : <<y, x>> \in R <=> y < x
  BY DEF OpToRel
<1> HIDE DEF R
<1>3. \A y \in T : ~(y < x)
  BY <1>1, <1>2
<1>4. QED
  BY <1>3

\* What is cut off a sequence is its end.
LEMMA UptoFacts ==
    ASSUME NEW S, NEW seq \in Seq(S), NEW n \in Nat \ {0}
    PROVE  /\ Upto(n, seq) \in Seq(S)
           /\ Len(Upto(n, seq)) = IF Len(seq) < n THEN Len(seq) ELSE n
           /\ \A i \in 1 .. Len(Upto(n, seq)) : Upto(n, seq)[i] = seq[i]
<1> DEFINE m == IF Len(seq) < n THEN Len(seq) ELSE n
<1>1. m \in Nat /\ m <= Len(seq)
  OBVIOUS
<1>2. Upto(n, seq) = SubSeq(seq, 1, m)
  BY DEF Upto
<1>3. QED
  BY <1>1, <1>2

LEMMA SheetsFacts == /\ Worksheets \in Seq(Sheet)
                     /\ \A i \in DOMAIN Worksheets : Worksheets[i] \in Sheet
                     /\ \A s \in Sheet : \E i \in DOMAIN Worksheets : Worksheets[i] = s
BY WorksheetsAssumption DEF Sheet

\* A sheet is sampled unless there is none.
LEMMA SampledSheetFacts ==
    ASSUME preferred \in Sheet \cup {NoSheet}
    PROVE  SampledSheet \in Sheet \cup {NoSheet}
<1> DEFINE readable == {i \in DOMAIN Worksheets : Has("getSummaryDataReaderAsync", Worksheets[i])}
           First(I) == CHOOSE i \in I : \A j \in I : i <= j
<1>1. ASSUME readable # {}
      PROVE  Worksheets[First(readable)] \in Sheet
  <2>1. readable \in SUBSET Nat
    BY SheetsFacts
  <2>2. \E i \in readable : \A j \in readable : i <= j
    BY <1>1, <2>1, LeastNatural, Zenon
  <2>3. First(readable) \in readable
    <3> HIDE DEF readable
    <3>1. QED
      BY <2>2
  <2>4. QED
    BY <2>3, SheetsFacts
<1>2. Worksheets # <<>> => Worksheets[1] \in Sheet
  BY SheetsFacts
<1>3. \/ SampledSheet \in {preferred, NoSheet}
      \/ readable # {} /\ SampledSheet = Worksheets[First(readable)]
      \/ Worksheets # <<>> /\ SampledSheet = Worksheets[1]
  BY Zenon DEF SampledSheet
<1> HIDE DEF readable, First
<1>4. QED
  BY <1>1, <1>2, <1>3

\* The sweep visits every worksheet, the sampled one first and only then.
LEMMA SweepOrderFacts ==
    ASSUME dataSheet \in Sheet \cup {NoSheet}
    PROVE  /\ SweepOrder \in Seq(Sheet)
           /\ \A s \in Sheet : \E i \in DOMAIN SweepOrder : SweepOrder[i] = s
           /\ dataSheet # NoSheet =>
                /\ SweepOrder # <<>> /\ SweepOrder[1] = dataSheet
                /\ \A i \in 2 .. Len(SweepOrder) : SweepOrder[i] # dataSheet
<1>1. CASE dataSheet = NoSheet
  BY <1>1, SheetsFacts DEF SweepOrder
<1>2. CASE dataSheet # NoSheet
  <2>1. PICK m \in DOMAIN Worksheets : Worksheets[m] = dataSheet
    BY <1>2, SheetsFacts
  <2>2. DOMAIN Worksheets = 1 .. Len(Worksheets) /\ Len(Worksheets) \in Nat
    BY SheetsFacts
  <2> DEFINE Later(i) == \E j \in i .. Len(Worksheets) : Worksheets[j] = dataSheet
  <2>3. SweepOrder = [i \in 1 .. Len(Worksheets) |->
                        IF i = 1 THEN dataSheet
                        ELSE IF Later(i) THEN Worksheets[i - 1] ELSE Worksheets[i]]
    BY <1>2, <2>2 DEF SweepOrder
  <2>4. \A i \in 1 .. Len(Worksheets) : Later(i) <=> i <= m
    BY <2>1, <2>2, WorksheetsAssumption
  <2> HIDE DEF Later
  <2>5. \A i \in 1 .. Len(Worksheets) : SweepOrder[i] \in Sheet
    BY <1>2, <2>2, <2>3, SheetsFacts
  <2>6. SweepOrder \in Seq(Sheet) /\ Len(SweepOrder) = Len(Worksheets)
    BY <2>2, <2>3, <2>5
  <2>7. ASSUME NEW s \in Sheet
        PROVE  \E i \in DOMAIN SweepOrder : SweepOrder[i] = s
    <3>1. PICK k \in DOMAIN Worksheets : Worksheets[k] = s
      BY SheetsFacts
    <3>2. CASE k < m
      <4>1. SweepOrder[k + 1] = s /\ k + 1 \in DOMAIN SweepOrder
        BY <2>2, <2>3, <2>4, <3>1, <3>2
      <4>2. QED
        BY <4>1
    <3>3. CASE k = m
      <4>1. SweepOrder[1] = s /\ 1 \in DOMAIN SweepOrder
        BY <2>1, <2>2, <2>3, <3>1, <3>3
      <4>2. QED
        BY <4>1
    <3>4. CASE k > m
      <4>1. SweepOrder[k] = s /\ k \in DOMAIN SweepOrder
        BY <2>2, <2>3, <2>4, <3>1, <3>4
      <4>2. QED
        BY <4>1
    <3>5. QED
      BY <2>2, <3>2, <3>3, <3>4
  <2>8. SweepOrder # <<>> /\ SweepOrder[1] = dataSheet
    BY <2>1, <2>2, <2>3, <2>6
  <2>9. ASSUME NEW i \in 2 .. Len(SweepOrder)
        PROVE  SweepOrder[i] # dataSheet
    <3>1. CASE i <= m
      <4>1. SweepOrder[i] = Worksheets[i - 1] /\ i - 1 \in DOMAIN Worksheets /\ i - 1 # m
        BY <2>1, <2>2, <2>3, <2>4, <2>6, <3>1
      <4>2. QED
        BY <2>1, <4>1, WorksheetsAssumption
    <3>2. CASE ~(i <= m)
      BY <2>1, <2>2, <2>3, <2>4, <2>6, <3>2, WorksheetsAssumption
    <3>3. QED
      BY <3>1, <3>2
  <2>10. QED
    BY <2>6, <2>7, <2>8, <2>9
<1>3. QED
  BY <1>1, <1>2

-----------------------------------------------------------------------------
(* Where a capture stands.                                                 *)

\* A call is under way only in a stage that has what its answer is about, and a result is
\* in hand only in the sweep, for the worksheet in front.
InStep ==
    /\ inCall => /\ stage \notin {"idle", "done"}
                 /\ stage \in {"filters", "selection", "datasources"} => todo # <<>>
                 /\ stage = "datasources" => batch = Undefined
                 /\ stage = "selection" => ~selectionActive
                 /\ stage = "session" => HasDatasources
    /\ batch # Undefined => stage = "datasources" /\ todo # <<>>

CaptureOK == TypeOK /\ InStep

LEMMA ReadFacts ==
    /\ {<<"parameters">>, <<"data">>, <<"session">>} \subseteq Read
    /\ \A s \in Sheet : {<<"filters", s>>, <<"marks", s>>, <<"sources", s>>} \subseteq Read
BY DEF Read

LEMMA NothingLeft == <<>> \in Seq(Sheet) /\ <<>> \in Seq(Source)
OBVIOUS

\* The worksheet in front is one, and so are those that follow.
LEMMA TodoFacts ==
    ASSUME todo \in Seq(Sheet), todo # <<>>
    PROVE  Head(todo) \in Sheet /\ Tail(todo) \in Seq(Sheet)
OBVIOUS

LEMMA CaptureOKInit == Init => CaptureOK
<1> SUFFICES ASSUME Init
             PROVE  CaptureOK
  OBVIOUS
<1>1. /\ datasourceCache \in [Sheet -> Seq(Source) \cup {Undefined}]
      /\ worksheetsOf \in [Source -> SUBSET Sheet]
  BY DEF Init
<1>2. todo \in Seq(Sheet) /\ merged \in Seq(Source)
  BY DEF Init
<1>3. InStep
  BY DEF Init, InStep
<1>4. QED
  BY <1>1, <1>2, <1>3 DEF Init, CaptureOK, TypeOK, Stage

LEMMA BeginsOK ==
    ASSUME CaptureOK, NEW s \in Sheet \cup {NoSheet}, NEW readable \in BOOLEAN,
           Begin(s, readable)
    PROVE  CaptureOK'
BY SheetsFacts, NothingLeft
   DEF CaptureOK, TypeOK, InStep, Begin, BlankPayload, BlankFilters, Settle, Abort, envVars,
       Stage, ErrorKind, Has, HasDatasources

LEMMA SweepsOK ==
    ASSUME CaptureOK,
           SkipWorksheet \/ UseCachedDatasources \/ MergeDatasource \/ WorksheetSwept
    PROVE  CaptureOK'
<1>1. CASE SkipWorksheet
  BY <1>1 DEF CaptureOK, TypeOK, InStep, SkipWorksheet, envVars, payloadVars, HasDatasources
<1>2. CASE UseCachedDatasources
  BY <1>2 DEF CaptureOK, TypeOK, InStep, UseCachedDatasources, envVars, HasDatasources
<1>3. CASE MergeDatasource
  BY <1>3 DEF CaptureOK, TypeOK, InStep, MergeDatasource, Attribute, envVars, HasDatasources
<1>4. CASE WorksheetSwept
  BY <1>4, TodoFacts, ReadFacts, NothingLeft, UndefinedAssumption
     DEF CaptureOK, TypeOK, InStep, WorksheetSwept, envVars, HasDatasources
<1>5. QED
  BY <1>1, <1>2, <1>3, <1>4

LEMMA StagesOK ==
    ASSUME CaptureOK, NextStage
    PROVE  CaptureOK'
<1>1. todo' \in Seq(Sheet)
  BY SheetsFacts, SweepOrderFacts, NothingLeft
     DEF NextStage, GoTo, GoOn, Settle, CaptureOK, TypeOK
<1>2. dataSheet' \in Sheet \cup {NoSheet}
  BY SampledSheetFacts DEF NextStage, CaptureOK, TypeOK
<1>3. /\ stage' \in Stage /\ errors' \subseteq ErrorKind /\ inCall' = FALSE
      /\ reason' \in {"none", "call-timeout", "overall-timeout", "disposed"}
  BY DEF NextStage, GoTo, GoOn, Report, Settle, Abort, Stage, ErrorKind, CaptureOK, TypeOK
<1>4. batch # Undefined => stage' = "datasources" /\ todo' # <<>>
  BY DEF NextStage, CaptureOK, InStep
<1>5. UNCHANGED <<envVars, datasourceCache, preferred, filters, applied, selectionActive,
                  reader, batch, merged, worksheetsOf, vds, read>>
  BY DEF NextStage
<1>6. QED
  BY <1>1, <1>2, <1>3, <1>4, <1>5 DEF CaptureOK, TypeOK, InStep, envVars

LEMMA CallsOK ==
    ASSUME CaptureOK, Issue \/ CallRefused \/ CallTimesOut \/ OverallTimeout
    PROVE  CaptureOK'
<1>1. CASE Issue
  BY <1>1 DEF CaptureOK, TypeOK, InStep, Issue, CallNext, Unasked, envVars, HasDatasources
<1>2. ASSUME NEW now, now \in {"none", "call-timeout", "overall-timeout", "disposed"},
             CallAborts(now), batch = Undefined
      PROVE  CaptureOK'
  <2>1. todo' \in Seq(Sheet)
    BY <1>2, SweepOrderFacts, NothingLeft DEF CallAborts, GoOn, Settle, CaptureOK, TypeOK
  <2>2. /\ stage' \in Stage /\ errors' \subseteq ErrorKind /\ inCall' = FALSE
        /\ reason' \in {"none", "call-timeout", "overall-timeout", "disposed"}
        /\ reader' \in {"none", "open", "released"}
    BY <1>2 DEF CallAborts, GoOn, Report, Settle, Abort, Stage, ErrorKind, CaptureOK, TypeOK
  <2>3. UNCHANGED <<envVars, datasourceCache, preferred, filters, applied, selectionActive,
                    dataSheet, batch, merged, worksheetsOf, vds, read>>
    BY <1>2 DEF CallAborts
  <2>4. QED
    BY <1>2, <2>1, <2>2, <2>3 DEF CaptureOK, TypeOK, InStep, envVars
<1>3. CASE CallRefused
  <2>1. batch = Undefined
    BY <1>3 DEF CallRefused, CallNext, CaptureOK, InStep
  <2>2. QED
    BY <1>2, <1>3, <2>1 DEF CallRefused, CaptureOK, TypeOK
<1>4. CASE CallTimesOut
  <2>1. batch = Undefined
    BY <1>4 DEF CallTimesOut, CaptureOK, InStep
  <2>2. QED
    BY <1>2, <1>4, <2>1 DEF CallTimesOut, Abort, CaptureOK, TypeOK
<1>5. CASE OverallTimeout
  BY <1>5 DEF CaptureOK, TypeOK, InStep, OverallTimeout, envVars, payloadVars, HasDatasources
<1>6. QED
  BY <1>1, <1>3, <1>4, <1>5

LEMMA AnswersOK ==
    ASSUME CaptureOK, Answer
    PROVE  CaptureOK'
<1> USE DEF CaptureOK, TypeOK, InStep, GoTo, GoOn, envVars, payloadVars, HasDatasources, Stage
<1>1. CASE FiltersAnswer
  BY <1>1, TodoFacts, ReadFacts DEF FiltersAnswer
<1>2. CASE AppliedToAnswer
  BY <1>2 DEF AppliedToAnswer
<1>3. CASE ParametersAnswer
  BY <1>3, SheetsFacts, ReadFacts DEF ParametersAnswer
<1>4. CASE SelectionAnswer
  BY <1>4, TodoFacts, ReadFacts DEF SelectionAnswer
<1>5. CASE ReaderAnswer
  BY <1>5, NothingLeft DEF ReaderAnswer
<1>6. CASE PageAnswer
  BY <1>6, NothingLeft, ReadFacts DEF PageAnswer
<1>7. CASE ReleaseAnswer
  BY <1>7, SweepOrderFacts DEF ReleaseAnswer
<1>8. CASE DatasourcesAnswer
  <2>1. Upto(MAX_DATASOURCES, content[Head(todo)]) \in Seq(Source)
    BY <1>8, ContentsAssumption, LimitsAssumption, UptoFacts DEF DatasourcesAnswer
  <2>2. QED
    BY <1>8, <2>1, UndefinedAssumption DEF DatasourcesAnswer
<1>9. CASE SessionAnswer
  BY <1>9, NothingLeft, ReadFacts DEF SessionAnswer, Settle, Abort
<1>10. CASE CallFails
  <2>1. todo' \in Seq(Sheet)
    BY <1>10, SheetsFacts, SweepOrderFacts, TodoFacts, NothingLeft DEF CallFails, Settle
  <2>2. /\ stage' \in Stage /\ errors' \subseteq ErrorKind /\ inCall' = FALSE
        /\ reason' \in {"none", "call-timeout", "overall-timeout", "disposed"}
    BY <1>10 DEF CallFails, Report, Settle, Abort, ErrorKind
  <2>3. UNCHANGED <<envVars, datasourceCache, preferred, payloadVars>> /\ batch = Undefined
    BY <1>10 DEF CallFails
  <2>4. QED
    BY <2>1, <2>2, <2>3
<1>11. CASE DatasourcesFail
  BY <1>11, TodoFacts DEF DatasourcesFail, Report, ErrorKind
<1>12. QED
  BY <1>1, <1>2, <1>3, <1>4, <1>5, <1>6, <1>7, <1>8, <1>9, <1>10, <1>11 DEF Answer

LEMMA StaysOK == CaptureOK /\ [Next]_captureVars => CaptureOK'
<1> SUFFICES ASSUME CaptureOK, [Next]_captureVars
             PROVE  CaptureOK'
  OBVIOUS
<1>1. CASE UNCHANGED captureVars
  BY <1>1 DEF captureVars, envVars, payloadVars, CaptureOK, TypeOK, InStep, HasDatasources
<1>2. CASE Next
  BY <1>2, BeginsOK, SweepsOK, StagesOK, CallsOK, AnswersOK, Zenon DEF Next, Advance
<1>3. QED
  BY <1>1, <1>2

LEMMA CaptureInvariant == SafetySpec => []CaptureOK
BY CaptureOKInit, StaysOK, PTL DEF SafetySpec

-----------------------------------------------------------------------------
(* The reader of the summary data, and the cache.                          *)

\* A reader is open while its page is read, and until it is released, only.
OpenWhileRead == reader = "open" => stage \in {"page", "release"}

LEMMA ReaderStep ==
    ASSUME CaptureOK, OpenWhileRead, [Next]_captureVars
    PROVE  OpenWhileRead'
<1> USE DEF OpenWhileRead, GoTo, GoOn, Settle, payloadVars
<1>1. CASE UNCHANGED captureVars
  BY <1>1 DEF captureVars
<1>2. ASSUME NEW s, NEW readable, Begin(s, readable)
      PROVE  OpenWhileRead'
  BY <1>2 DEF Begin, BlankPayload
<1>3. CASE SkipWorksheet \/ UseCachedDatasources \/ MergeDatasource \/ WorksheetSwept
           \/ Issue \/ OverallTimeout
  BY <1>3 DEF SkipWorksheet, UseCachedDatasources, MergeDatasource, WorksheetSwept, Issue,
              OverallTimeout
<1>4. CASE NextStage
  BY <1>4 DEF NextStage
<1>5. CASE CallRefused
  BY <1>5 DEF CallRefused, Refuses, CallAborts, NotingStage
<1>6. CASE CallTimesOut
  BY <1>6 DEF CallTimesOut, CallAborts, NotingStage
<1>7. CASE Answer
  BY <1>7 DEF Answer, FiltersAnswer, AppliedToAnswer, ParametersAnswer, SelectionAnswer,
              ReaderAnswer, PageAnswer, ReleaseAnswer, DatasourcesAnswer, SessionAnswer,
              CallFails, DatasourcesFail
<1>8. QED
  BY <1>1, <1>2, <1>3, <1>4, <1>5, <1>6, <1>7 DEF Next, Advance

\* However a capture ends, and wherever its timers strike, a reader it was handed has been
\* given back (captureSummaryData.ts:84-91).
THEOREM NoReaderIsLeftOpen == Spec => []ReaderIsReleased
<1>1. Init => OpenWhileRead
  BY DEF Init, OpenWhileRead
<1>2. CaptureOK /\ OpenWhileRead /\ [Next]_captureVars => OpenWhileRead'
  BY ReaderStep
<1>3. OpenWhileRead => ReaderIsReleased
  BY DEF OpenWhileRead, ReaderIsReleased
<1>4. QED
  BY <1>1, <1>2, <1>3, CaptureInvariant, PTL DEF Spec, SafetySpec

\* No step but the answer of a read writes the cache, and no step the contents.
LEMMA CacheStep ==
    ASSUME CaptureOK, [Next]_captureVars
    PROVE  /\ UNCHANGED content
           /\ \/ UNCHANGED datasourceCache
              \/ DatasourcesAnswer
<1> USE DEF envVars
<1>1. CASE UNCHANGED captureVars
  BY <1>1 DEF captureVars
<1>2. ASSUME NEW s, NEW readable, Begin(s, readable)
      PROVE  UNCHANGED <<content, datasourceCache>>
  BY <1>2 DEF Begin
<1>3. ASSUME Advance \/ OverallTimeout
      PROVE  UNCHANGED <<content, datasourceCache>>
  BY <1>3 DEF Advance, SkipWorksheet, UseCachedDatasources, MergeDatasource, WorksheetSwept,
              NextStage, Issue, CallRefused, CallTimesOut, CallAborts, OverallTimeout
<1>4. ASSUME Answer
      PROVE  UNCHANGED content /\ (UNCHANGED datasourceCache \/ DatasourcesAnswer)
  BY <1>4 DEF Answer, FiltersAnswer, AppliedToAnswer, ParametersAnswer, SelectionAnswer,
              ReaderAnswer, PageAnswer, ReleaseAnswer, DatasourcesAnswer, SessionAnswer,
              CallFails, DatasourcesFail
<1>5. QED
  BY <1>1, <1>2, <1>3, <1>4 DEF Next

\* Whatever fails, times out or is abandoned, an entry of the cache is what a read of that
\* worksheet returned (captureVizState.ts:85-88, 549).
THEOREM CacheStaysTruthful == Spec => []CacheIsTruthful
<1>1. Init => CacheIsTruthful
  BY DEF Init, CacheIsTruthful
<1>2. ASSUME CaptureOK, CacheIsTruthful, [Next]_captureVars
      PROVE  CacheIsTruthful'
  <2>1. CASE UNCHANGED <<content, datasourceCache>>
    BY <1>2, <2>1 DEF CacheIsTruthful
  <2>2. CASE UNCHANGED content /\ DatasourcesAnswer
    <3>1. datasourceCache' = [datasourceCache EXCEPT ![Head(todo)] =
                                 Upto(MAX_DATASOURCES, content[Head(todo)])]
      BY <2>2, Zenon DEF DatasourcesAnswer
    <3>2. datasourceCache \in [Sheet -> Seq(Source) \cup {Undefined}]
      BY <1>2 DEF CaptureOK, TypeOK
    <3>3. QED
      BY <1>2, <2>2, <3>1, <3>2 DEF CacheIsTruthful
  <2>3. QED
    BY <1>2, <2>1, <2>2, CacheStep
<1>3. QED
  BY <1>1, <1>2, CaptureInvariant, PTL DEF Spec, SafetySpec

-----------------------------------------------------------------------------
(* The error lines.                                                        *)

TimedOut == {"call-timeout", "overall-timeout"}

\* Until a capture ends its queue is aborted by a timer or not at all, and the line that
\* says so is the last one.
TimersAbort ==
    /\ stage \notin {"idle", "done"} => reason \in TimedOut \cup {"none"}
    /\ "capture aborted" \in errors => stage = "done" /\ reason \in TimedOut

LEMMA TimersAbortInit == Init => TimersAbort
BY DEF Init, TimersAbort

LEMMA TimersAbortStep ==
    ASSUME CaptureOK, TimersAbort, [Next]_captureVars
    PROVE  TimersAbort'
<1> USE DEF TimersAbort, TimedOut, GoTo, GoOn, Settle, Report
<1>1. CASE UNCHANGED captureVars
  BY <1>1 DEF captureVars
<1>2. ASSUME NEW s, NEW readable, Begin(s, readable)
      PROVE  TimersAbort'
  BY <1>2 DEF Begin
<1>3. CASE SkipWorksheet \/ UseCachedDatasources \/ MergeDatasource \/ WorksheetSwept \/ Issue
  BY <1>3 DEF SkipWorksheet, UseCachedDatasources, MergeDatasource, WorksheetSwept, Issue
<1>4. CASE NextStage
  BY <1>4 DEF NextStage
<1>5. ASSUME NEW now \in TimedOut, CallAborts(now), stage \notin {"idle", "done"}
      PROVE  TimersAbort'
  BY <1>5 DEF CallAborts, NotingStage, Abort
<1>6. CASE CallRefused
  <2>1. reason \in TimedOut /\ CallAborts(reason) /\ stage \notin {"idle", "done"}
    BY <1>6 DEF CallRefused, Refuses, CallNext
  <2>2. QED
    BY <1>5, <2>1
<1>7. CASE CallTimesOut
  <2>1. stage \notin {"idle", "done"}
    BY <1>7 DEF CallTimesOut, CaptureOK, InStep
  <2>2. Abort("call-timeout", reason) \in TimedOut
    BY <2>1 DEF Abort
  <2>3. QED
    BY <1>5, <1>7, <2>1, <2>2 DEF CallTimesOut
<1>8. CASE OverallTimeout
  BY <1>8 DEF OverallTimeout, CaptureOK, InStep
<1>9. CASE Answer
  <2>1. stage \notin {"idle", "done"}
    BY <1>9 DEF Answer, FiltersAnswer, AppliedToAnswer, ParametersAnswer, SelectionAnswer,
                ReaderAnswer, PageAnswer, ReleaseAnswer, DatasourcesAnswer, SessionAnswer,
                CallFails, DatasourcesFail, CaptureOK, InStep
  <2>2. QED
    BY <1>9, <2>1
       DEF Answer, FiltersAnswer, AppliedToAnswer, ParametersAnswer, SelectionAnswer,
           ReaderAnswer, PageAnswer, ReleaseAnswer, DatasourcesAnswer, SessionAnswer,
           CallFails, DatasourcesFail
<1>10. QED
  BY <1>1, <1>2, <1>3, <1>4, <1>6, <1>7, <1>8, <1>9 DEF Next, Advance

\* The worksheets the stage has still to visit.
Left == {todo[i] : i \in DOMAIN todo}

\* Each worksheet with the method was read, or the stage has still to come to it.
Visited(method, kind, st) ==
    \A s \in Sheet : Has(method, s) => <<kind, s>> \in read \/ (stage = st /\ s \in Left)

\* A stage the capture has passed without a line has read what it is about, and the one it
\* is in has read what it has passed.
SilentSoFar ==
    errors = {} =>
       /\ stage # "idle" => Visited("getFiltersAsync", "filters", "filters")
       /\ stage \notin {"idle", "filters", "appliedTo", "parameters"} =>
            /\ <<"parameters">> \in read
            /\ selectionActive \/ Visited("getSelectedMarksAsync", "marks", "selection")
       /\ stage \in {"release", "datasources", "session", "done"} => <<"data">> \in read
       /\ stage \in {"datasources", "session", "done"} =>
            Visited("getDataSourcesAsync", "sources", "datasources")
       /\ stage = "done" => (HasDatasources => <<"session">> \in read)

LEMMA LeftFacts ==
    ASSUME todo \in Seq(Sheet), todo # <<>>, todo' = Tail(todo)
    PROVE  Left \subseteq {Head(todo)} \cup Left'
<1> SUFFICES ASSUME NEW i \in DOMAIN todo, i # 1
             PROVE  todo[i] \in Left'
  BY DEF Left
<1>1. i - 1 \in DOMAIN todo' /\ todo'[i - 1] = todo[i]
  OBVIOUS
<1>2. QED
  BY <1>1 DEF Left

LEMMA StartFacts == /\ todo' = Worksheets => Left' = Sheet
                    /\ todo' = <<>> => Left' = {}
BY DEF Left, Sheet

LEMMA SweepFacts ==
    ASSUME dataSheet \in Sheet \cup {NoSheet}, todo' = SweepOrder
    PROVE  Sheet \subseteq Left'
BY SweepOrderFacts DEF Left

LEMMA EnvStep == CaptureOK /\ [Next]_captureVars => UNCHANGED envVars
BY DEF Next, Advance, Answer, Begin, SkipWorksheet, UseCachedDatasources, MergeDatasource,
       WorksheetSwept, NextStage, Issue, CallRefused, CallTimesOut, CallAborts, OverallTimeout,
       FiltersAnswer, AppliedToAnswer, ParametersAnswer, SelectionAnswer, ReaderAnswer,
       PageAnswer, ReleaseAnswer, DatasourcesAnswer, SessionAnswer, CallFails,
       DatasourcesFail, captureVars

\* What was visited stays so as long as what was still to come still is, or was read.
LEMMA VisitedKeeps ==
    ASSUME UNCHANGED surface, read \subseteq read', NEW method, NEW kind, NEW st,
           Visited(method, kind, st),
           \A s \in Sheet : stage = st /\ s \in Left /\ Has(method, s)
                              => <<kind, s>> \in read' \/ (stage' = st /\ s \in Left')
    PROVE  Visited(method, kind, st)'
BY DEF Visited, Has

LEMMA VisitedStarts ==
    ASSUME NEW method, NEW kind, NEW st, stage' = st, Sheet \subseteq Left'
    PROVE  Visited(method, kind, st)'
BY DEF Visited

\* The stage moves on to the next worksheet, past one it has read or cannot read.
LEMMA VisitedMoves ==
    ASSUME UNCHANGED <<surface, stage>>, read \subseteq read',
           todo \in Seq(Sheet), todo # <<>>, todo' = Tail(todo),
           NEW method, NEW kind, NEW st, Visited(method, kind, st),
           stage = st => <<kind, Head(todo)>> \in read' \/ ~Has(method, Head(todo))
    PROVE  Visited(method, kind, st)'
BY LeftFacts, VisitedKeeps

LEMMA SilentSoFarInit == Init => SilentSoFar
BY DEF Init, SilentSoFar

\* A step that moves past a worksheet or stays where it is, and leaves no line.
LEMMA SilentWithin ==
    ASSUME CaptureOK, SilentSoFar, UNCHANGED <<surface, stage, errors, merged>>,
           stage \notin {"idle", "done"}, read \subseteq read',
           \/ selectionActive' = selectionActive
           \/ stage = "selection" /\ ~selectionActive,
           \/ UNCHANGED todo
           \/ /\ todo # <<>> /\ todo' = Tail(todo)
              /\ stage = "filters" => \/ <<"filters", Head(todo)>> \in read'
                                      \/ ~Has("getFiltersAsync", Head(todo))
              /\ stage = "selection" => \/ selectionActive'
                                        \/ <<"marks", Head(todo)>> \in read'
                                        \/ ~Has("getSelectedMarksAsync", Head(todo))
              /\ stage = "datasources" => \/ <<"sources", Head(todo)>> \in read'
                                          \/ ~Has("getDataSourcesAsync", Head(todo))
    PROVE  SilentSoFar'
<1>0. todo \in Seq(Sheet)
  BY DEF CaptureOK, TypeOK
<1>1. UNCHANGED todo => Left' = Left
  BY DEF Left
<1>2. Visited("getFiltersAsync", "filters", "filters")
         => Visited("getFiltersAsync", "filters", "filters")'
  BY <1>0, <1>1, VisitedKeeps, VisitedMoves
<1>3. selectionActive \/ Visited("getSelectedMarksAsync", "marks", "selection")
         => selectionActive' \/ Visited("getSelectedMarksAsync", "marks", "selection")'
  BY <1>0, <1>1, VisitedKeeps, VisitedMoves
<1>4. Visited("getDataSourcesAsync", "sources", "datasources")
         => Visited("getDataSourcesAsync", "sources", "datasources")'
  BY <1>0, <1>1, VisitedKeeps, VisitedMoves
<1>5. QED
  BY <1>2, <1>3, <1>4 DEF SilentSoFar, HasDatasources

\* A step from a stage whose loop is over to the next one.
LEMMA SilentOn ==
    ASSUME CaptureOK, SilentSoFar, UNCHANGED <<surface, selectionActive, merged>>,
           read \subseteq read', errors' = {} => errors = {},
           \/ errors' # {}
           \/ /\ stage = "filters" /\ todo = <<>> /\ stage' = "appliedTo"
           \/ /\ stage = "appliedTo" /\ stage' = "parameters"
           \/ /\ stage = "parameters" /\ <<"parameters">> \in read'
              /\ stage' = "selection" /\ todo' = Worksheets
           \/ /\ stage = "selection" /\ (todo = <<>> \/ selectionActive) /\ stage' = "summary"
           \/ stage = "summary" /\ stage' = "page"
           \/ stage = "page" /\ <<"data">> \in read' /\ stage' = "release"
           \/ stage = "release" /\ stage' = "datasources" /\ todo' = SweepOrder
           \/ stage = "datasources" /\ todo = <<>> /\ stage' = "session"
           \/ /\ stage = "session" /\ (HasDatasources => <<"session">> \in read')
              /\ stage' = "done"
    PROVE  SilentSoFar'
<1> SUFFICES ASSUME errors' = {}
             PROVE  SilentSoFar'
  BY DEF SilentSoFar
<1>1. todo = <<>> => Left = {}
  BY DEF Left
<1>2. stage \notin {"idle", "done"} /\ (stage = "filters" => Left = {})
         => Visited("getFiltersAsync", "filters", "filters")'
  BY <1>1, VisitedKeeps DEF SilentSoFar
<1>3. stage \in {"selection", "summary", "page", "release", "datasources", "session"}
             /\ (stage = "selection" => Left = {} \/ selectionActive)
         => selectionActive' \/ Visited("getSelectedMarksAsync", "marks", "selection")'
  BY <1>1, VisitedKeeps DEF SilentSoFar
<1>4. stage \in {"datasources", "session"} /\ (stage = "datasources" => Left = {})
         => Visited("getDataSourcesAsync", "sources", "datasources")'
  BY <1>1, VisitedKeeps DEF SilentSoFar
<1>5. stage = "parameters" /\ todo' = Worksheets /\ stage' = "selection"
         => Visited("getSelectedMarksAsync", "marks", "selection")'
  BY StartFacts, VisitedStarts
<1>6. todo' = SweepOrder /\ stage' = "datasources"
         => Visited("getDataSourcesAsync", "sources", "datasources")'
  BY SweepFacts, VisitedStarts DEF CaptureOK, TypeOK
<1>7. QED
  BY <1>1, <1>2, <1>3, <1>4, <1>5, <1>6 DEF SilentSoFar, HasDatasources

LEMMA SilentSoFarStep ==
    ASSUME CaptureOK, SilentSoFar, [Next]_captureVars
    PROVE  SilentSoFar'
<1> USE DEF GoTo, GoOn, Settle, Report
<1>0. UNCHANGED surface
  BY EnvStep DEF envVars
<1>1. CASE UNCHANGED captureVars
  BY <1>1 DEF captureVars, payloadVars, envVars, SilentSoFar, Visited, Left, Has, HasDatasources
<1>2. ASSUME NEW s, NEW readable, Begin(s, readable)
      PROVE  SilentSoFar'
  <2>1. errors' = {} => stage' = "filters" /\ todo' = Worksheets
    BY <1>2 DEF Begin
  <2>2. QED
    BY <2>1, StartFacts, VisitedStarts DEF SilentSoFar
<1>3. CASE SkipWorksheet
  <2>1. /\ todo # <<>> /\ todo' = Tail(todo)
        /\ UNCHANGED <<stage, errors, merged, read, selectionActive>>
        /\ stage \in {"filters", "selection", "datasources"}
        /\ stage = "filters" => ~Has("getFiltersAsync", Head(todo))
        /\ stage = "selection" => ~Has("getSelectedMarksAsync", Head(todo))
        /\ stage = "datasources" => ~Has("getDataSourcesAsync", Head(todo))
    BY <1>3 DEF SkipWorksheet, CallNext, payloadVars
  <2>2. QED
    BY <1>0, <2>1, SilentWithin
<1>4. CASE UseCachedDatasources
  BY <1>0, <1>4, SilentWithin DEF UseCachedDatasources
<1>5. CASE MergeDatasource
  <2>1. stage = "datasources"
    BY <1>5 DEF MergeDatasource, CaptureOK, InStep
  <2>2. /\ UNCHANGED <<stage, errors, todo, selectionActive, read>>
    BY <1>5 DEF MergeDatasource
  <2>3. QED
    BY <1>0, <2>1, <2>2 DEF SilentSoFar, Visited, Left, Has
<1>6. CASE WorksheetSwept
  <2>1. stage = "datasources" /\ todo # <<>>
    BY <1>6, UndefinedAssumption, NothingLeft DEF WorksheetSwept, CaptureOK, InStep
  <2>2. QED
    BY <1>0, <1>6, <2>1, SilentWithin DEF WorksheetSwept
<1>7. CASE NextStage
  BY <1>0, <1>7, SilentOn DEF NextStage
<1>8. CASE Issue
  BY <1>0, <1>8, SilentWithin DEF Issue, CallNext
<1>9. CASE OverallTimeout
  BY <1>0, <1>9, SilentWithin DEF OverallTimeout, payloadVars, CaptureOK, InStep
<1>10. CASE CallRefused \/ CallTimesOut
  <2>1. inCall \/ stage # "release"
    BY <1>10 DEF CallRefused, CallTimesOut, Refuses
  <2>2. QED
    BY <1>0, <1>10, <2>1, SilentOn DEF CallRefused, CallTimesOut, CallAborts
<1>11. CASE Answer
  <2>1. CASE FiltersAnswer
    BY <1>0, <2>1, SilentWithin DEF FiltersAnswer, CaptureOK, InStep
  <2>2. CASE AppliedToAnswer
    BY <1>0, <2>2, SilentWithin DEF AppliedToAnswer, payloadVars
  <2>3. CASE ParametersAnswer
    BY <1>0, <2>3, SilentOn DEF ParametersAnswer
  <2>4. CASE SelectionAnswer
    BY <1>0, <2>4, SilentWithin DEF SelectionAnswer, CaptureOK, InStep
  <2>5. CASE ReaderAnswer
    BY <1>0, <2>5, SilentOn DEF ReaderAnswer
  <2>6. CASE PageAnswer
    BY <1>0, <2>6, SilentOn DEF PageAnswer
  <2>7. CASE ReleaseAnswer
    BY <1>0, <2>7, SilentOn DEF ReleaseAnswer
  <2>8. CASE DatasourcesAnswer
    BY <1>0, <2>8, SilentWithin DEF DatasourcesAnswer
  <2>9. CASE SessionAnswer
    BY <1>0, <2>9, SilentOn DEF SessionAnswer
  <2>10. CASE CallFails \/ DatasourcesFail
    BY <2>10 DEF CallFails, DatasourcesFail, SilentSoFar
  <2>11. QED
    BY <1>11, <2>1, <2>2, <2>3, <2>4, <2>5, <2>6, <2>7, <2>8, <2>9, <2>10 DEF Answer
<1>12. QED
  BY <1>1, <1>2, <1>3, <1>4, <1>5, <1>6, <1>7, <1>8, <1>9, <1>10, <1>11 DEF Next, Advance

\* A capture without a line has read everything it could, and the line the circuit breaker
\* counts is never there unless a timer fired (captureVizState.ts:4-8, 95-96, 127-133).
THEOREM ErrorLinesStayHonest == Spec => []ErrorLinesAreHonest
<1>1. TimersAbort => AbortMarkHasATimeout
  BY DEF TimersAbort, AbortMarkHasATimeout, TimedOut
<1>2. SilentSoFar => SilenceMeansComplete
  BY DEF SilentSoFar, SilenceMeansComplete, HasDatasources, Visited
<1>3. QED
  BY <1>1, <1>2, TimersAbortInit, TimersAbortStep, SilentSoFarInit, SilentSoFarStep,
     CaptureInvariant, PTL DEF Spec, SafetySpec, ErrorLinesAreHonest

-----------------------------------------------------------------------------
(* The datasources.                                                        *)

\* What a read of the worksheet returns.
Returned(s) == Upto(MAX_DATASOURCES, content[s])

LEMMA ReturnedFacts ==
    ASSUME CaptureOK, NEW s \in Sheet
    PROVE  /\ Returned(s) \in Seq(Source)
           /\ content[s] # <<>> <=> Returned(s) # <<>>
           /\ content[s] # <<>> => Returned(s)[1] = content[s][1]
           /\ \A d : (\E i \in DOMAIN Returned(s) : Returned(s)[i] = d)
                       <=> \E i \in 1 .. MAX_DATASOURCES :
                              i <= Len(content[s]) /\ content[s][i] = d
<1>1. content[s] \in Seq(Source) /\ MAX_DATASOURCES \in Nat \ {0}
  BY ContentsAssumption, LimitsAssumption DEF CaptureOK, TypeOK
<1>2. /\ Returned(s) \in Seq(Source)
      /\ Len(Returned(s)) = IF Len(content[s]) < MAX_DATASOURCES THEN Len(content[s])
                                                                ELSE MAX_DATASOURCES
      /\ \A i \in 1 .. Len(Returned(s)) : Returned(s)[i] = content[s][i]
  BY <1>1, UptoFacts DEF Returned
<1>3. \A d : (\E i \in DOMAIN Returned(s) : Returned(s)[i] = d)
               <=> \E i \in 1 .. MAX_DATASOURCES : i <= Len(content[s]) /\ content[s][i] = d
  BY <1>1, <1>2
<1>4. /\ content[s] # <<>> <=> Returned(s) # <<>>
      /\ content[s] # <<>> => Returned(s)[1] = content[s][1]
  BY <1>1, <1>2
<1>5. QED
  BY <1>2, <1>3, <1>4

\* How many of the results for the worksheet in front were merged.
Taken == Len(Returned(Head(todo))) - Len(batch)

\* What is in hand is the end of what the worksheet in front returned.
InHand == batch # Undefined =>
             /\ Len(batch) <= Len(Returned(Head(todo)))
             /\ \A i \in DOMAIN batch : batch[i] = Returned(Head(todo))[Taken + i]

\* A datasource was found on the worksheets swept that returned it, and on the one in front
\* if it was among the results taken.
FoundWhereReturned ==
    \A d \in Source, s \in Sheet :
       s \in worksheetsOf[d] <=>
          \/ /\ <<"sources", s>> \in read
             /\ \E i \in DOMAIN Returned(s) : Returned(s)[i] = d
          \/ /\ batch # Undefined /\ s = Head(todo)
             /\ \E i \in 1 .. Taken : Returned(s)[i] = d

ListedOnce ==
    /\ \A i, j \in DOMAIN merged : merged[i] = merged[j] => i = j
    /\ {merged[i] : i \in DOMAIN merged} = {d \in Source : worksheetsOf[d] # {}}

\* The sweep begins with nothing found.
SweepIsFresh == stage \notin {"datasources", "session", "done"} =>
                   merged = <<>> /\ \A s \in Sheet : <<"sources", s>> \notin read

SampledIsFirst == merged # <<>> /\ merged[1] = content[dataSheet][1]

\* While the sampled worksheet is in front it is the first to be swept; later it is not
\* come to again.
SampledComesFirst ==
    dataSheet # NoSheet =>
       /\ stage = "datasources" => \A i \in 2 .. Len(todo) : todo[i] # dataSheet
       /\ stage = "datasources" /\ todo # <<>> /\ Head(todo) = dataSheet =>
             /\ <<"sources", dataSheet>> \notin read
             /\ batch = Undefined \/ Taken = 0 => merged = <<>>
             /\ batch # Undefined /\ Taken > 0 => SampledIsFirst
       /\ <<"sources", dataSheet>> \in read /\ content[dataSheet] # <<>> => SampledIsFirst

\* The pair of the session is asked for beside datasources only, and last.
PairIsLast == vds => stage = "done" /\ HasDatasources

SourcesInv == /\ CaptureOK /\ CacheIsTruthful
              /\ InHand /\ FoundWhereReturned /\ ListedOnce
              /\ SweepIsFresh /\ SampledComesFirst /\ PairIsLast

LEMMA SourcesInit == Init => SourcesInv
<1> SUFFICES ASSUME Init
             PROVE  SourcesInv
  OBVIOUS
<1>1. CaptureOK /\ CacheIsTruthful
  BY CaptureOKInit DEF Init, CacheIsTruthful
<1>2. DOMAIN merged = {}
  BY DEF Init
<1>3. QED
  BY <1>1, <1>2
     DEF Init, SourcesInv, InHand, FoundWhereReturned, ListedOnce, SweepIsFresh,
         SampledComesFirst, PairIsLast

\* A step of another stage leaves the sweep where it is, or starts it.
LEMMA SourcesAside ==
    ASSUME SourcesInv, CaptureOK', CacheIsTruthful', UNCHANGED <<content, batch, merged, worksheetsOf>>,
           \A s \in Sheet : <<"sources", s>> \in read' <=> <<"sources", s>> \in read,
           \/ UNCHANGED dataSheet
           \/ stage = "selection" /\ stage' = "summary",
           batch # Undefined => UNCHANGED todo /\ UNCHANGED stage,
           stage' \in {"idle", "filters", "appliedTo", "parameters", "selection", "summary",
                       "page", "release"}
             => stage \notin {"datasources", "session", "done"},
           stage' = "datasources" =>
             \/ stage = "datasources" /\ (UNCHANGED todo \/ (todo # <<>> /\ todo' = Tail(todo)))
             \/ /\ stage \in {"summary", "page", "release"} /\ todo' = SweepOrder
                /\ UNCHANGED dataSheet,
           \/ UNCHANGED vds /\ (stage = "done" => stage' = "done")
           \/ stage' = "done" /\ HasDatasources
    PROVE  SourcesInv'
<1> USE DEF SourcesInv
<1>0. /\ \A s : Returned(s)' = Returned(s)
      /\ batch # Undefined => Taken' = Taken /\ Head(todo') = Head(todo)
  BY DEF Returned, Taken
<1>1. InHand' /\ ListedOnce' /\ SweepIsFresh'
  BY <1>0 DEF InHand, ListedOnce, SweepIsFresh, CaptureOK, TypeOK, Stage
<1>2. FoundWhereReturned'
  BY <1>0 DEF FoundWhereReturned
<1>3. PairIsLast'
  BY DEF PairIsLast, HasDatasources
<1>4. SampledComesFirst'
  <2> SUFFICES ASSUME dataSheet' # NoSheet
               PROVE  SampledComesFirst'
    BY DEF SampledComesFirst
  <2>0. dataSheet' \in Sheet
    BY DEF CaptureOK, TypeOK
  <2>1. CASE ~UNCHANGED dataSheet
    BY <2>0, <2>1 DEF SampledComesFirst, SweepIsFresh
  <2>2. CASE UNCHANGED dataSheet /\ stage \in {"summary", "page", "release"}
    <3>1. merged = <<>> /\ <<"sources", dataSheet>> \notin read'
      BY <2>0, <2>2 DEF SweepIsFresh
    <3>2. batch = Undefined
      BY <2>2 DEF CaptureOK, InStep
    <3>3. stage' = "datasources" => \A i \in 2 .. Len(todo') : todo'[i] # dataSheet
      BY <2>2, SweepOrderFacts DEF CaptureOK, TypeOK
    <3>4. QED
      BY <2>2, <3>1, <3>2, <3>3 DEF SampledComesFirst
  <2>3. CASE UNCHANGED dataSheet /\ stage = "datasources" /\ UNCHANGED todo
    BY <1>0, <2>0, <2>3 DEF SampledComesFirst, SampledIsFirst, Taken
  <2>4. CASE UNCHANGED dataSheet /\ stage = "datasources" /\ ~UNCHANGED todo
    <3>1. SampledIsFirst' <=> SampledIsFirst
      BY <2>4 DEF SampledIsFirst
    <3>2. stage' = "datasources" =>
            /\ \A i \in 2 .. Len(todo') : todo'[i] # dataSheet
            /\ todo' # <<>> => Head(todo') # dataSheet
      <4> SUFFICES ASSUME stage' = "datasources"
                   PROVE  /\ \A i \in 2 .. Len(todo') : todo'[i] # dataSheet
                          /\ todo' # <<>> => Head(todo') # dataSheet
        OBVIOUS
      <4>1. todo \in Seq(Sheet) /\ todo # <<>> /\ todo' = Tail(todo)
        BY <2>4 DEF CaptureOK, TypeOK
      <4>2. \A i \in 2 .. Len(todo) : todo[i] # dataSheet
        BY <2>4 DEF SampledComesFirst
      <4>3. /\ Len(todo') = Len(todo) - 1 /\ Len(todo) \in Nat
            /\ \A i \in 1 .. Len(todo') : todo'[i] = todo[i + 1]
        BY <4>1
      <4>4. todo' # <<>> => 1 \in 1 .. Len(todo') /\ Head(todo') = todo'[1]
        BY <4>1
      <4>5. QED
        BY <4>2, <4>3, <4>4
    <3>3. QED
      BY <2>0, <2>4, <3>1, <3>2 DEF SampledComesFirst
  <2>5. CASE UNCHANGED dataSheet /\ stage \notin {"summary", "page", "release", "datasources"}
    BY <1>0, <2>0, <2>5 DEF SampledComesFirst, SampledIsFirst
  <2>6. QED
    BY <2>1, <2>2, <2>3, <2>4, <2>5
<1>5. QED
  BY <1>1, <1>2, <1>3, <1>4

\* The results of the worksheet in front are in hand, none of them merged yet.
LEMMA ResultsComeToHand ==
    ASSUME SourcesInv, CaptureOK', CacheIsTruthful', stage = "datasources", todo # <<>>,
           batch = Undefined, batch' = Returned(Head(todo)),
           UNCHANGED <<content, stage, todo, dataSheet, merged, worksheetsOf, vds, read>>
    PROVE  SourcesInv'
<1> USE DEF SourcesInv
<1>0. /\ \A s : Returned(s)' = Returned(s)
      /\ Head(todo) \in Sheet /\ Returned(Head(todo)) \in Seq(Source)
  BY TodoFacts, ReturnedFacts DEF Returned, CaptureOK, TypeOK
<1>1. Taken' = 0
  BY <1>0 DEF Taken
<1>2. InHand'
  BY <1>0, <1>1 DEF InHand
<1>3. FoundWhereReturned'
  <2>1. ~\E i \in 1 .. Taken' : TRUE
    BY <1>1
  <2>2. QED
    BY <1>0, <2>1, Zenon DEF FoundWhereReturned
<1>4. ListedOnce' /\ SweepIsFresh' /\ PairIsLast'
  BY DEF ListedOnce, SweepIsFresh, PairIsLast, HasDatasources
<1>5. SampledComesFirst'
  BY <1>1 DEF SampledComesFirst, SampledIsFirst
<1>6. QED
  BY <1>2, <1>3, <1>4, <1>5

LEMMA MergesRight ==
    ASSUME SourcesInv, CaptureOK', CacheIsTruthful', MergeDatasource
    PROVE  SourcesInv'
<1> USE DEF SourcesInv
<1> DEFINE d == Head(batch)
           s == Head(todo)
<1>0. /\ \A t : Returned(t)' = Returned(t)
      /\ batch # Undefined /\ batch \in Seq(Source) /\ batch # <<>> /\ batch' = Tail(batch)
      /\ UNCHANGED <<content, stage, todo, dataSheet, vds, read>>
      /\ merged' = IF worksheetsOf[d] = {} THEN Append(merged, d) ELSE merged
      /\ worksheetsOf' = [worksheetsOf EXCEPT ![d] = worksheetsOf[d] \cup {s}]
  BY DEF MergeDatasource, Attribute, Returned, envVars, CaptureOK, TypeOK
<1>1. /\ stage = "datasources" /\ s \in Sheet /\ d \in Source
      /\ merged \in Seq(Source) /\ worksheetsOf \in [Source -> SUBSET Sheet]
  BY <1>0, TodoFacts DEF CaptureOK, TypeOK, InStep
<1>2. /\ Returned(s) \in Seq(Source) /\ Len(batch) <= Len(Returned(s))
      /\ Taken \in Nat /\ Taken' = Taken + 1 /\ batch' # Undefined
      /\ d = Returned(s)[Taken + 1]
      /\ Len(batch') = Len(batch) - 1
      /\ \A i \in DOMAIN batch' : batch'[i] = Returned(s)[Taken + 1 + i]
  <2>1. Returned(s) \in Seq(Source)
    BY <1>1, ReturnedFacts
  <2>2. /\ Len(batch) <= Len(Returned(s))
        /\ \A i \in DOMAIN batch : batch[i] = Returned(s)[Taken + i]
    BY <1>0 DEF InHand
  <2>3. /\ Len(batch') = Len(batch) - 1 /\ Len(batch) \in Nat /\ Len(batch) > 0
        /\ DOMAIN batch = 1 .. Len(batch) /\ DOMAIN batch' = 1 .. Len(batch) - 1
        /\ \A i \in DOMAIN batch' : batch'[i] = batch[i + 1]
        /\ d = batch[1]
    BY <1>0
  <2>4. Taken \in Nat /\ Taken' = Taken + 1
    <3>1. Taken = Len(Returned(s)) - Len(batch) /\ Taken' = Len(Returned(s)) - Len(batch')
      BY <1>0, Zenon DEF Taken
    <3> HIDE DEF s
    <3>2. QED
      BY <2>1, <2>2, <2>3, <3>1
  <2>5. batch' # Undefined
    <3>1. Tail(batch) \in Seq(Source)
      BY <1>0
    <3>2. QED
      BY <1>0, <3>1, UndefinedAssumption, Zenon
  <2> HIDE DEF d, s
  <2>6. ASSUME NEW i \in DOMAIN batch'
        PROVE  batch'[i] = Returned(s)[Taken + 1 + i]
    <3>1. i + 1 \in DOMAIN batch /\ batch'[i] = batch[i + 1] /\ i \in Nat
      BY <2>3
    <3>2. Taken + (i + 1) = Taken + 1 + i
      BY <2>4, <3>1
    <3>3. QED
      BY <2>2, <3>1, <3>2
  <2>7. d = Returned(s)[Taken + 1]
    BY <2>2, <2>3
  <2>8. QED
    BY <2>1, <2>2, <2>3, <2>4, <2>5, <2>6, <2>7
<1> HIDE DEF d, s
<1>3. InHand'
  BY <1>0, <1>2 DEF InHand, s
<1>4. FoundWhereReturned'
  <2> SUFFICES ASSUME NEW e \in Source, NEW t \in Sheet
               PROVE  t \in worksheetsOf'[e] <=>
                        \/ /\ <<"sources", t>> \in read'
                           /\ \E i \in DOMAIN Returned(t)' : Returned(t)'[i] = e
                        \/ /\ batch' # Undefined /\ t = Head(todo')
                           /\ \E i \in 1 .. Taken' : Returned(t)'[i] = e
    BY Zenon DEF FoundWhereReturned
  <2>0. /\ Returned(t)' = Returned(t) /\ Taken' = Taken + 1
        /\ read' = read /\ batch' # Undefined /\ Head(todo') = s
    BY <1>0, <1>2 DEF s
  <2>1. t \in worksheetsOf'[e] <=> t \in worksheetsOf[e] \/ (t = s /\ e = d)
    BY <1>0, <1>1
  <2>2. t \in worksheetsOf[e] <=>
           \/ /\ <<"sources", t>> \in read
              /\ \E i \in DOMAIN Returned(t) : Returned(t)[i] = e
           \/ t = s /\ \E i \in 1 .. Taken : Returned(t)[i] = e
    BY <1>0 DEF FoundWhereReturned, s
  <2>3. t = s => ((\E i \in 1 .. Taken + 1 : Returned(t)[i] = e)
                    <=> e = d \/ \E i \in 1 .. Taken : Returned(t)[i] = e)
    BY <1>2
  <2>4. QED
    BY <2>0, <2>1, <2>2, <2>3
<1>5. ListedOnce'
  <2>1. {e \in Source : worksheetsOf'[e] # {}} = {e \in Source : worksheetsOf[e] # {}} \cup {d}
    BY <1>0, <1>1
  <2>2. CASE worksheetsOf[d] # {}
    BY <1>0, <2>1, <2>2 DEF ListedOnce
  <2>3. CASE worksheetsOf[d] = {}
    <3>1. /\ DOMAIN merged' = DOMAIN merged \cup {Len(merged) + 1}
          /\ Len(merged) + 1 \notin DOMAIN merged
          /\ merged'[Len(merged) + 1] = d
          /\ \A i \in DOMAIN merged : merged'[i] = merged[i]
      BY <1>0, <1>1, <2>3
    <3>2. \A i \in DOMAIN merged : merged[i] # d
      BY <2>3 DEF ListedOnce
    <3>3. {merged'[i] : i \in DOMAIN merged'} = {merged[i] : i \in DOMAIN merged} \cup {d}
      BY <3>1
    <3>4. \A i, j \in DOMAIN merged' : merged'[i] = merged'[j] => i = j
      BY <3>1, <3>2 DEF ListedOnce
    <3>5. QED
      BY <2>1, <3>3, <3>4 DEF ListedOnce
  <2>4. QED
    BY <2>2, <2>3
<1>6. SweepIsFresh' /\ PairIsLast'
  BY <1>0, <1>1 DEF SweepIsFresh, PairIsLast
<1>7. SampledComesFirst'
  <2>1. merged # <<>> => merged' # <<>> /\ merged'[1] = merged[1]
    BY <1>0, <1>1
  <2>2. ASSUME merged = <<>>
        PROVE  merged' = <<d>>
    <3>1. worksheetsOf[d] = {}
      BY <1>1, <2>2 DEF ListedOnce
    <3>2. QED
      BY <1>0, <2>2, <3>1
  <2> SUFFICES ASSUME dataSheet # NoSheet
               PROVE  SampledComesFirst'
    BY <1>0 DEF SampledComesFirst
  <2>3. SampledIsFirst => SampledIsFirst'
    BY <1>0, <2>1 DEF SampledIsFirst
  <2>4. CASE s = dataSheet
    <3>1. Taken > 0 => SampledIsFirst'
      BY <1>0, <1>1, <2>3, <2>4 DEF SampledComesFirst, s, CaptureOK, InStep
    <3>2. Taken = 0 => SampledIsFirst'
      <4>1. ASSUME Taken = 0
            PROVE  merged' # <<>> /\ merged'[1] = content[s][1]
        <5>1. merged = <<>>
          BY <1>0, <1>1, <2>4, <4>1 DEF SampledComesFirst, s, CaptureOK, InStep
        <5>2. d = Returned(s)[1] /\ Returned(s) # <<>>
          BY <1>0, <1>2, <4>1 DEF Taken, s
        <5>3. content[s] # <<>>
          BY <1>1, <5>2, ReturnedFacts DEF CaptureOK, TypeOK
        <5>4. QED
          BY <1>1, <2>2, <5>1, <5>2, <5>3, ReturnedFacts
      <4>2. QED
        BY <1>0, <2>4, <4>1 DEF SampledIsFirst
    <3>3. QED
      BY <1>0, <1>2, <2>4, <3>1, <3>2 DEF SampledComesFirst, s
  <2>5. CASE s # dataSheet
    BY <1>0, <2>3, <2>5 DEF SampledComesFirst, s
  <2>6. QED
    BY <2>4, <2>5
<1>8. QED
  BY <1>3, <1>4, <1>5, <1>6, <1>7

LEMMA SweptRight ==
    ASSUME SourcesInv, CaptureOK', CacheIsTruthful', WorksheetSwept
    PROVE  SourcesInv'
<1> USE DEF SourcesInv
<1> DEFINE s == Head(todo)
<1>0. /\ \A t : Returned(t)' = Returned(t)
      /\ batch = <<>> /\ batch # Undefined /\ batch' = Undefined
      /\ read' = read \cup {<<"sources", s>>}
      /\ UNCHANGED <<content, stage, dataSheet, merged, worksheetsOf, vds>>
  BY UndefinedAssumption, NothingLeft DEF WorksheetSwept, Returned, envVars
<1>1. /\ stage = "datasources" /\ s \in Sheet
      /\ todo \in Seq(Sheet) /\ todo # <<>> /\ todo' = Tail(todo)
  BY <1>0, TodoFacts DEF WorksheetSwept, CaptureOK, TypeOK, InStep
<1>2. Returned(s) \in Seq(Source) /\ Taken = Len(Returned(s))
  BY <1>0, <1>1, ReturnedFacts DEF Taken
<1>3. InHand' /\ ListedOnce' /\ SweepIsFresh' /\ PairIsLast'
  BY <1>0, <1>1 DEF InHand, ListedOnce, SweepIsFresh, PairIsLast, HasDatasources
<1>4. FoundWhereReturned'
  <2> SUFFICES ASSUME NEW e \in Source, NEW t \in Sheet
               PROVE  t \in worksheetsOf[e] <=>
                         /\ <<"sources", t>> \in read'
                         /\ \E i \in DOMAIN Returned(t) : Returned(t)[i] = e
    BY <1>0, Zenon DEF FoundWhereReturned
  <2>1. t \in worksheetsOf[e] <=>
           \/ /\ <<"sources", t>> \in read
              /\ \E i \in DOMAIN Returned(t) : Returned(t)[i] = e
           \/ t = s /\ \E i \in 1 .. Taken : Returned(t)[i] = e
    BY <1>0, Zenon DEF FoundWhereReturned
  <2>2. DOMAIN Returned(s) = 1 .. Taken
    BY <1>2
  <2>3. <<"sources", t>> \in read' <=> <<"sources", t>> \in read \/ t = s
    BY <1>0
  <2> HIDE DEF s
  <2>4. QED
    BY <2>1, <2>2, <2>3
<1>5. SampledComesFirst'
  <2> SUFFICES ASSUME dataSheet # NoSheet
               PROVE  SampledComesFirst'
    BY <1>0 DEF SampledComesFirst
  <2>1. SampledIsFirst' <=> SampledIsFirst
    BY <1>0 DEF SampledIsFirst
  <2>2. /\ \A i \in 2 .. Len(todo') : todo'[i] # dataSheet
        /\ todo' # <<>> => Head(todo') # dataSheet
    <3>1. \A i \in 2 .. Len(todo) : todo[i] # dataSheet
      BY <1>1 DEF SampledComesFirst
    <3>2. /\ Len(todo') = Len(todo) - 1 /\ Len(todo) \in Nat
          /\ \A i \in 1 .. Len(todo') : todo'[i] = todo[i + 1]
      BY <1>1
    <3>3. todo' # <<>> => 1 \in 1 .. Len(todo') /\ Head(todo') = todo'[1]
      BY <1>1
    <3>4. QED
      BY <3>1, <3>2, <3>3
  <2>3. ASSUME <<"sources", dataSheet>> \in read', content[dataSheet] # <<>>
        PROVE  SampledIsFirst
    <3>1. CASE s = dataSheet
      <4>1. Taken > 0
        BY <1>0, <1>1, <1>2, <2>3, <3>1, ReturnedFacts
      <4>2. QED
        BY <1>0, <1>1, <3>1, <4>1 DEF SampledComesFirst
    <3>2. CASE s # dataSheet
      BY <1>0, <2>3, <3>2 DEF SampledComesFirst
    <3>3. QED
      BY <3>1, <3>2
  <2>4. QED
    BY <1>0, <2>1, <2>2, <2>3 DEF SampledComesFirst
<1>6. QED
  BY <1>3, <1>4, <1>5

LEMMA SourcesStep ==
    ASSUME SourcesInv, CaptureOK', CacheIsTruthful', [Next]_captureVars
    PROVE  SourcesInv'
<1> USE DEF SourcesInv, GoTo, GoOn, Settle
<1>0. UNCHANGED content
  BY EnvStep DEF envVars
<1>1. CASE UNCHANGED captureVars
  BY <1>1, SourcesAside DEF captureVars, payloadVars, envVars
<1>2. ASSUME NEW s, NEW readable, Begin(s, readable)
      PROVE  SourcesInv'
  <2>1. /\ batch' = Undefined /\ merged' = <<>> /\ read' = {} /\ dataSheet' = NoSheet
        /\ worksheetsOf' = [d \in Source |-> {}] /\ vds' = FALSE
    BY <1>2, Zenon DEF Begin, BlankPayload
  <2>2. DOMAIN merged' = {}
    BY <2>1
  <2>3. QED
    BY <2>1, <2>2
       DEF InHand, FoundWhereReturned, ListedOnce, SweepIsFresh, SampledComesFirst, PairIsLast
<1>3. CASE SkipWorksheet
  BY <1>0, <1>3, SourcesAside DEF SkipWorksheet, payloadVars, CaptureOK, InStep
<1>4. CASE UseCachedDatasources
  <2>1. datasourceCache[Head(todo)] = Returned(Head(todo))
    BY <1>4, TodoFacts DEF UseCachedDatasources, CaptureOK, TypeOK, CacheIsTruthful, Returned
  <2>2. QED
    BY <1>0, <1>4, <2>1, ResultsComeToHand DEF UseCachedDatasources
<1>5. CASE MergeDatasource
  BY <1>5, MergesRight
<1>6. CASE WorksheetSwept
  BY <1>6, SweptRight
<1>7. CASE NextStage
  BY <1>0, <1>7, SourcesAside DEF NextStage, CaptureOK, InStep
<1>8. CASE Issue \/ OverallTimeout
  BY <1>0, <1>8, SourcesAside DEF Issue, OverallTimeout, payloadVars
<1>9. CASE CallRefused \/ CallTimesOut
  <2>1. batch = Undefined /\ stage \notin {"idle", "done"}
    BY <1>9 DEF CallRefused, CallTimesOut, CallNext, CaptureOK, InStep
  <2>2. QED
    BY <1>0, <1>9, <2>1, SourcesAside
       DEF CallRefused, CallTimesOut, CallAborts, NotingStage
<1>10. CASE Answer
  <2>1. inCall
    BY <1>10 DEF Answer, FiltersAnswer, AppliedToAnswer, ParametersAnswer, SelectionAnswer,
                 ReaderAnswer, PageAnswer, ReleaseAnswer, DatasourcesAnswer, SessionAnswer,
                 CallFails, DatasourcesFail
  <2>2. batch = Undefined
    BY <2>1 DEF CaptureOK, InStep
  <2>3. CASE DatasourcesAnswer
    <3>1. stage = "datasources" /\ todo # <<>>
      BY <2>3 DEF DatasourcesAnswer, CaptureOK, InStep
    <3>2. QED
      BY <1>0, <2>2, <2>3, <3>1, ResultsComeToHand DEF DatasourcesAnswer, Returned
  <2>4. CASE FiltersAnswer
    BY <1>0, <2>2, <2>4, SourcesAside DEF FiltersAnswer
  <2>5. CASE AppliedToAnswer \/ ReaderAnswer \/ ReleaseAnswer
    BY <1>0, <2>2, <2>5, SourcesAside
       DEF AppliedToAnswer, ReaderAnswer, ReleaseAnswer, payloadVars
  <2>6. CASE ParametersAnswer \/ PageAnswer
    BY <1>0, <2>2, <2>6, SourcesAside DEF ParametersAnswer, PageAnswer
  <2>7. CASE SelectionAnswer
    BY <1>0, <2>2, <2>7, SourcesAside DEF SelectionAnswer
  <2>8. CASE SessionAnswer
    <3>1. HasDatasources
      BY <2>8 DEF SessionAnswer, CaptureOK, InStep
    <3>2. QED
      BY <1>0, <2>2, <2>8, <3>1, SourcesAside DEF SessionAnswer
  <2>9. CASE CallFails
    BY <1>0, <2>2, <2>9, SourcesAside DEF CallFails, payloadVars
  <2>10. CASE DatasourcesFail
    <3>1. todo # <<>>
      BY <2>10 DEF DatasourcesFail, CaptureOK, InStep
    <3>2. QED
      BY <1>0, <2>2, <2>10, <3>1, SourcesAside DEF DatasourcesFail, payloadVars
  <2>11. QED
    BY <1>10, <2>3, <2>4, <2>5, <2>6, <2>7, <2>8, <2>9, <2>10 DEF Answer
<1>11. QED
  BY <1>1, <1>2, <1>3, <1>4, <1>5, <1>6, <1>7, <1>8, <1>9, <1>10 DEF Next, Advance

\* Every datasource is listed once, with the worksheets whose read returned it in this
\* capture and no other, the one behind the sampled rows first, and a session pair stands
\* beside one at least (captureVizState.ts:379-490).
THEOREM DatasourcesStayRight == Spec => []DatasourcesAreRight
<1>1. SourcesInv => SampledDatasourceFirst
  <2>1. ASSUME CaptureOK, <<"sources", dataSheet>> \in read
        PROVE  dataSheet # NoSheet
    BY <2>1, WorksheetsAssumption DEF CaptureOK, TypeOK, Read
  <2>2. QED
    BY <2>1 DEF SourcesInv, SampledComesFirst, SampledIsFirst, SampledDatasourceFirst
<1>2. SourcesInv => AttributionIsExact
  <2> SUFFICES ASSUME SourcesInv
               PROVE  AttributionIsExact
    OBVIOUS
  <2>1. ASSUME NEW d \in Source, NEW s \in Sheet, batch = Undefined
        PROVE  s \in worksheetsOf[d] <=>
                 /\ <<"sources", s>> \in read
                 /\ \E i \in 1 .. MAX_DATASOURCES : i <= Len(content[s]) /\ content[s][i] = d
    <3>1. s \in worksheetsOf[d] <=> /\ <<"sources", s>> \in read
                                    /\ \E i \in DOMAIN Returned(s) : Returned(s)[i] = d
      BY <2>1, Zenon DEF SourcesInv, FoundWhereReturned
    <3>2. (\E i \in DOMAIN Returned(s) : Returned(s)[i] = d)
             <=> \E i \in 1 .. MAX_DATASOURCES : i <= Len(content[s]) /\ content[s][i] = d
      BY ReturnedFacts, Zenon DEF SourcesInv
    <3>3. QED
      BY <3>1, <3>2, Zenon
  <2>2. QED
    BY <2>1, Zenon DEF SourcesInv, ListedOnce, AttributionIsExact
<1>3. SourcesInv => SessionHasDatasources
  <2> SUFFICES ASSUME SourcesInv, vds
               PROVE  Datasources # <<>>
    BY DEF SessionHasDatasources
  <2>1. merged \in Seq(Source) /\ merged # <<>> /\ MAX_DATASOURCES_TOTAL \in Nat \ {0}
    BY LimitsAssumption DEF SourcesInv, PairIsLast, HasDatasources, CaptureOK, TypeOK
  <2>2. Len(Datasources) > 0
    BY <2>1, UptoFacts DEF Datasources
  <2>3. QED
    BY <2>2
<1>4. SourcesInv => DatasourcesAreRight
  BY <1>1, <1>2, <1>3 DEF DatasourcesAreRight
<1>5. SourcesInv /\ CaptureOK' /\ CacheIsTruthful' /\ [Next]_captureVars => SourcesInv'
  BY SourcesStep
<1>6. QED
  BY <1>4, <1>5, SourcesInit, CaptureInvariant, CacheStaysTruthful, PTL DEF Spec, SafetySpec

-----------------------------------------------------------------------------
(* The composition.                                                        *)

InCapture == \E r \in Run : pc[r] = "capture"

\* The types of what the proofs look at.
ChannelTypes == /\ pc \in [Run -> Bridge!PC]
                /\ preferredSheetName \in Sheet \cup {NoSheet}
                /\ consecutiveTimeouts \in Nat

\* The lock: capturing is set exactly while runCapture is suspended, in one activation.
Lock == /\ capturing <=> \E r \in Run : pc[r] # "idle"
        /\ \A r, s \in Run : pc[r] # "idle" /\ pc[s] # "idle" => r = s

\* Calls are only made for the capture that is awaited.
CallsAreAwaited == stage \notin {"idle", "done"} => InCapture

\* Between captures the breaker's count is that of the last one's error lines.
CountIsMarked == consecutiveTimeouts > 0 /\ ~disposed /\ ~InCapture
                     => "capture aborted" \in errors

ChannelInv == /\ CaptureOK
              /\ TimersAbort
              /\ ChannelTypes
              /\ Lock
              /\ CallsAreAwaited
              /\ CountIsMarked

-----------------------------------------------------------------------------
(* The steps of the components.                                            *)

\* A finally block lets go of the lock.
LEMMA FinallyFrees ==
    ASSUME ChannelTypes, Lock, NEW r \in Run, pc[r] # "idle",
           Bridge!FinallyAlive(r) \/ Bridge!FinallyDisposed(r)
    PROVE  /\ capturing' = FALSE
           /\ pc' \in [Run -> Bridge!PC]
           /\ \A s \in Run : pc'[s] = "idle"
BY DEF ChannelTypes, Lock, Bridge!PC, Bridge!FinallyAlive, Bridge!FinallyDisposed

\* What the events, timers and pushes leave alone, and that they start no capture.
LEMMA BridgeKeeps ==
    ASSUME ChannelTypes, Lock, BridgeStep
    PROVE  /\ ChannelTypes' /\ Lock'
           /\ InCapture' <=> InCapture
           /\ disposed => disposed'
           /\ UNCHANGED <<consecutiveTimeouts, captureVars>>
<1> USE DEF ChannelTypes, Lock, InCapture
<1>0. UNCHANGED captureVars
  BY DEF BridgeStep
<1>1. CASE \E name \in Sheet \cup {NoSheet} : Bridge!VizEvent(name)
  BY <1>0, <1>1 DEF Bridge!VizEvent
<1>2. CASE Bridge!VizLoaded
  BY <1>0, <1>2 DEF Bridge!VizLoaded
<1>3. CASE Bridge!RunCaptureReturnsEarly
  BY <1>0, <1>3 DEF Bridge!RunCaptureReturnsEarly
<1>4. ASSUME NEW r \in Run, Bridge!PushSettles(r) \/ Bridge!LastPushSettles(r)
      PROVE  /\ ChannelTypes' /\ Lock'
             /\ InCapture' <=> InCapture
             /\ disposed => disposed'
             /\ UNCHANGED <<consecutiveTimeouts, captureVars>>
  <2>1. /\ pc[r] \in {"push", "lastPush"}
        /\ Bridge!FinallyAlive(r) \/ Bridge!FinallyDisposed(r)
        /\ UNCHANGED <<consecutiveTimeouts, preferredSheetName>>
        /\ disposed => disposed'
    BY <1>4 DEF Bridge!PushSettles, Bridge!LastPushSettles, Bridge!FinallyBlock,
                Bridge!DisposeOf
  <2>2. /\ capturing' = FALSE /\ pc' \in [Run -> Bridge!PC]
        /\ \A s \in Run : pc'[s] = "idle"
    BY <2>1, FinallyFrees
  <2>3. ~InCapture
    BY <2>1
  <2>4. QED
    BY <1>0, <2>1, <2>2, <2>3
<1>5. CASE Bridge!Dispose
  BY <1>0, <1>5 DEF Bridge!Dispose, Bridge!DisposeOf
<1>6. QED
  BY <1>1, <1>2, <1>3, <1>4, <1>5 DEF BridgeStep

\* A capture that has not begun or is over does nothing by itself.
LEMMA OverIsOver ==
    ASSUME CaptureOK, CaptureStep
    PROVE  stage \notin {"idle", "done"}
<1> USE DEF CaptureOK, InStep
<1>1. CASE OverallTimeout
  BY <1>1 DEF OverallTimeout
<1>2. CASE Answer
  BY <1>2 DEF Answer, FiltersAnswer, AppliedToAnswer, ParametersAnswer, SelectionAnswer,
              ReaderAnswer, PageAnswer, ReleaseAnswer, DatasourcesAnswer, SessionAnswer,
              CallFails, DatasourcesFail
<1>3. CASE SkipWorksheet \/ UseCachedDatasources \/ NextStage
  BY <1>3 DEF SkipWorksheet, UseCachedDatasources, NextStage
<1>4. CASE MergeDatasource
  BY <1>4 DEF MergeDatasource
<1>5. CASE WorksheetSwept
  BY <1>5, UndefinedAssumption, NothingLeft DEF WorksheetSwept
<1>6. CASE Issue \/ CallRefused
  BY <1>6 DEF Issue, CallRefused, CallNext
<1>7. CASE CallTimesOut
  BY <1>7 DEF CallTimesOut
<1>8. QED
  BY <1>1, <1>2, <1>3, <1>4, <1>5, <1>6, <1>7 DEF CaptureStep, Advance

\* A capture that starts: the bridge takes the lock, VizCapture begins.
LEMMA StartBegins ==
    ASSUME ChannelTypes, NEW r \in Run, Start(r)
    PROVE  /\ ~capturing /\ capturing' = TRUE
           /\ pc' = [pc EXCEPT ![r] = "capture"]
           /\ UNCHANGED <<preferredSheetName, disposed, consecutiveTimeouts>>
           /\ \E s \in Sheet \cup {NoSheet}, readable \in BOOLEAN : Begin(s, readable)
BY DEF Start, ChannelTypes, Bridge!StartCapture, Bridge!MayStart

\* A capture that is delivered: counted, or dropped by a bridge that is disposed of.
LEMMA DeliverCounts ==
    ASSUME ChannelTypes, Lock, NEW r \in Run, Deliver(r)
    PROVE  /\ ChannelTypes' /\ Lock' /\ ~InCapture' /\ stage = "done"
           /\ UNCHANGED captureVars
           /\ \/ disposed'
              \/ consecutiveTimeouts' > 0 => "capture aborted" \in errors
<1> USE DEF ChannelTypes, Lock, InCapture
<1>0. pc[r] = "capture" /\ stage = "done" /\ UNCHANGED captureVars
  BY DEF Deliver, Bridge!CaptureReturns, Bridge!CaptureReturnsDisposed
<1>1. CASE Bridge!CaptureReturns(r, Marked)
  <2>1. /\ UNCHANGED <<capturing, preferredSheetName>>
        /\ consecutiveTimeouts' = IF Marked THEN consecutiveTimeouts + 1 ELSE 0
        /\ \/ pc' = [pc EXCEPT ![r] = "lastPush"]
           \/ pc' = [pc EXCEPT ![r] = "push"]
    BY <1>1 DEF Bridge!CaptureReturns, Bridge!TimeoutsAfter
  <2>2. pc' \in [Run -> Bridge!PC]
    BY <2>1 DEF Bridge!PC
  <2>3. /\ pc'[r] \in {"push", "lastPush"}
        /\ \A s \in Run : s # r => pc'[s] = "idle"
    BY <1>0, <2>1
  <2>4. consecutiveTimeouts' \in Nat /\ (~Marked => consecutiveTimeouts' = 0)
    BY <2>1
  <2>5. consecutiveTimeouts' > 0 => Marked
    BY <2>4
  <2>6. ChannelTypes' /\ Lock' /\ ~InCapture'
    BY <1>0, <2>1, <2>2, <2>3, <2>4
  <2>7. QED
    BY <1>0, <2>5, <2>6 DEF Marked
<1>2. CASE Bridge!CaptureReturnsDisposed(r)
  <2>1. /\ disposed' /\ UNCHANGED <<preferredSheetName, consecutiveTimeouts>>
        /\ Bridge!FinallyAlive(r) \/ Bridge!FinallyDisposed(r)
    BY <1>2 DEF Bridge!CaptureReturnsDisposed, Bridge!FinallyBlock
  <2>2. /\ capturing' = FALSE /\ pc' \in [Run -> Bridge!PC]
        /\ \A s \in Run : pc'[s] = "idle"
    BY <1>0, <2>1, FinallyFrees
  <2>3. QED
    BY <1>0, <2>1, <2>2
<1>3. QED
  BY <1>1, <1>2 DEF Deliver

-----------------------------------------------------------------------------
(* The composition is a capture, and a bridge.                             *)

\* A step of the composition is one of the capture, or leaves it alone.
LEMMA StepCaptures ==
    ASSUME ChannelTypes, Lock, [ChannelNext]_channelVars
    PROVE  [Next]_captureVars
<1>1. CASE UNCHANGED channelVars
  BY <1>1 DEF channelVars
<1>2. CASE BridgeStep
  BY <1>2, BridgeKeeps
<1>3. CASE CaptureStep
  BY <1>3, Zenon DEF CaptureStep, Next
<1>4. ASSUME NEW r \in Run, Start(r)
      PROVE  Next
  BY <1>4, StartBegins, Zenon DEF Next
<1>5. ASSUME NEW r \in Run, Deliver(r)
      PROVE  UNCHANGED captureVars
  BY <1>5, Zenon DEF Deliver
<1>6. QED
  BY <1>1, <1>2, <1>3, <1>4, <1>5, Zenon DEF ChannelNext

\* A step of the composition is one of the bridge, or leaves it alone.
LEMMA StepBridges ==
    ASSUME [ChannelNext]_channelVars
    PROVE  [Bridge!Next]_(Bridge!bridgeVars)
<1>1. CASE UNCHANGED channelVars
  BY <1>1 DEF channelVars, bridgeVars, Bridge!bridgeVars
<1>2. CASE BridgeStep
  BY <1>2, Zenon DEF BridgeStep, Bridge!Next
<1>3. CASE CaptureStep
  BY <1>3 DEF CaptureStep, bridgeVars, Bridge!bridgeVars
<1>4. ASSUME NEW r \in Run, Start(r)
      PROVE  Bridge!Next
  BY <1>4, Zenon DEF Start, Bridge!Next
<1>5. ASSUME NEW r \in Run, Deliver(r)
      PROVE  Bridge!Next
  <2>1. Marked \in BOOLEAN
    BY DEF Marked
  <2>2. QED
    BY <1>5, <2>1, Zenon DEF Deliver, Bridge!Next
<1>6. QED
  BY <1>1, <1>2, <1>3, <1>4, <1>5, Zenon DEF ChannelNext

-----------------------------------------------------------------------------
(* The inductive invariant.                                                *)

LEMMA ChannelInvInit == ChannelInit => ChannelInv
<1> SUFFICES ASSUME ChannelInit
             PROVE  ChannelInv
  OBVIOUS
<1>1. Init /\ Bridge!Init
  BY DEF ChannelInit
<1>2. CaptureOK /\ TimersAbort
  BY <1>1, CaptureOKInit, TimersAbortInit
<1>3. /\ pc = [r \in Run |-> "idle"] /\ preferredSheetName = NoSheet /\ capturing = FALSE
      /\ consecutiveTimeouts = 0
  BY <1>1 DEF Bridge!Init
<1>4. ChannelTypes /\ Lock
  BY <1>3 DEF ChannelTypes, Lock, Bridge!PC
<1>5. stage = "idle" /\ consecutiveTimeouts = 0
  BY <1>1 DEF Init, Bridge!Init
<1>6. QED
  BY <1>2, <1>4, <1>5 DEF ChannelInv, CallsAreAwaited, CountIsMarked

LEMMA ChannelInvStep == ChannelInv /\ [ChannelNext]_channelVars => ChannelInv'
<1> SUFFICES ASSUME ChannelInv, [ChannelNext]_channelVars
             PROVE  ChannelInv'
  OBVIOUS
<1> USE DEF ChannelInv
<1>1. CaptureOK' /\ TimersAbort'
  BY StepCaptures, StaysOK, TimersAbortStep
<1>2. CASE UNCHANGED channelVars
  BY <1>1, <1>2 DEF channelVars, bridgeVars, captureVars, ChannelTypes, Lock, InCapture,
                    CallsAreAwaited, CountIsMarked
<1>3. CASE BridgeStep
  <2>1. /\ ChannelTypes' /\ Lock'
        /\ InCapture' <=> InCapture
        /\ disposed => disposed'
        /\ UNCHANGED <<consecutiveTimeouts, stage, errors>>
    BY <1>3, BridgeKeeps DEF captureVars
  <2>2. QED
    BY <1>1, <2>1 DEF CallsAreAwaited, CountIsMarked
<1>4. CASE CaptureStep
  <2>1. InCapture /\ UNCHANGED <<pc, preferredSheetName, capturing, consecutiveTimeouts>>
    BY <1>4, OverIsOver DEF CallsAreAwaited, CaptureStep, bridgeVars
  <2>2. InCapture' /\ ChannelTypes' /\ Lock'
    BY <2>1 DEF InCapture, ChannelTypes, Lock
  <2>3. QED
    BY <1>1, <2>2 DEF CallsAreAwaited, CountIsMarked
<1>5. ASSUME NEW r \in Run, Start(r)
      PROVE  ChannelInv'
  <2>1. /\ ~capturing /\ capturing' = TRUE
        /\ pc' = [pc EXCEPT ![r] = "capture"]
        /\ UNCHANGED <<preferredSheetName, consecutiveTimeouts>>
    BY <1>5, StartBegins
  <2>2. /\ \A s \in Run : pc[s] = "idle"
        /\ pc'[r] = "capture"
        /\ \A s \in Run : s # r => pc'[s] = "idle"
    BY <2>1 DEF Lock, ChannelTypes
  <2>3. ChannelTypes' /\ Lock' /\ InCapture'
    BY <2>1, <2>2 DEF Lock, ChannelTypes, InCapture, Bridge!PC
  <2>4. QED
    BY <1>1, <2>3 DEF CallsAreAwaited, CountIsMarked
<1>6. ASSUME NEW r \in Run, Deliver(r)
      PROVE  ChannelInv'
  <2>1. /\ ChannelTypes' /\ Lock' /\ stage' = "done"
        /\ UNCHANGED errors
        /\ \/ disposed'
           \/ consecutiveTimeouts' > 0 => "capture aborted" \in errors
    BY <1>6, DeliverCounts DEF captureVars
  <2>2. QED
    BY <1>1, <2>1 DEF CallsAreAwaited, CountIsMarked
<1>7. QED
  BY <1>2, <1>3, <1>4, <1>5, <1>6, Zenon DEF ChannelNext

LEMMA ChannelInvariant == ChannelSafetySpec => []ChannelInv
BY ChannelInvInit, ChannelInvStep, PTL DEF ChannelSafetySpec

-----------------------------------------------------------------------------
(* What follows.                                                           *)

\* The breaker counts timeouts only, through the error lines of whatever capture came
\* last (vizStateBridge.ts:33-37, 115-118).
THEOREM OnlyTimeoutsCount == ChannelSpec => []BreakerNeedsATimeout
<1>1. ChannelInv => BreakerNeedsATimeout
  <2> SUFFICES ASSUME ChannelInv, consecutiveTimeouts > 0, ~capturing, ~disposed
               PROVE  reason \in TimedOut
    BY DEF BreakerNeedsATimeout, TimedOut
  <2>1. ~InCapture
    BY DEF ChannelInv, Lock, InCapture
  <2>2. QED
    BY <2>1 DEF ChannelInv, CountIsMarked, TimersAbort
<1>2. QED
  BY <1>1, ChannelInvariant, PTL DEF ChannelSpec

\* The bridge never lets a capture start while the calls of another go on, so that one
\* set of capture variables, and one queue at a time, is all there is
\* (vizStateBridge.ts:97-107).
OneAtATime == Bridge!MayStart => stage \in {"idle", "done"}

THEOREM OneCaptureAtATime == ChannelSpec => []OneAtATime
<1>1. ChannelInv => OneAtATime
  BY DEF ChannelInv, Lock, CallsAreAwaited, InCapture, OneAtATime, Bridge!MayStart
<1>2. QED
  BY <1>1, ChannelInvariant, PTL DEF ChannelSpec

\* The composition behaves as VizStateBridge does: the safety part of ImplementsBridge
\* (vizStateBridge.ts:92-175).
THEOREM RefinesBridge == ChannelSpec => Bridge!SafetySpec
<1>1. ChannelInit => Bridge!Init
  BY DEF ChannelInit
<1>2. QED
  BY <1>1, StepBridges, PTL DEF ChannelSpec, ChannelSafetySpec, Bridge!SafetySpec

\* The composition behaves as VizCapture does: what is proved of captures holds of those
\* the bridge makes (vizStateBridge.ts:104-107).
THEOREM RefinesCapture == ChannelSpec => SafetySpec
<1>1. ChannelInit => Init
  BY DEF ChannelInit
<1>2. ChannelInv /\ [ChannelNext]_channelVars => [Next]_captureVars
  BY StepCaptures DEF ChannelInv
<1>3. QED
  BY <1>1, <1>2, ChannelInvariant, PTL DEF ChannelSpec, ChannelSafetySpec, SafetySpec
=============================================================================
