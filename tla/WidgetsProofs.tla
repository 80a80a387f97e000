----------------------------- MODULE WidgetsProofs -----------------------------
(***************************************************************************)
(* Proofs about Widgets, for every number of deliveries and panels, every  *)
(* life of an approval, and with deliveries and panels interleaved freely; *)
(* and about VizPushBudget, the ladder a viz's snapshot goes down, for     *)
(* every budget, every set of snapshots and every way their serialization  *)
(* may measure.  TLC checks the ladder with linear sizes; here Bytes is    *)
(* arbitrary, so the bound on what is pushed does not rest on a trim ever  *)
(* making the text shorter.                                                *)
(***************************************************************************)
EXTENDS Widgets, VizPushBudget, Sequences, TLAPS

-----------------------------------------------------------------------------
(* Deliveries.                                                             *)

DeliveriesTypeOK ==
    /\ result \in [Delivery!Delivery -> Delivery!Result]
    /\ pc \in [Delivery!Delivery -> {"todo", "load", "mint", "done"}]
    /\ mountPoint \in BOOLEAN
    /\ container \in Delivery!Delivery \cup {ErrorUI, Nothing}
    /\ bridges \subseteq Delivery!Delivery

\* Without the container element nothing is ever mounted.
MountsInThePage == ~mountPoint => container \notin Delivery!Delivery

\* What was delivered is known no earlier than the delivery arrives.
ResultsArrive == \A d \in Delivery!Delivery : pc[d] = "todo" => result[d] = "none"

\* What was mounted and has not been reported to fail is still there.
VizIsKept == mountPoint /\ elements # {} /\ ~failed => container \in Delivery!Delivery

\* A delivery that settled with something to say has put it on the page, and whatever
\* came after it has put something there as well.
SettledIsSeen ==
    mountPoint => \A d \in Delivery!Delivery :
                     pc[d] = "done" /\ result[d] \notin {"none", "empty"} => container # Nothing

PageInv == /\ DeliveriesTypeOK
           /\ MountsInThePage
           /\ ResultsArrive
           /\ VizIsKept
           /\ SettledIsSeen
           /\ PageIsConsistent

LEMMA PageInvInit == Delivery!Init => PageInv
BY DeliveryAssumption
   DEF Delivery!Init, Delivery!DeliveryAssumption, PageInv, DeliveriesTypeOK, MountsInThePage,
       ResultsArrive, VizIsKept, SettledIsSeen, PageIsConsistent, Delivery!PageIsConsistent,
       Delivery!Delivery, Delivery!Result

\* How a delivery or a report that mounts nothing changes the screen: not at all, or to a
\* failure, or to the error UI where no viz is lost.
Unmounted == \/ UNCHANGED <<container, failed>>
             \/ Delivery!Fail
             \/ Delivery!ShowError /\ container \notin Delivery!Delivery /\ UNCHANGED failed

\* The error UI is no viz, so that to show it spoils nothing.
LEMMA ErrorsAreConsistent ==
    ASSUME PageInv, Unmounted, UNCHANGED <<mountPoint, elements, bridges, disposer, link>>
    PROVE  /\ container' \in Delivery!Delivery \cup {ErrorUI, Nothing}
           /\ MountsInThePage' /\ PageIsConsistent' /\ VizIsKept'
           /\ mountPoint /\ container # Nothing => container' # Nothing
<1>1. ErrorUI \notin Delivery!Delivery /\ ErrorUI # Nothing
  BY DeliveryAssumption DEF Delivery!DeliveryAssumption, Delivery!Delivery
<1>2. CASE UNCHANGED <<container, failed>>
  BY <1>2 DEF PageInv, DeliveriesTypeOK, MountsInThePage, VizIsKept, PageIsConsistent,
              Delivery!PageIsConsistent
<1>3. CASE Delivery!ShowError
  <2>1. container' = IF mountPoint THEN ErrorUI ELSE container
    BY <1>3 DEF Delivery!ShowError
  <2>2. container' \notin Delivery!Delivery
    BY <1>1, <2>1 DEF PageInv, MountsInThePage
  <2>3. VizIsKept'
    <3>1. CASE failed' = TRUE
      BY <3>1 DEF VizIsKept
    <3>2. CASE container \notin Delivery!Delivery /\ UNCHANGED failed
      BY <3>2 DEF PageInv, VizIsKept
    <3>3. CASE container \in Delivery!Delivery /\ UNCHANGED <<container, failed>>
      BY <2>2, <3>3
    <3>4. QED
      BY <3>1, <3>2, <3>3 DEF Unmounted, Delivery!Fail
  <2>4. QED
    BY <1>1, <2>1, <2>2, <2>3
       DEF PageInv, DeliveriesTypeOK, MountsInThePage, PageIsConsistent,
           Delivery!PageIsConsistent
<1>4. QED
  BY <1>2, <1>3 DEF Unmounted, Delivery!Fail

\* An error is seen.
LEMMA ErrorsAreSeen == Delivery!ShowError /\ mountPoint => container' # Nothing
BY DeliveryAssumption DEF Delivery!ShowError, Delivery!DeliveryAssumption

LEMMA ArrivalsKeep ==
    ASSUME PageInv, NEW d \in Delivery!Delivery,
           \/ Delivery!ErrorDelivery(d) \/ Delivery!EmptyDelivery(d)
           \/ Delivery!UnparseableDelivery(d)
           \/ \E r \in Delivery!Result : Delivery!RenderDelivery(d, r)
    PROVE  PageInv'
<1> USE DEF PageInv
<1>1. /\ UNCHANGED <<mountPoint, elements, bridges, disposer, link>>
      /\ Unmounted
  BY DEF Delivery!ErrorDelivery, Delivery!EmptyDelivery, Delivery!UnparseableDelivery,
         Delivery!RenderDelivery, Delivery!Arrives, Delivery!IsVizMounted, Delivery!page,
         Delivery!watch, Unmounted
<1>2. PICK r \in Delivery!Result, at \in {"load", "done"} :
          /\ result' = [result EXCEPT ![d] = r]
          /\ pc' = [pc EXCEPT ![d] = at]
          /\ at = "done" /\ r # "empty"
                => \/ container \in Delivery!Delivery /\ UNCHANGED container
                   \/ Delivery!ShowError
  <2>1. CASE Delivery!ErrorDelivery(d)
    BY <2>1 DEF Delivery!ErrorDelivery, Delivery!Arrives, Delivery!Settle, Delivery!Fail,
                Delivery!Result
  <2>2. CASE Delivery!EmptyDelivery(d)
    BY <2>2 DEF Delivery!EmptyDelivery, Delivery!Arrives, Delivery!Settle, Delivery!Result
  <2>3. CASE Delivery!UnparseableDelivery(d)
    BY <2>3 DEF Delivery!UnparseableDelivery, Delivery!Arrives, Delivery!Settle,
                Delivery!IsVizMounted, Delivery!Result
  <2>4. ASSUME NEW r \in Delivery!Result, Delivery!RenderDelivery(d, r)
        PROVE  result' = [result EXCEPT ![d] = r] /\ pc' = [pc EXCEPT ![d] = "load"]
    BY <2>4 DEF Delivery!RenderDelivery, Delivery!Arrives
  <2>5. QED
    BY <2>1, <2>2, <2>3, <2>4
<1>3. /\ container' \in Delivery!Delivery \cup {ErrorUI, Nothing}
      /\ MountsInThePage' /\ PageIsConsistent' /\ VizIsKept'
      /\ mountPoint /\ container # Nothing => container' # Nothing
  BY <1>1, ErrorsAreConsistent
<1>4. DeliveriesTypeOK' /\ ResultsArrive'
  BY <1>1, <1>2, <1>3 DEF DeliveriesTypeOK, ResultsArrive
<1>5. Nothing \notin Delivery!Delivery
  BY DeliveryAssumption DEF Delivery!DeliveryAssumption, Delivery!Delivery
<1>6. SettledIsSeen'
  BY <1>1, <1>2, <1>3, <1>5, ErrorsAreSeen DEF DeliveriesTypeOK, SettledIsSeen
<1>7. QED
  BY <1>3, <1>4, <1>6

LEMMA AwaitsKeep ==
    ASSUME PageInv, NEW d \in Delivery!Delivery,
           Delivery!ApiLoads(d) \/ Delivery!ApiFailsToLoad(d) \/ Delivery!MintFails(d)
    PROVE  PageInv'
<1>1. PICK at \in {"mint", "done"} :
          /\ pc' = [pc EXCEPT ![d] = at]
          /\ UNCHANGED <<result, mountPoint, elements, bridges, disposer, link>>
          /\ Unmounted
          /\ at = "done" => Delivery!ShowError
  BY DEF Delivery!ApiLoads, Delivery!ApiFailsToLoad, Delivery!MintFails, Delivery!Settle,
         Delivery!page, Delivery!watch, Delivery!Fail, Unmounted
<1>2. /\ container' \in Delivery!Delivery \cup {ErrorUI, Nothing}
      /\ MountsInThePage' /\ PageIsConsistent' /\ VizIsKept'
      /\ mountPoint /\ container # Nothing => container' # Nothing
  BY <1>1, ErrorsAreConsistent
<1>3. pc[d] # "todo"
  BY DEF Delivery!ApiLoads, Delivery!ApiFailsToLoad, Delivery!MintFails
<1>4. DeliveriesTypeOK' /\ ResultsArrive'
  BY <1>1, <1>2, <1>3 DEF PageInv, DeliveriesTypeOK, ResultsArrive
<1>5. SettledIsSeen'
  BY <1>1, <1>2, ErrorsAreSeen DEF PageInv, DeliveriesTypeOK, SettledIsSeen
<1>6. QED
  BY <1>2, <1>4, <1>5 DEF PageInv

\* The one step that mounts an element: it replaces bridge and link as well.
LEMMA MintSucceedsKeeps ==
    ASSUME PageInv, NEW d \in Delivery!Delivery, Delivery!MintSucceeds(d)
    PROVE  PageInv'
<1>1. PICK starts \in BOOLEAN :
          /\ starts => mountPoint
          /\ bridges' = (bridges \ {disposer}) \cup (IF starts THEN {d} ELSE {})
          /\ disposer' = IF starts THEN d ELSE Nothing
  BY DEF Delivery!MintSucceeds, Delivery!ReplaceBridge
<1>2. /\ pc[d] = "mint" /\ pc' = [pc EXCEPT ![d] = "done"]
      /\ UNCHANGED <<result, mountPoint>>
      /\ IF mountPoint
         THEN container' = d /\ elements' = elements \cup {d} /\ failed' = FALSE
         ELSE UNCHANGED <<container, elements, failed>>
      /\ link' \in {d, Nothing}
  BY DEF Delivery!MintSucceeds, Delivery!Settle, Delivery!Embed, Delivery!page,
         Delivery!SetupOpenInTableauLink
<1>3. DeliveriesTypeOK' /\ ResultsArrive' /\ MountsInThePage' /\ VizIsKept'
  BY <1>1, <1>2 DEF PageInv, DeliveriesTypeOK, ResultsArrive, MountsInThePage, VizIsKept
<1>4. bridges' = IF starts THEN {d} ELSE {}
  BY <1>1 DEF PageInv, PageIsConsistent, Delivery!PageIsConsistent
<1>5. PageIsConsistent'
  BY <1>1, <1>2, <1>4 DEF PageInv, MountsInThePage, PageIsConsistent, Delivery!PageIsConsistent
<1>6. mountPoint => container' # Nothing
  BY <1>2, DeliveryAssumption DEF Delivery!DeliveryAssumption, Delivery!Delivery
<1>7. SettledIsSeen'
  BY <1>2, <1>6 DEF SettledIsSeen
<1>8. QED
  BY <1>3, <1>5, <1>7 DEF PageInv

LEMMA ReportsKeep ==
    ASSUME PageInv, NEW d \in Delivery!Delivery,
           Delivery!VizLoadError(d) \/ Delivery!PulseError(d) \/ Delivery!BridgeGivesUp(d)
    PROVE  PageInv'
<1>1. UNCHANGED <<result, pc, mountPoint, elements>>
  BY DEF Delivery!VizLoadError, Delivery!PulseError, Delivery!BridgeGivesUp, Delivery!page
<1>2. /\ container' \in Delivery!Delivery \cup {ErrorUI, Nothing}
      /\ MountsInThePage' /\ PageIsConsistent' /\ VizIsKept' /\ bridges' \subseteq bridges
      /\ mountPoint /\ container # Nothing => container' # Nothing
  <2>1. CASE Delivery!VizLoadError(d) \/ Delivery!PulseError(d)
    <3>1. Unmounted /\ UNCHANGED <<bridges, disposer, link>>
      BY <2>1 DEF Delivery!VizLoadError, Delivery!PulseError, Delivery!watch, Unmounted
    <3>2. QED
      BY <1>1, <3>1, ErrorsAreConsistent
  <2>2. CASE Delivery!BridgeGivesUp(d)
    BY <1>1, <2>2 DEF Delivery!BridgeGivesUp, PageInv, DeliveriesTypeOK, MountsInThePage,
                 VizIsKept, PageIsConsistent, Delivery!PageIsConsistent
  <2>3. QED
    BY <2>1, <2>2
<1>3. DeliveriesTypeOK' /\ ResultsArrive' /\ SettledIsSeen'
  BY <1>1, <1>2 DEF PageInv, DeliveriesTypeOK, ResultsArrive, SettledIsSeen
<1>4. QED
  BY <1>2, <1>3 DEF PageInv

LEMMA DeliveriesKeep == PageInv /\ Delivery!Next => PageInv'
<1> SUFFICES ASSUME PageInv, Delivery!Next
             PROVE  PageInv'
  OBVIOUS
<1>1. PICK d \in Delivery!Delivery : \/ Delivery!HandleToolResult(d)
                                     \/ Delivery!VizLoadError(d)
                                     \/ Delivery!PulseError(d)
                                     \/ Delivery!BridgeGivesUp(d)
  BY DEF Delivery!Next
<1>2. CASE Delivery!HandleToolResult(d)
  BY <1>2, ArrivalsKeep, AwaitsKeep, MintSucceedsKeeps, Zenon DEF Delivery!HandleToolResult
<1>3. QED
  BY <1>1, <1>2, ReportsKeep, Zenon

LEMMA PanelsLeaveThePage ==
    ASSUME PageInv, UNCHANGED deliveryVars
    PROVE  PageInv'
BY DEF deliveryVars, PageInv, DeliveriesTypeOK, MountsInThePage, ResultsArrive, VizIsKept,
       SettledIsSeen, PageIsConsistent, Delivery!PageIsConsistent

LEMMA PageInvariant == PageSpec => []PageInv
<1>1. PageInit => PageInv
  BY PageInvInit DEF PageInit
<1>2. PageInv /\ [PageNext]_<<deliveryVars, panelVars>> => PageInv'
  BY DeliveriesKeep, PanelsLeaveThePage, Zenon DEF PageNext
<1>3. QED
  BY <1>1, <1>2, PTL DEF PageSpec

\* However the deliveries of one widget overlap, fail and give up: a mounted element has
\* no bridge and no link but its own, and no bridge escapes disposeBridge
\* (handleToolResult.ts:190-217).
THEOREM DeliveriesAgree == PageSpec => []PageIsConsistent
<1>1. PageInv => PageIsConsistent
  BY DEF PageInv
<1>2. QED
  BY <1>1, PageInvariant, PTL

\* However many deliveries overlap, a viz leaves the screen only when a failure is
\* reported after it was mounted, whatever its bridge did, and deliveries that have
\* settled leave an empty page only if none had anything to say
\* (handleToolResult.ts:141-196).
THEOREM ScreenHasAReason == PageSpec => []ScreenIsExplained
<1>1. ASSUME PageInv, mountPoint, NEW d \in Delivery!Delivery, pc[d] \in {"todo", "done"},
             result[d] \notin {"none", "empty"}
      PROVE  container # Nothing
  BY <1>1 DEF PageInv, ResultsArrive, SettledIsSeen
<1>2. PageInv => ScreenIsExplained
  BY <1>1 DEF PageInv, VizIsKept, ScreenIsExplained, Delivery!ScreenIsExplained
<1>3. QED
  BY <1>2, PageInvariant, PTL

-----------------------------------------------------------------------------
(* Panels.                                                                 *)

PanelRec == [kind : {"workbook", "datasource", "task", "schedule"}, id : Resource,
             expires : Nat, shown : BOOLEAN, expired : BOOLEAN, enabled : BOOLEAN,
             text : {"", "countdown", "expired", "answer", "failed"}, due : Nat,
             calls : Nat, answered : BOOLEAN]

PanelsTypeOK ==
    /\ panels \in Seq(PanelRec)
    /\ clicks \in Seq([panel : Nat, at : Nat])
    /\ \A n \in DOMAIN clicks : clicks[n].panel \in DOMAIN panels
    /\ now \in Nat

\* A button is enabled only while nothing is under way and nothing was answered, and the
\* timer of a panel that was clicked stays stopped, so that no tick hides an answer.
Pending(p) == /\ p.calls + (IF p.answered THEN 1 ELSE 0) <= 1
              /\ p.enabled => p.calls = 0 /\ ~p.answered
              /\ p.calls > 0 \/ p.answered => p.due = 0
              /\ p.answered => p.text = "answer" /\ ~p.enabled

NeverClicked(i) == \A n \in DOMAIN clicks : clicks[n].panel # i

\* A button that may still be clicked for the first time has a tick ahead, which comes no
\* later than an interval after the approval expires.
TickIsAhead(p) == p.shown /\ p.enabled /\ ~p.expired
                     => p.due > 0 /\ now <= p.due /\ p.due <= p.expires + Interval

PanelsInv == /\ PanelsTypeOK
             /\ \A i \in DOMAIN panels : Pending(panels[i])
             /\ \A i \in DOMAIN panels : NeverClicked(i) => /\ panels[i].calls = 0
                                                            /\ TickIsAhead(panels[i])
             /\ Panel!LastIsShown
             /\ Panel!FirstClickInTime

LEMMA PanelsInit == Panel!Init => PanelsInv
BY DEF Panel!Init, PanelsInv, PanelsTypeOK, Panel!LastIsShown, Panel!FirstClickInTime

\* A panel with a field of its own kind replaced is a panel.
LEMMA Shape ==
    ASSUME NEW p \in PanelRec
    PROVE  /\ \A v \in BOOLEAN : /\ [p EXCEPT !.shown = v] \in PanelRec
                                 /\ [p EXCEPT !.expired = v] \in PanelRec
                                 /\ [p EXCEPT !.enabled = v] \in PanelRec
                                 /\ [p EXCEPT !.answered = v] \in PanelRec
           /\ \A v \in Nat : /\ [p EXCEPT !.due = v] \in PanelRec
                             /\ [p EXCEPT !.calls = v] \in PanelRec
           /\ \A v \in {"", "countdown", "expired", "answer", "failed"} :
                 [p EXCEPT !.text = v] \in PanelRec
<1>1. ASSUME NEW v \in BOOLEAN
      PROVE  [p EXCEPT !.shown = v] \in PanelRec
  BY Zenon DEF PanelRec
<1>2. ASSUME NEW v \in BOOLEAN
      PROVE  [p EXCEPT !.expired = v] \in PanelRec
  BY Zenon DEF PanelRec
<1>3. ASSUME NEW v \in BOOLEAN
      PROVE  [p EXCEPT !.enabled = v] \in PanelRec
  BY Zenon DEF PanelRec
<1>4. ASSUME NEW v \in BOOLEAN
      PROVE  [p EXCEPT !.answered = v] \in PanelRec
  BY Zenon DEF PanelRec
<1>5. ASSUME NEW v \in Nat
      PROVE  [p EXCEPT !.due = v] \in PanelRec
  BY Zenon DEF PanelRec
<1>6. ASSUME NEW v \in Nat
      PROVE  [p EXCEPT !.calls = v] \in PanelRec
  BY Zenon DEF PanelRec
<1>7. ASSUME NEW v \in {"", "countdown", "expired", "answer", "failed"}
      PROVE  [p EXCEPT !.text = v] \in PanelRec
  BY Zenon DEF PanelRec
<1>8. QED
  BY <1>1, <1>2, <1>3, <1>4, <1>5, <1>6, <1>7, Zenon

\* What an update may make of a panel: the same panel, shown no longer than it was.
Becomes(p, q) == /\ q \in PanelRec
                 /\ q.kind = p.kind /\ q.expires = p.expires
                 /\ q.shown => p.shown
                 /\ Pending(q)

\* A tick leaves the panel a further one, unless the approval is over.
LEMMA TickedPanel ==
    ASSUME NEW p \in PanelRec, p.calls = 0, ~p.answered, now \in Nat
    PROVE  /\ Becomes(p, Panel!Ticked(p))
           /\ Panel!Ticked(p).calls = 0 /\ ~Panel!Ticked(p).answered
           /\ TickIsAhead(Panel!Ticked(p))
           /\ Panel!Ticked(p).enabled => Panel!Ticked(p).due = now + Interval
<1> USE PanelAssumption DEF Panel!PanelAssumption, Becomes, Pending
<1>1. CASE p.expires <= now
  <2> DEFINE a == [p EXCEPT !.expired = TRUE]
             b == [a EXCEPT !.enabled = FALSE]
             c == [b EXCEPT !.text = "expired"]
             q == [c EXCEPT !.due = 0]
  <2>1. Panel!Ticked(p) = q
    BY <1>1 DEF Panel!Ticked
  <2>2. q \in PanelRec
    <3>1. a \in PanelRec
      BY Shape
    <3>2. b \in PanelRec
      BY <3>1, Shape
    <3>3. c \in PanelRec
      BY <3>2, Shape
    <3>4. QED
      BY <3>3, Shape
  <2>3. /\ q.kind = p.kind /\ q.expires = p.expires /\ q.shown = p.shown
        /\ q.calls = p.calls /\ q.answered = p.answered /\ q.enabled = FALSE
    BY DEF PanelRec
  <2> HIDE DEF q
  <2>4. QED
    BY <2>1, <2>2, <2>3 DEF TickIsAhead
<1>2. CASE ~(p.expires <= now)
  <2> DEFINE a == [p EXCEPT !.text = "countdown"]
             q == [a EXCEPT !.due = now + Interval]
  <2>1. Panel!Ticked(p) = q
    BY <1>2 DEF Panel!Ticked
  <2>2. q \in PanelRec
    <3>1. a \in PanelRec
      BY Shape
    <3>2. now + Interval \in Nat
      OBVIOUS
    <3>3. QED
      BY <3>1, <3>2, Shape
  <2>3. /\ q.kind = p.kind /\ q.expires = p.expires /\ q.shown = p.shown
        /\ q.calls = p.calls /\ q.answered = p.answered /\ q.enabled = p.enabled
        /\ q.due = now + Interval
    BY DEF PanelRec
  <2> HIDE DEF q
  <2>4. p.expires \in Nat
    BY DEF PanelRec
  <2>5. QED
    BY <1>2, <2>1, <2>2, <2>3, <2>4 DEF TickIsAhead
<1>3. QED
  BY <1>1, <1>2

\* Cancel stops the timer and takes the panel away.
LEMMA CancelledPanel ==
    ASSUME NEW p \in PanelRec, Pending(p)
    PROVE  LET q == [Panel!StopTimer(p) EXCEPT !.shown = FALSE] IN
           Becomes(p, q) /\ q.calls = p.calls /\ ~q.shown
<1> DEFINE a == [p EXCEPT !.due = 0]
           q == [a EXCEPT !.shown = FALSE]
<1>1. q \in PanelRec
  <2>1. a \in PanelRec
    BY Shape
  <2>2. QED
    BY <2>1, Shape
<1>2. /\ q.kind = p.kind /\ q.expires = p.expires /\ q.shown = FALSE
      /\ q.calls = p.calls /\ q.answered = p.answered /\ q.enabled = p.enabled
      /\ q.text = p.text /\ q.due = 0
  BY DEF PanelRec
<1>3. q = [Panel!StopTimer(p) EXCEPT !.shown = FALSE]
  BY DEF Panel!StopTimer
<1> HIDE DEF q
<1>4. QED
  BY <1>1, <1>2, <1>3 DEF Becomes, Pending

\* A click takes the only call there is, and stops the timer.
LEMMA PressedPanel ==
    ASSUME NEW p \in PanelRec, Pending(p), p.enabled
    PROVE  Becomes(p, Panel!Pressed(Panel!StopTimer(p)))
<1> DEFINE a == [p EXCEPT !.due = 0]
           b == [a EXCEPT !.enabled = FALSE]
           q == [b EXCEPT !.calls = 1]
<1>1. p.calls = 0 /\ ~p.answered
  BY DEF Pending
<1>2. Panel!Pressed(Panel!StopTimer(p)) = q
  <2>1. a.calls + 1 = 1
    <3>1. a.calls = p.calls
      BY DEF PanelRec
    <3>2. QED
      BY <1>1, <3>1
  <2>2. Panel!Pressed(Panel!StopTimer(p))
           = [a EXCEPT !.enabled = FALSE, !.calls = a.calls + 1]
    BY DEF Panel!Pressed, Panel!StopTimer
  <2>3. [a EXCEPT !.enabled = FALSE, !.calls = a.calls + 1] = [b EXCEPT !.calls = a.calls + 1]
    OBVIOUS
  <2> HIDE DEF a
  <2>4. QED
    BY <2>1, <2>2, <2>3, Zenon
<1>3. q \in PanelRec
  <2>1. a \in PanelRec
    BY Shape
  <2>2. b \in PanelRec
    BY <2>1, Shape
  <2>3. QED
    BY <2>2, Shape
<1>4. /\ q.kind = p.kind /\ q.expires = p.expires /\ q.shown = p.shown
      /\ q.calls = 1 /\ q.answered = p.answered /\ q.enabled = FALSE /\ q.due = 0
  BY DEF PanelRec
<1> HIDE DEF q
<1>5. QED
  BY <1>1, <1>2, <1>3, <1>4 DEF Becomes, Pending

\* An answer is the last there will be, a failure gives the click back.
LEMMA CalledPanel ==
    ASSUME NEW p \in PanelRec, Pending(p), p.calls > 0
    PROVE  Becomes(p, Panel!Resolved(p)) /\ Becomes(p, Panel!Failed(p))
<1>1. p.calls = 1 /\ ~p.answered /\ ~p.enabled /\ p.due = 0
  <2>1. p.calls \in Nat
    BY DEF PanelRec
  <2>2. QED
    BY <2>1 DEF Pending
<1> DEFINE a == [p EXCEPT !.calls = p.calls - 1]
<1>2. a \in PanelRec
  <2>1. p.calls - 1 \in Nat
    BY <1>1
  <2>2. QED
    BY <2>1, Shape
<1>3. Becomes(p, Panel!Resolved(p))
  <2> DEFINE b == [a EXCEPT !.text = "answer"]
             q == [b EXCEPT !.answered = TRUE]
  <2>1. q \in PanelRec
    <3>1. b \in PanelRec
      BY <1>2, Shape
    <3>2. QED
      BY <3>1, Shape
  <2>2. /\ q.kind = p.kind /\ q.expires = p.expires /\ q.shown = p.shown
        /\ q.calls = p.calls - 1 /\ q.answered = TRUE /\ q.enabled = p.enabled
        /\ q.due = p.due /\ q.text = "answer"
    BY DEF PanelRec
  <2>3. q = Panel!Resolved(p)
    BY DEF Panel!Resolved
  <2> HIDE DEF q
  <2>4. Pending(q)
    BY <1>1, <2>2 DEF Pending
  <2>5. QED
    BY <2>1, <2>2, <2>3, <2>4 DEF Becomes
<1>4. Becomes(p, Panel!Failed(p))
  <2> DEFINE b == [a EXCEPT !.text = "failed"]
             q == [b EXCEPT !.enabled = TRUE]
  <2>1. q \in PanelRec
    <3>1. b \in PanelRec
      BY <1>2, Shape
    <3>2. QED
      BY <3>1, Shape
  <2>2. /\ q.kind = p.kind /\ q.expires = p.expires /\ q.shown = p.shown
        /\ q.calls = p.calls - 1 /\ q.answered = p.answered /\ q.enabled = TRUE
        /\ q.due = p.due
    BY DEF PanelRec
  <2>3. q = Panel!Failed(p)
    BY DEF Panel!Failed
  <2> HIDE DEF q
  <2>4. Pending(q)
    BY <1>1, <2>2 DEF Pending
  <2>5. QED
    BY <2>1, <2>2, <2>3, <2>4 DEF Becomes
<1>5. QED
  BY <1>3, <1>4

\* A step that updates one panel keeps the invariant; a click is one on a panel whose
\* button is there to be clicked.
LEMMA UpdatesKeep ==
    ASSUME PanelsInv, NEW i \in DOMAIN panels, NEW q, Becomes(panels[i], q),
           panels' = [panels EXCEPT ![i] = q], UNCHANGED now,
           \/ /\ UNCHANGED clicks
              /\ NeverClicked(i) => q.calls = 0 /\ TickIsAhead(q)
           \/ /\ clicks' = Append(clicks, [panel |-> i, at |-> now])
              /\ panels[i].shown /\ panels[i].enabled /\ ~panels[i].expired
    PROVE  PanelsInv'
<1>0. /\ DOMAIN panels' = DOMAIN panels /\ panels'[i] = q
      /\ \A j \in DOMAIN panels : j # i => panels'[j] = panels[j]
      /\ \A j \in DOMAIN panels : panels[j] \in PanelRec
      /\ panels' \in Seq(PanelRec)
  BY DEF PanelsInv, PanelsTypeOK, Becomes
<1>1. PanelsTypeOK'
  <2>1. CASE UNCHANGED clicks
    BY <1>0, <2>1 DEF PanelsInv, PanelsTypeOK
  <2>2. CASE clicks' = Append(clicks, [panel |-> i, at |-> now])
    <3>1. [panel |-> i, at |-> now] \in [panel : Nat, at : Nat]
      BY DEF PanelsInv, PanelsTypeOK
    <3>2. QED
      BY <1>0, <2>2, <3>1 DEF PanelsInv, PanelsTypeOK
  <2>3. QED
    BY <2>1, <2>2
<1>2. \A j \in DOMAIN panels' : Pending(panels'[j])
  BY <1>0 DEF PanelsInv, Becomes
<1>3. ASSUME NEW j \in DOMAIN panels', NeverClicked(j)'
      PROVE  panels'[j].calls = 0 /\ TickIsAhead(panels'[j])
  <2>1. CASE UNCHANGED clicks
    <3>1. NeverClicked(j)
      BY <1>3, <2>1 DEF NeverClicked
    <3>2. QED
      BY <1>0, <1>3, <2>1, <3>1 DEF PanelsInv, NeverClicked, TickIsAhead
  <2>2. CASE clicks' = Append(clicks, [panel |-> i, at |-> now])
    <3>1. NeverClicked(j) /\ j # i
      <4>1. /\ DOMAIN clicks' = DOMAIN clicks \cup {Len(clicks) + 1}
            /\ \A n \in DOMAIN clicks : clicks'[n] = clicks[n]
            /\ clicks'[Len(clicks) + 1] = [panel |-> i, at |-> now]
        <5>1. clicks \in Seq([panel : Nat, at : Nat])
          BY DEF PanelsInv, PanelsTypeOK
        <5> DEFINE c == [panel |-> i, at |-> now]
        <5>2. clicks' = Append(clicks, c)
          BY <2>2
        <5> HIDE DEF c
        <5>3. /\ DOMAIN clicks' = DOMAIN clicks \cup {Len(clicks) + 1}
              /\ \A n \in DOMAIN clicks : clicks'[n] = clicks[n]
              /\ clicks'[Len(clicks) + 1] = c
          BY <5>1, <5>2
        <5>4. QED
          BY <5>3 DEF c
      <4>2. \A n \in DOMAIN clicks' : clicks'[n].panel # j
        BY <1>3 DEF NeverClicked
      <4>3. QED
        BY <4>1, <4>2 DEF NeverClicked
    <3>2. QED
      BY <1>0, <1>3, <3>1 DEF PanelsInv
  <2>3. QED
    BY <2>1, <2>2
<1>4. Panel!LastIsShown'
  BY <1>0 DEF PanelsInv, Panel!LastIsShown, Becomes
<1>5. Panel!FirstClickInTime'
  <2>1. \A j \in DOMAIN panels : panels'[j].expires = panels[j].expires
    BY <1>0 DEF Becomes
  <2>2. CASE UNCHANGED clicks
    BY <2>1, <2>2 DEF PanelsInv, PanelsTypeOK, Panel!FirstClickInTime
  <2>3. CASE clicks' = Append(clicks, [panel |-> i, at |-> now])
    <3> SUFFICES ASSUME NEW n \in DOMAIN clicks',
                        \A m \in 1 .. n - 1 : clicks'[m].panel # clicks'[n].panel
                 PROVE  clicks'[n].at <= panels'[clicks'[n].panel].expires + Interval
      BY DEF Panel!FirstClickInTime
    <3>1. CASE n \in DOMAIN clicks
      <4>1. clicks'[n] = clicks[n] /\ \A m \in 1 .. n - 1 : clicks'[m] = clicks[m]
        BY <2>3, <3>1 DEF PanelsInv, PanelsTypeOK
      <4>2. \A m \in 1 .. n - 1 : clicks[m].panel # clicks[n].panel
        BY <4>1
      <4>3. clicks[n].at <= panels[clicks[n].panel].expires + Interval
        BY <3>1, <4>2 DEF PanelsInv, Panel!FirstClickInTime
      <4>4. clicks[n].panel \in DOMAIN panels
        BY <3>1 DEF PanelsInv, PanelsTypeOK
      <4>5. QED
        BY <2>1, <4>1, <4>3, <4>4
    <3>2. CASE n = Len(clicks) + 1
      <4>1. clicks'[n] = [panel |-> i, at |-> now] /\ \A m \in DOMAIN clicks : clicks'[m] = clicks[m]
        BY <2>3, <3>2 DEF PanelsInv, PanelsTypeOK
      <4>2. DOMAIN clicks = 1 .. n - 1
        BY <3>2 DEF PanelsInv, PanelsTypeOK
      <4>3. NeverClicked(i)
        BY <4>1, <4>2 DEF NeverClicked
      <4>4. panels[i].shown /\ panels[i].enabled /\ ~panels[i].expired
        <5>1. clicks' # clicks
          BY <2>3 DEF PanelsInv, PanelsTypeOK
        <5>2. QED
          BY <5>1
      <4>5. now <= panels[i].due /\ panels[i].due <= panels[i].expires + Interval
        BY <4>3, <4>4 DEF PanelsInv, TickIsAhead
      <4>6. panels[i].due \in Nat /\ panels[i].expires \in Nat /\ now \in Nat
        BY <1>0 DEF PanelRec, PanelsInv, PanelsTypeOK
      <4>7. QED
        BY <2>1, <4>1, <4>5, <4>6, PanelAssumption DEF Panel!PanelAssumption
    <3>3. QED
      BY <2>3, <3>1, <3>2 DEF PanelsInv, PanelsTypeOK
  <2>4. QED
    BY <2>2, <2>3
<1>6. QED
  BY <1>1, <1>2, <1>3, <1>4, <1>5 DEF PanelsInv, NeverClicked, TickIsAhead

LEMMA TicksKeep ==
    ASSUME PanelsInv, NEW i \in DOMAIN panels, Panel!Tick(i)
    PROVE  PanelsInv'
<1>1. panels[i] \in PanelRec /\ now \in Nat /\ Pending(panels[i])
  BY DEF PanelsInv, PanelsTypeOK
<1>2. /\ panels[i].due > 0
      /\ panels' = [panels EXCEPT ![i] = Panel!Ticked(panels[i])]
      /\ UNCHANGED <<clicks, now>>
  BY Zenon DEF Panel!Tick
<1>3. panels[i].calls = 0 /\ ~panels[i].answered
  <2>1. panels[i].calls \in Nat
    BY <1>1 DEF PanelRec
  <2>2. QED
    BY <1>1, <1>2, <2>1 DEF Pending
<1>4. /\ Becomes(panels[i], Panel!Ticked(panels[i]))
      /\ Panel!Ticked(panels[i]).calls = 0
      /\ TickIsAhead(Panel!Ticked(panels[i]))
  BY <1>1, <1>3, TickedPanel, Zenon
<1>5. QED
  BY <1>2, <1>4, UpdatesKeep, Zenon

LEMMA ButtonsKeep ==
    ASSUME PanelsInv, NEW i \in DOMAIN panels,
           Panel!Cancel(i) \/ Panel!Confirm(i) \/ Panel!Resolves(i) \/ Panel!Fails(i)
    PROVE  PanelsInv'
<1>1. /\ panels[i] \in PanelRec /\ Pending(panels[i])
      /\ NeverClicked(i) => panels[i].calls = 0
  BY DEF PanelsInv, PanelsTypeOK
<1>2. CASE Panel!Cancel(i)
  <2> DEFINE q == [Panel!StopTimer(panels[i]) EXCEPT !.shown = FALSE]
  <2>1. panels' = [panels EXCEPT ![i] = q] /\ UNCHANGED <<clicks, now>>
    BY <1>2, Zenon DEF Panel!Cancel
  <2>2. Becomes(panels[i], q) /\ q.calls = panels[i].calls /\ ~q.shown
    BY <1>1, CancelledPanel, Zenon
  <2> HIDE DEF q
  <2>3. NeverClicked(i) => q.calls = 0 /\ TickIsAhead(q)
    BY <1>1, <2>2 DEF TickIsAhead
  <2>4. QED
    BY <2>1, <2>2, <2>3, UpdatesKeep, Zenon
<1>3. CASE Panel!Confirm(i)
  <2>1. /\ panels[i].shown /\ panels[i].enabled /\ ~panels[i].expired
        /\ panels' = [panels EXCEPT ![i] = Panel!Pressed(Panel!StopTimer(panels[i]))]
        /\ clicks' = Append(clicks, [panel |-> i, at |-> now])
        /\ UNCHANGED now
    BY <1>3, Zenon DEF Panel!Confirm
  <2>2. Becomes(panels[i], Panel!Pressed(Panel!StopTimer(panels[i])))
    BY <1>1, <2>1, PressedPanel, Zenon
  <2>3. QED
    BY <2>1, <2>2, UpdatesKeep, Zenon
<1>4. ASSUME panels[i].calls > 0
      PROVE  ~NeverClicked(i)
  BY <1>1, <1>4
<1>5. CASE Panel!Resolves(i)
  <2> DEFINE q == Panel!Resolved(panels[i])
  <2>1. panels[i].calls > 0 /\ panels' = [panels EXCEPT ![i] = q] /\ UNCHANGED <<clicks, now>>
    BY <1>5, Zenon DEF Panel!Resolves
  <2>2. Becomes(panels[i], q)
    BY <1>1, <2>1, CalledPanel, Zenon
  <2> HIDE DEF q
  <2>3. QED
    BY <1>4, <2>1, <2>2, UpdatesKeep, Zenon
<1>6. CASE Panel!Fails(i)
  <2> DEFINE q == Panel!Failed(panels[i])
  <2>1. panels[i].calls > 0 /\ panels' = [panels EXCEPT ![i] = q] /\ UNCHANGED <<clicks, now>>
    BY <1>6, Zenon DEF Panel!Fails
  <2>2. Becomes(panels[i], q)
    BY <1>1, <2>1, CalledPanel, Zenon
  <2> HIDE DEF q
  <2>3. QED
    BY <1>4, <2>1, <2>2, UpdatesKeep, Zenon
<1>7. QED
  BY <1>2, <1>3, <1>5, <1>6

\* The clock stands still while a tick is due.
LEMMA AdvanceKeeps ==
    ASSUME PanelsInv, Panel!Advance
    PROVE  PanelsInv'
<1>1. /\ \A i \in DOMAIN panels : panels[i].due # now \/ now = 0
      /\ now' = now + 1 /\ UNCHANGED <<panels, clicks>>
  BY DEF Panel!Advance
<1>2. PanelsTypeOK'
  BY <1>1 DEF PanelsInv, PanelsTypeOK
<1>3. ASSUME NEW i \in DOMAIN panels, TickIsAhead(panels[i])
      PROVE  TickIsAhead(panels[i])'
  <2>1. panels[i].due \in Nat /\ now \in Nat
    <3>1. panels[i] \in PanelRec
      BY DEF PanelsInv, PanelsTypeOK
    <3>2. QED
      BY <3>1 DEF PanelRec, PanelsInv, PanelsTypeOK
  <2>2. QED
    BY <1>1, <1>3, <2>1 DEF TickIsAhead
<1>4. QED
  BY <1>1, <1>2, <1>3
     DEF PanelsInv, NeverClicked, Pending, Panel!LastIsShown, Panel!FirstClickInTime

\* A panel as it is shown: a first tick, and a timer that starts in any case.
LEMMA RenderedPanel ==
    ASSUME NEW kind \in {"workbook", "datasource", "task", "schedule"}, NEW id \in Resource,
           NEW expires \in Nat, now \in Nat
    PROVE  LET q == [Panel!Ticked([kind |-> kind, id |-> id, expires |-> expires,
                                   shown |-> TRUE, expired |-> FALSE, enabled |-> TRUE,
                                   text |-> "", due |-> 0, calls |-> 0, answered |-> FALSE])
                       EXCEPT !.due = now + Interval] IN
           q \in PanelRec /\ q.kind = kind /\ q.calls = 0 /\ Pending(q) /\ TickIsAhead(q)
<1> DEFINE p == [kind |-> kind, id |-> id, expires |-> expires, shown |-> TRUE,
                 expired |-> FALSE, enabled |-> TRUE, text |-> "", due |-> 0, calls |-> 0,
                 answered |-> FALSE]
           t == Panel!Ticked(p)
           q == [t EXCEPT !.due = now + Interval]
<1>1. p \in PanelRec /\ p.kind = kind /\ p.calls = 0 /\ ~p.answered
  BY DEF PanelRec
<1> HIDE DEF p
<1>2. /\ Becomes(p, t) /\ t.calls = 0 /\ ~t.answered
      /\ TickIsAhead(t)
      /\ t.enabled => t.due = now + Interval
  BY <1>1, TickedPanel, Zenon
<1>3. t \in PanelRec /\ t.kind = kind
  BY <1>1, <1>2 DEF Becomes
<1> HIDE DEF t
<1>4. q \in PanelRec
  <2>1. now + Interval \in Nat
    BY PanelAssumption DEF Panel!PanelAssumption
  <2>2. QED
    BY <1>3, <2>1, Shape, Zenon
<1>5. /\ q.kind = t.kind /\ q.calls = t.calls /\ q.answered = t.answered
      /\ q.shown = t.shown /\ q.enabled = t.enabled /\ q.expired = t.expired
      /\ q.expires = t.expires /\ q.due = now + Interval
  BY <1>3 DEF PanelRec
<1> HIDE DEF q
<1>6. Pending(q) /\ TickIsAhead(q)
  <2>1. q.calls = 0 /\ ~q.answered
    BY <1>2, <1>5
  <2>2. Pending(q)
    BY <2>1 DEF Pending
  <2>3. t.shown /\ t.enabled /\ ~t.expired
           => q.due > 0 /\ now <= q.due /\ q.due <= q.expires + Interval
    BY <1>2, <1>5 DEF TickIsAhead
  <2>4. TickIsAhead(q)
    BY <1>5, <2>3 DEF TickIsAhead
  <2>5. QED
    BY <2>2, <2>4
<1>7. q \in PanelRec /\ q.kind = kind /\ q.calls = 0 /\ Pending(q) /\ TickIsAhead(q)
  BY <1>2, <1>3, <1>4, <1>5, <1>6
<1>8. QED
  BY <1>7, Zenon DEF q, t, p

\* A result takes the last panel of its kind away and appends its own.
LEMMA RendersKeep ==
    ASSUME PanelsInv, NEW kind \in {"workbook", "datasource", "task", "schedule"},
           NEW id \in Resource, NEW expires \in Nat, Panel!Render(kind, id, expires),
           UNCHANGED <<clicks, now>>
    PROVE  PanelsInv'
<1> DEFINE f == [i \in DOMAIN panels |->
                    IF Panel!Replaces(panels[i], kind, id) THEN [panels[i] EXCEPT !.shown = FALSE]
                                                           ELSE panels[i]]
<1>0. /\ now \in Nat /\ panels \in Seq(PanelRec)
      /\ \A i \in DOMAIN panels : panels[i] \in PanelRec
      /\ DOMAIN panels = 1 .. Len(panels) /\ Len(panels) \in Nat
  BY DEF PanelsInv, PanelsTypeOK
<1>1. PICK q : /\ panels' = Append(f, q)
               /\ q \in PanelRec /\ q.kind = kind /\ q.calls = 0 /\ Pending(q) /\ TickIsAhead(q)
  BY <1>0, RenderedPanel, Zenon DEF Panel!Render
<1>2. ASSUME NEW i \in DOMAIN panels
      PROVE  /\ Becomes(panels[i], f[i])
             /\ f[i].calls = panels[i].calls
             /\ panels[i].kind = kind => ~f[i].shown
             /\ TickIsAhead(panels[i]) => TickIsAhead(f[i])
  <2>1. CASE panels[i].kind = kind
    <3> DEFINE p == panels[i]
               r == [p EXCEPT !.shown = FALSE]
    <3>1. f[i] = r
      BY <2>1 DEF Panel!Replaces
    <3>2. p \in PanelRec /\ Pending(p)
      BY <1>0 DEF PanelsInv
    <3> HIDE DEF p
    <3>3. r \in PanelRec
      BY <3>2, Shape
    <3>4. /\ r.kind = p.kind /\ r.expires = p.expires /\ r.shown = FALSE
          /\ r.calls = p.calls /\ r.answered = p.answered /\ r.enabled = p.enabled
          /\ r.text = p.text /\ r.due = p.due
      BY <3>2 DEF PanelRec
    <3> HIDE DEF r, f
    <3>5. Becomes(p, r) /\ TickIsAhead(r)
      BY <3>2, <3>3, <3>4 DEF Becomes, Pending, TickIsAhead
    <3>6. QED
      BY <3>1, <3>4, <3>5 DEF p
  <2>2. CASE panels[i].kind # kind
    <3>1. f[i] = panels[i]
      BY <2>2 DEF Panel!Replaces
    <3> HIDE DEF f
    <3>2. QED
      BY <1>0, <2>2, <3>1 DEF PanelsInv, Becomes
  <2>3. QED
    BY <2>1, <2>2
<1>3. f \in Seq(PanelRec) /\ Len(f) = Len(panels) /\ DOMAIN f = DOMAIN panels
  <2>1. f \in [1 .. Len(panels) -> PanelRec]
    <3>1. \A i \in DOMAIN panels : f[i] \in PanelRec
      BY <1>2 DEF Becomes
    <3>2. DOMAIN f = 1 .. Len(panels) /\ f = [i \in 1 .. Len(panels) |-> f[i]]
      BY <1>0
    <3> HIDE DEF f
    <3>3. QED
      BY <1>0, <3>1, <3>2
  <2> HIDE DEF f
  <2>2. QED
    BY <1>0, <2>1
<1> HIDE DEF f
<1>4. /\ panels' \in Seq(PanelRec) /\ Len(panels') = Len(panels) + 1
      /\ panels'[Len(panels) + 1] = q
      /\ \A i \in DOMAIN panels : panels'[i] = f[i]
      /\ DOMAIN panels' = DOMAIN panels \cup {Len(panels) + 1}
      /\ Len(panels) + 1 \notin DOMAIN panels
  BY <1>0, <1>1, <1>3
<1>5. PanelsTypeOK'
  BY <1>4 DEF PanelsInv, PanelsTypeOK
<1>6. ASSUME NEW i \in DOMAIN panels'
      PROVE  Pending(panels'[i])
  <2>1. CASE i = Len(panels) + 1
    BY <1>1, <1>4, <2>1, Zenon
  <2>2. CASE i \in DOMAIN panels
    BY <1>2, <1>4, <2>2, Zenon DEF Becomes
  <2>3. QED
    BY <1>4, <2>1, <2>2
<1>7. ASSUME NEW i \in DOMAIN panels', NeverClicked(i)'
      PROVE  panels'[i].calls = 0 /\ TickIsAhead(panels'[i])
  <2>1. CASE i = Len(panels) + 1
    BY <1>1, <1>4, <2>1, Zenon
  <2>2. CASE i \in DOMAIN panels
    <3>1. NeverClicked(i)
      BY <1>7 DEF NeverClicked
    <3>2. QED
      BY <1>2, <1>4, <2>2, <3>1, Zenon DEF PanelsInv
  <2>3. QED
    BY <1>4, <2>1, <2>2
<1>8. Panel!LastIsShown'
  <2> SUFFICES ASSUME NEW i \in DOMAIN panels', NEW j \in DOMAIN panels',
                      panels'[i].kind = panels'[j].kind, i < j
               PROVE  ~panels'[i].shown
    BY DEF Panel!LastIsShown
  <2>1. i \in DOMAIN panels
    BY <1>0, <1>4
  <2>2. CASE j \in DOMAIN panels
    BY <1>2, <1>4, <2>1, <2>2 DEF PanelsInv, Panel!LastIsShown, Becomes
  <2>3. CASE j = Len(panels) + 1
    BY <1>1, <1>2, <1>4, <2>1, <2>3 DEF Becomes
  <2>4. QED
    BY <1>4, <2>2, <2>3
<1>9. Panel!FirstClickInTime'
  <2>1. \A i \in DOMAIN panels : panels'[i].expires = panels[i].expires
    BY <1>2, <1>4 DEF Becomes
  <2>2. QED
    BY <2>1 DEF PanelsInv, PanelsTypeOK, Panel!FirstClickInTime
<1>10. QED
  BY <1>5, <1>6, <1>7, <1>8, <1>9 DEF PanelsInv, NeverClicked, TickIsAhead

LEMMA PanelsKeep == PanelsInv /\ Panel!Next => PanelsInv'
<1> SUFFICES ASSUME PanelsInv, Panel!Next
             PROVE  PanelsInv'
  OBVIOUS
<1>1. CASE Panel!Delivered
  <2>1. UNCHANGED <<clicks, now>>
    BY <1>1, Zenon DEF Panel!Delivered
  <2>2. CASE UNCHANGED panels
    BY <2>1, <2>2
       DEF PanelsInv, PanelsTypeOK, NeverClicked, Pending, TickIsAhead, Panel!LastIsShown,
           Panel!FirstClickInTime
  <2>3. ASSUME NEW id \in Resource, NEW expires \in now .. now + Life,
               \/ Panel!RenderDeleteWorkbookConfirm(id, expires)
               \/ Panel!RenderDeleteDatasourceConfirm(id, expires)
               \/ Panel!RenderDeleteExtractRefreshTaskConfirm(id, expires)
               \/ Panel!RenderUpdateCloudExtractRefreshTaskConfirm(id, expires)
        PROVE  PanelsInv'
    <3>1. expires \in Nat
      BY PanelAssumption DEF Panel!PanelAssumption, PanelsInv, PanelsTypeOK
    <3>2. \E kind \in {"workbook", "datasource", "task", "schedule"} :
             Panel!Render(kind, id, expires)
      BY <2>3, Zenon
         DEF Panel!RenderDeleteWorkbookConfirm, Panel!RenderDeleteDatasourceConfirm,
             Panel!RenderDeleteExtractRefreshTaskConfirm,
             Panel!RenderUpdateCloudExtractRefreshTaskConfirm
    <3>3. QED
      BY <2>1, <3>1, <3>2, RendersKeep, Zenon
  <2>4. QED
    BY <1>1, <2>2, <2>3, Zenon DEF Panel!Delivered
<1>2. CASE Panel!Advance
  BY <1>2, AdvanceKeeps, Zenon
<1>3. ASSUME NEW i \in DOMAIN panels,
             \/ Panel!Tick(i) \/ Panel!Cancel(i) \/ Panel!Confirm(i)
             \/ Panel!Resolves(i) \/ Panel!Fails(i)
      PROVE  PanelsInv'
  BY <1>3, TicksKeep, ButtonsKeep, Zenon
<1>4. QED
  BY <1>1, <1>2, <1>3, Zenon DEF Panel!Next

\* Whatever the order of results, ticks, clicks and answers, a panel confirms once and
\* goes on showing its answer, one of a kind is shown at most and it is the last, and a
\* first click comes no later than one tick after the approval expired
\* (deleteWorkbookConfirmClient.ts:72-165).
THEOREM PanelsStayHonest == PageSpec => []PanelsAreHonest
<1>1. PageInit => PanelsInv
  BY PanelsInit DEF PageInit
<1>2. PanelsInv /\ [PageNext]_<<deliveryVars, panelVars>> => PanelsInv'
  <2>1. PanelsInv /\ UNCHANGED panelVars => PanelsInv'
    BY DEF panelVars, PanelsInv, PanelsTypeOK, NeverClicked, Pending, TickIsAhead,
           Panel!LastIsShown, Panel!FirstClickInTime
  <2>2. QED
    BY <2>1, PanelsKeep, Zenon DEF PageNext
<1>3. PanelsInv => PanelsAreHonest
  BY DEF PanelsInv, Pending, PanelsAreHonest, Panel!PanelsAreHonest, Panel!ConfirmsOnce
<1>4. QED
  BY <1>1, <1>2, <1>3, PTL DEF PageSpec

-----------------------------------------------------------------------------
(* The ladder of the viz.                                                  *)

\* The number the rungs compare with the budget is the length of the text
\* that will be pushed.
MeasuredIsPushed == bytes = Bytes(weights, text)

\* The ladder is only left with a text that fits.
DoneFits == rung = "done" => ~TooBig

\* The datasources and the session of p are those of the snapshot.
PairOf(p) == p.datasources = payload.datasources /\ p.vds = payload.vds

PairKept == PairOf(working) /\ (PairOf(text) \/ text = Failure)

BudgetInv == TypeOK /\ MeasuredIsPushed /\ DoneFits /\ PairKept

LEMMA BudgetType == budgetBytes \in Int
BY BudgetAssumption DEF budgetBytes

LEMMA FailureType == Failure \in Payload
BY CapsAssumption DEF Failure, Payload

LEMMA IdentityType == \A p \in Payload : IdentityOnly(p) \in Payload
BY CapsAssumption DEF IdentityOnly, Payload

-----------------------------------------------------------------------------
LEMMA BudgetInvInit == Init => BudgetInv
<1> SUFFICES ASSUME Init PROVE BudgetInv
  OBVIOUS
<1> USE DEF Init
<1>1. payload \in Payload
  BY SnapshotAssumption
<1>2. TypeOK
  BY <1>1, BytesAssumption DEF TypeOK, Rung
<1>3. MeasuredIsPushed /\ DoneFits /\ PairKept
  BY DEF MeasuredIsPushed, DoneFits, PairKept, PairOf
<1>4. QED
  BY <1>2, <1>3 DEF BudgetInv

\* A rung that trims the clone, or leaves it, keeps all that matters.
LEMMA TrimKeeps ==
    ASSUME BudgetInv, NEW p \in Payload, PairOf(p),
           Trim(p) \/ Keep,
           rung' \in Rung \ {"done"}, trimmed' \in BOOLEAN,
           UNCHANGED <<weights, payload>>
    PROVE  BudgetInv'
<1> USE DEF BudgetInv
<1>1. CASE Trim(p)
  <2>1. working' = p /\ text' = p /\ bytes' = Bytes(weights, p)
    BY <1>1 DEF Trim, Measure
  <2>2. TypeOK'
    BY <2>1, BytesAssumption DEF TypeOK
  <2>3. MeasuredIsPushed' /\ DoneFits' /\ PairKept'
    BY <2>1 DEF MeasuredIsPushed, DoneFits, PairKept, PairOf
  <2>4. QED
    BY <2>2, <2>3
<1>2. CASE Keep
  <2>1. TypeOK'
    BY <1>2 DEF Keep, TypeOK
  <2>2. MeasuredIsPushed' /\ DoneFits' /\ PairKept'
    BY <1>2 DEF Keep, MeasuredIsPushed, DoneFits, PairKept, PairOf
  <2>3. QED
    BY <2>1, <2>2
<1>3. QED
  BY <1>1, <1>2

LEMMA BudgetInvStep == BudgetInv /\ [Next]_budgetVars => BudgetInv'
<1> SUFFICES ASSUME BudgetInv, [Next]_budgetVars PROVE BudgetInv'
  OBVIOUS
<1> USE DEF BudgetInv
<1>0. working \in Payload /\ PairOf(working)
  BY DEF TypeOK, PairKept
<1>1. CASE Initial
  <2>1. TypeOK'
    BY <1>1, BudgetType DEF Initial, Keep, TypeOK, TooBig, Rung
  <2>2. MeasuredIsPushed' /\ PairKept'
    BY <1>1 DEF Initial, Keep, MeasuredIsPushed, PairKept, PairOf
  <2>3. DoneFits'
    BY <1>1 DEF Initial, Keep, DoneFits, TooBig
  <2>4. QED
    BY <2>1, <2>2, <2>3
<1>2. CASE HalveRows
  <2> DEFINE p == [working EXCEPT !.rows = Halved(@)]
  <2>1. working.rows \in 0 .. SUMMARY_PAGE_ROW_COUNT
    BY <1>0 DEF Payload
  <2>2. Halved(working.rows) \in 0 .. SUMMARY_PAGE_ROW_COUNT
    BY <2>1, CapsAssumption DEF Halved
  <2>3. p \in Payload /\ PairOf(p)
    BY <1>0, <2>2 DEF Payload, PairOf
  <2>4. Trim(p) /\ rung' \in Rung \ {"done"} /\ trimmed' \in BOOLEAN
    BY <1>2 DEF HalveRows, TypeOK, Rung
  <2>5. UNCHANGED <<weights, payload>>
    BY <1>2 DEF HalveRows
  <2>6. QED
    BY <2>3, <2>4, <2>5, TrimKeeps
<1>3. CASE RowsDone
  BY <1>0, <1>3, TrimKeeps DEF RowsDone, TypeOK, Rung
<1>4. CASE DropMarks
  <2> DEFINE p == [working EXCEPT !.marks = 0]
  <2>1. p \in Payload /\ PairOf(p)
    BY <1>0, CapsAssumption DEF Payload, PairOf
  <2>2. Trim(p) \/ Keep
    BY <1>4 DEF DropMarks
  <2>3. rung' \in Rung \ {"done"} /\ trimmed' \in BOOLEAN /\ UNCHANGED <<weights, payload>>
    BY <1>4 DEF DropMarks, TypeOK, Rung
  <2>4. QED
    BY <2>1, <2>2, <2>3, TrimKeeps
<1>5. CASE SqueezeFilters
  <2> DEFINE p == [working EXCEPT !.filters = "squeezed"]
  <2>1. p \in Payload /\ PairOf(p)
    BY <1>0 DEF Payload, PairOf
  <2>2. Trim(p) \/ Keep
    BY <1>5 DEF SqueezeFilters
  <2>3. rung' \in Rung \ {"done"} /\ trimmed' \in BOOLEAN /\ UNCHANGED <<weights, payload>>
    BY <1>5 DEF SqueezeFilters, TypeOK, Rung
  <2>4. QED
    BY <2>1, <2>2, <2>3, TrimKeeps
<1>6. CASE Identity
  <2>1. UNCHANGED <<weights, payload, working, trimmed>> /\ rung' = "failure"
    BY <1>6 DEF Identity
  <2>2. CASE TooBig
    <3>1. text' = IdentityOnly(working) /\ bytes' = Bytes(weights, text')
      BY <1>6, <2>2 DEF Identity, Measure
    <3>2. text' \in Payload /\ bytes' \in Nat
      BY <1>0, <3>1, IdentityType, BytesAssumption DEF TypeOK
    <3>3. PairKept'
      BY <1>0, <2>1, <3>1 DEF PairKept, PairOf, IdentityOnly
    <3>4. QED
      BY <2>1, <3>1, <3>2, <3>3 DEF TypeOK, Rung, MeasuredIsPushed, DoneFits
  <2>3. CASE ~TooBig
    BY <1>6, <2>1, <2>3
    DEF Identity, TypeOK, Rung, MeasuredIsPushed, DoneFits, PairKept, PairOf
  <2>4. QED
    BY <2>2, <2>3
<1>7. CASE Constant
  <2>1. UNCHANGED <<weights, payload, working, trimmed>> /\ rung' = "done"
    BY <1>7 DEF Constant
  <2>2. CASE TooBig
    <3>1. text' = Failure /\ bytes' = Bytes(weights, text')
      BY <1>7, <2>2 DEF Constant, Measure
    <3>2. text' \in Payload /\ bytes' \in Nat
      BY <3>1, FailureType, BytesAssumption DEF TypeOK
    <3>3. ~TooBig'
      BY <3>1, <3>2, BudgetAssumption DEF TypeOK, TooBig, budgetBytes
    <3>4. QED
      BY <2>1, <3>1, <3>2, <3>3
      DEF TypeOK, Rung, MeasuredIsPushed, DoneFits, PairKept, PairOf
  <2>3. CASE ~TooBig
    <3>1. UNCHANGED <<text, bytes>>
      BY <1>7, <2>3 DEF Constant
    <3>2. QED
      BY <2>1, <2>3, <3>1
      DEF TypeOK, Rung, MeasuredIsPushed, DoneFits, PairKept, PairOf, TooBig
  <2>4. QED
    BY <2>2, <2>3
<1>8. CASE UNCHANGED budgetVars
  BY <1>8
  DEF budgetVars, TypeOK, MeasuredIsPushed, DoneFits, PairKept, PairOf, TooBig
<1>9. QED
  BY <1>1, <1>2, <1>3, <1>4, <1>5, <1>6, <1>7, <1>8 DEF Next

\* The inductive invariant holds throughout.
THEOREM BudgetInvariant == SafetySpec => []BudgetInv
<1>1. QED
  BY BudgetInvInit, BudgetInvStep, PTL DEF SafetySpec

-----------------------------------------------------------------------------
\* TypeOK: the trims of the ladder stay within the shape of a payload.
THEOREM PayloadsAreTyped == SafetySpec => []TypeOK
<1>1. BudgetInv => TypeOK
  BY DEF BudgetInv
<1>2. QED
  BY <1>1, BudgetInvariant, PTL

\* What is pushed fits the budget, preamble included, whatever the snapshot
\* and however long its serialization is (payload.ts:4-8, pushVizState.ts:7-9).
THEOREM PushFits == SafetySpec => []FitsBudget
<1>1. BudgetInv => FitsBudget
  BY BudgetAssumption
  DEF BudgetInv, TypeOK, FitsBudget, MeasuredIsPushed, DoneFits, TooBig, budgetBytes
<1>2. QED
  BY <1>1, BudgetInvariant, PTL

\* Datasources and session are dropped together or not at all
\* (payload.ts:222-226).
THEOREM PairIsWhole == SafetySpec => []PairStaysTogether
<1>1. BudgetInv => PairStaysTogether
  BY DEF BudgetInv, PairKept, PairOf, PairStaysTogether, Failure
<1>2. QED
  BY <1>1, BudgetInvariant, PTL

\* Both, for every snapshot and every size function (payload.ts:166-258).
THEOREM PushIsSound == SafetySpec => []PushedIsSound
<1>1. FitsBudget /\ PairStaysTogether => PushedIsSound
  BY DEF PushedIsSound
<1>2. QED
  BY <1>1, PushFits, PairIsWhole, PTL
-----------------------------------------------------------------------------
(* That the ladder of the viz gives up no more than it must.  The rungs are *)
(* followed with what each has shown not to fit (Descent).                  *)

\* In the halvings of r, nothing lies between a count n and the larger counts' halves.
NextBelow(r, n) == \A m \in Halvings(r) : m > n => m \div 2 >= n

LEMMA HalvingsStart ==
    ASSUME NEW r \in Nat
    PROVE  r \in Halvings(r) /\ NextBelow(r, r)
BY DEF Halvings, NextBelow

LEMMA HalvingsClosed ==
    ASSUME NEW r \in Nat, NEW n \in Halvings(r)
    PROVE  n \in 0 .. r /\ n \div 2 \in Halvings(r)
<1>1. n \in 0 .. r /\ n \div 2 \in 0 .. r
  BY DEF Halvings
<1>2. ASSUME NEW S \in SUBSET (0 .. r), r \in S, \A i \in S : i \div 2 \in S
      PROVE  n \div 2 \in S
  BY <1>2 DEF Halvings
<1>3. QED
  BY <1>1, <1>2 DEF Halvings

\* The counts reached from n on are n and those up to its half.
LEMMA HalvingsNext ==
    ASSUME NEW r \in Nat, NEW n \in Halvings(r), NextBelow(r, n)
    PROVE  /\ \A m \in Halvings(r) : m >= n \/ m <= n \div 2
           /\ NextBelow(r, n \div 2)
<1> DEFINE S == {m \in Halvings(r) : m >= n \/ m <= n \div 2}
<1>1. n \in 0 .. r /\ S \in SUBSET (0 .. r)
  BY DEF Halvings
<1>2. r \in S
  BY <1>1, HalvingsStart
<1>3. ASSUME NEW i \in S PROVE i \div 2 \in S
  <2>1. i \in 0 .. r /\ i \div 2 \in Halvings(r)
    BY HalvingsClosed
  <2>2. CASE i > n
    BY <1>1, <2>1, <2>2 DEF NextBelow
  <2>3. CASE i = n
    BY <1>1, <2>1, <2>3
  <2>4. CASE i <= n \div 2
    BY <1>1, <2>1, <2>4
  <2>5. QED
    BY <1>1, <1>3, <2>1, <2>2, <2>3, <2>4
<1>4. \A m \in Halvings(r) : m \in S
  BY <1>1, <1>2, <1>3 DEF Halvings
<1>5. NextBelow(r, n \div 2)
  <2> SUFFICES ASSUME NEW m \in Halvings(r), m > n \div 2 PROVE m \div 2 >= n \div 2
    BY DEF NextBelow
  <2>1. m \in 0 .. r /\ m >= n
    BY <1>1, <1>4 DEF Halvings
  <2>2. QED
    BY <1>1, <2>1
<1>6. QED
  BY <1>4, <1>5
-----------------------------------------------------------------------------
\* The text is the best there is and will be pushed.
Won == ~TooBig /\ text = Richest

NoRowsFit == \A m \in RowCounts : ~Fits(WithRows(m))

\* What the rungs behind have shown not to fit, and what the clone has become.
Tried(p) == working = p /\ text = p /\ ~Fits(p)

Descent ==
    /\ rung = "initial" => working = payload /\ text = payload
    /\ rung = "rows" =>
         /\ text = working
         /\ working = IF payload.data THEN WithRows(working.rows) ELSE payload
         /\ working.rows \in RowCounts
         /\ payload.data => NextBelow(payload.rows, working.rows)
         /\ \A m \in RowCounts : m > working.rows => ~Fits(WithRows(m))
    /\ rung = "marks"    => Won \/ (NoRowsFit /\ Tried(NoRows))
    /\ rung = "filters"  => Won \/ (NoRowsFit /\ Tried(NoMarks))
    /\ rung = "identity" => Won \/ (NoRowsFit /\ ~Fits(NoMarks) /\ Tried(Squeezed))
    /\ rung = "failure"  =>
         \/ Won
         \/ /\ NoRowsFit /\ ~Fits(NoMarks) /\ ~Fits(Squeezed) /\ TooBig
            /\ ~Fits(IdentityOnly(payload))
    /\ rung = "done" => text = Richest

LadderInv == BudgetInv /\ Descent

\* TooBig says of the text what Fits does.
LEMMA FitsIsMeasured == BudgetInv => (TooBig <=> ~Fits(text)) /\ payload \in Payload
BY SnapshotAssumption, BytesAssumption, BudgetType
DEF BudgetInv, TypeOK, MeasuredIsPushed, TooBig, Fits

LEMMA CountsAreNumbers ==
    ASSUME payload \in Payload
    PROVE  RowCounts \subseteq Nat /\ payload.rows \in Nat /\ payload.rows \in RowCounts
<1>1. payload.rows \in Nat
  BY CapsAssumption DEF Payload
<1>2. QED
  BY <1>1, HalvingsStart DEF RowCounts, Halvings

\* The first of the row counts to fit is the best there is.
LEMMA FirstRowsToFit ==
    ASSUME payload \in Payload, NEW n \in RowCounts, Fits(WithRows(n)),
           \A m \in RowCounts : m > n => ~Fits(WithRows(m))
    PROVE  Richest = WithRows(n)
<1> DEFINE fitting == {m \in RowCounts : Fits(WithRows(m))}
           best(m) == \A j \in fitting : j <= m
<1>1. RowCounts \subseteq Nat
  BY CountsAreNumbers
<1>2. n \in fitting /\ best(n)
  BY <1>1
<1>3. ASSUME NEW m \in fitting, best(m) PROVE m = n
  BY <1>1, <1>2, <1>3
<1>4. (CHOOSE m \in fitting : best(m)) = n
  BY <1>2, <1>3
<1>5. QED
  BY <1>2, <1>4 DEF Richest

LEMMA RichestBelowRows ==
    ASSUME NoRowsFit
    PROVE  Richest = IF Fits(NoMarks) THEN NoMarks
                     ELSE IF Fits(Squeezed) THEN Squeezed
                     ELSE IF Fits(IdentityOnly(payload)) THEN IdentityOnly(payload)
                     ELSE Failure
BY DEF NoRowsFit, Richest

LEMMA WholeSnapshot ==
    ASSUME payload \in Payload
    PROVE  WithRows(payload.rows) = payload
BY DEF Payload, WithRows

LEMMA DescentInit == Init => Descent
BY DEF Init, Descent

\* An invariant that speaks of the snapshot and its sizes only is not disturbed.
LEMMA ReferenceStays ==
    ASSUME UNCHANGED <<weights, payload>>
    PROVE  /\ Richest' = Richest /\ RowCounts' = RowCounts /\ NoRowsFit' = NoRowsFit
           /\ \A p : Fits(p)' = Fits(p)
           /\ NoRows' = NoRows /\ NoMarks' = NoMarks /\ Squeezed' = Squeezed
           /\ \A m : WithRows(m)' = WithRows(m)
BY DEF Richest, RowCounts, NoRowsFit, Fits, NoRows, NoMarks, Squeezed, WithRows

\* Every rung keeps what it is known to have tried.
LEMMA LadderStep == LadderInv /\ [Next]_budgetVars => LadderInv'
<1> SUFFICES ASSUME LadderInv, [Next]_budgetVars PROVE LadderInv'
  OBVIOUS
<1>0. BudgetInv /\ BudgetInv' /\ Descent
  BY BudgetInvStep DEF LadderInv
<1>1. /\ payload \in Payload /\ working \in Payload /\ rung \in Rung
      /\ TooBig <=> ~Fits(text)
      /\ TooBig' <=> ~Fits(text)'
  BY <1>0, FitsIsMeasured, PTL DEF BudgetInv, TypeOK
<1>2. RowCounts \subseteq Nat /\ payload.rows \in Nat /\ payload.rows \in RowCounts
  BY <1>1, CountsAreNumbers
<1>3. /\ UNCHANGED <<weights, payload>> =>
           /\ Richest' = Richest /\ RowCounts' = RowCounts /\ NoRowsFit' = NoRowsFit
           /\ \A p : Fits(p)' = Fits(p)
           /\ NoRows' = NoRows /\ NoMarks' = NoMarks /\ Squeezed' = Squeezed
           /\ \A m : WithRows(m)' = WithRows(m)
  BY ReferenceStays
\* A text that has won stays.
<1>4. ASSUME Won, UNCHANGED <<weights, payload, text, bytes>> PROVE Won' /\ ~TooBig'
  BY <1>3, <1>4 DEF Won, TooBig
<1>5. CASE Initial
  <2>1. working = payload /\ text = payload /\ UNCHANGED <<weights, payload, working, text, bytes>>
    BY <1>0, <1>5 DEF Descent, Initial, Keep
  <2>2. CASE TooBig
    <3>1. rung' = "rows" /\ ~Fits(payload)
      BY <1>1, <1>5, <2>1, <2>2 DEF Initial
    <3>2. payload = IF payload.data THEN WithRows(payload.rows) ELSE payload
      BY <1>1, WholeSnapshot
    <3>3. payload.data => NextBelow(payload.rows, payload.rows)
      BY <1>2, HalvingsStart
    <3>4. \A m \in RowCounts : ~(m > payload.rows)
      BY <1>2 DEF RowCounts, Halvings
    <3>5. Descent'
      BY <1>2, <1>3, <2>1, <3>1, <3>2, <3>3, <3>4 DEF Descent
    <3>6. QED
      BY <1>0, <3>5 DEF LadderInv
  <2>3. CASE ~TooBig
    <3>1. rung' = "done" /\ Fits(WithRows(payload.rows)) /\ WithRows(payload.rows) = payload
      BY <1>1, <1>5, <2>1, <2>3, WholeSnapshot DEF Initial
    <3>2. \A m \in RowCounts : ~(m > payload.rows)
      BY <1>2 DEF RowCounts, Halvings
    <3>3. Richest = payload
      BY <1>1, <1>2, <3>1, <3>2, FirstRowsToFit
    <3>4. QED
      BY <1>0, <1>3, <2>1, <3>1, <3>3 DEF LadderInv, Descent
  <2>4. QED
    BY <2>2, <2>3
<1>6. CASE HalveRows
  <2> DEFINE n == working.rows
             h == n \div 2
  <2>1. /\ rung = "rows" /\ rung' = "rows" /\ TooBig /\ working.data
        /\ UNCHANGED <<weights, payload>>
        /\ working' = [working EXCEPT !.rows = h] /\ text' = working'
    BY <1>6 DEF HalveRows, Trim, Measure, Halved
  <2>2. payload.data /\ working = WithRows(n) /\ text = working
    BY <1>0, <2>1 DEF Descent
  <2>3. working' = WithRows(h)
    BY <1>1, <2>1, <2>2 DEF WithRows, Payload
  <2>4. WithRows(h).rows = h
    BY <1>1 DEF WithRows, Payload
  <2>5. n \in Halvings(payload.rows) /\ NextBelow(payload.rows, n)
    BY <1>0, <2>1, <2>2 DEF Descent, RowCounts
  <2>6. h \in RowCounts /\ NextBelow(payload.rows, h)
    BY <1>2, <2>2, <2>5, HalvingsClosed, HalvingsNext DEF RowCounts
  <2>7. ASSUME NEW m \in RowCounts, m > h PROVE ~Fits(WithRows(m))
    <3>1. m >= n
      <4>1. m \in Halvings(payload.rows) /\ m \in Nat /\ n \in Nat
        BY <1>2, <2>2, <2>5 DEF RowCounts, Halvings
      <4>2. m >= n \/ m <= h
        BY <1>2, <2>5, <4>1, HalvingsNext
      <4>3. QED
        BY <2>7, <4>1, <4>2
    <3>2. CASE m = n
      BY <1>1, <2>1, <2>2, <3>2
    <3>3. CASE m > n
      BY <1>0, <2>1, <3>3 DEF Descent
    <3>4. QED
      BY <1>2, <2>2, <2>5, <3>1, <3>2, <3>3 DEF Halvings
  <2>8. Descent'
    BY <1>3, <2>1, <2>2, <2>3, <2>4, <2>6, <2>7 DEF Descent
  <2>9. QED
    BY <1>0, <2>8 DEF LadderInv
<1>7. CASE RowsDone
  <2> DEFINE n == working.rows
  <2>1. /\ rung = "rows" /\ rung' = "marks"
        /\ ~(TooBig /\ working.data /\ n > 0)
        /\ UNCHANGED <<weights, payload, working, text, bytes>>
    BY <1>7 DEF RowsDone, Keep
  <2>2. /\ text = working /\ working = IF payload.data THEN WithRows(n) ELSE payload
        /\ n \in RowCounts
        /\ \A m \in RowCounts : m > n => ~Fits(WithRows(m))
    BY <1>0, <2>1 DEF Descent
  <2>3. working = WithRows(n)
    BY <1>1, <2>2, WholeSnapshot
  <2>4. CASE ~TooBig
    <3>1. Fits(WithRows(n))
      BY <1>1, <2>2, <2>3, <2>4
    <3>2. Richest = WithRows(n)
      BY <1>1, <2>2, <3>1, FirstRowsToFit
    <3>3. Won'
      BY <1>4, <2>1, <2>2, <2>3, <2>4, <3>2 DEF Won
    <3>4. QED
      BY <1>0, <2>1, <3>3 DEF LadderInv, Descent
  <2>5. CASE TooBig
    <3>1. ~Fits(WithRows(n))
      BY <1>1, <2>2, <2>3, <2>5
    <3>2. working = NoRows /\ NoRowsFit
      <4>1. CASE payload.data
        <5>1. n = 0
          BY <1>1, <1>2, <2>1, <2>2, <2>5, <4>1 DEF WithRows, Payload
        <5>2. \A m \in RowCounts : ~Fits(WithRows(m))
          BY <1>2, <2>2, <3>1, <5>1
        <5>3. QED
          BY <2>2, <4>1, <5>1, <5>2 DEF NoRows, NoRowsFit
      <4>2. CASE ~payload.data
        BY <2>2, <3>1, <4>2 DEF NoRows, NoRowsFit, RowCounts
      <4>3. QED
        BY <4>1, <4>2
    <3>3. NoRowsFit /\ Tried(NoRows)
      BY <1>1, <2>2, <2>5, <3>2 DEF Tried
    <3>4. NoRowsFit' /\ Tried(NoRows)'
      BY <1>3, <2>1, <3>3 DEF Tried
    <3>5. QED
      BY <1>0, <2>1, <3>4 DEF LadderInv, Descent
  <2>6. QED
    BY <2>4, <2>5
<1>8. CASE DropMarks
  <2>1. rung = "marks" /\ rung' = "filters" /\ UNCHANGED <<weights, payload>>
    BY <1>8 DEF DropMarks
  <2>2. CASE Won
    <3>1. Won'
      BY <1>4, <1>8, <2>1, <2>2 DEF Won, DropMarks, Keep
    <3>2. QED
      BY <1>0, <2>1, <3>1 DEF LadderInv, Descent
  <2>3. CASE NoRowsFit /\ Tried(NoRows)
    <3>1. NoRows \in Payload /\ working = NoRows /\ TooBig
      BY <1>1, <2>3 DEF Tried
    <3>2. working' = NoMarks /\ text' = NoMarks
      <4>1. CASE working.marks > 0
        BY <1>8, <3>1, <4>1 DEF DropMarks, Trim, Measure, NoMarks
      <4>2. CASE ~(working.marks > 0)
        <5>1. working.marks = 0
          BY <3>1, <4>2, CapsAssumption DEF Payload
        <5>2. NoMarks = NoRows
          BY <3>1, <5>1 DEF NoMarks, Payload
        <5>3. QED
          BY <1>8, <2>3, <3>1, <4>2, <5>2 DEF DropMarks, Keep, Tried
      <4>3. QED
        BY <4>1, <4>2
    <3>3. CASE Fits(NoMarks)
      <4>1. Won'
        BY <1>1, <1>3, <2>1, <2>3, <3>2, <3>3, RichestBelowRows DEF Won
      <4>2. QED
        BY <1>0, <2>1, <4>1 DEF LadderInv, Descent
    <3>4. CASE ~Fits(NoMarks)
      <4>1. NoRowsFit' /\ Tried(NoMarks)'
        BY <1>3, <2>1, <2>3, <3>2, <3>4 DEF Tried
      <4>2. QED
        BY <1>0, <2>1, <4>1 DEF LadderInv, Descent
    <3>5. QED
      BY <3>3, <3>4
  <2>4. QED
    BY <1>0, <2>1, <2>2, <2>3 DEF Descent
<1>9. CASE SqueezeFilters
  <2>1. rung = "filters" /\ rung' = "identity" /\ UNCHANGED <<weights, payload>>
    BY <1>9 DEF SqueezeFilters
  <2>2. CASE Won
    <3>1. Won'
      BY <1>4, <1>9, <2>1, <2>2 DEF Won, SqueezeFilters, Keep
    <3>2. QED
      BY <1>0, <2>1, <3>1 DEF LadderInv, Descent
  <2>3. CASE NoRowsFit /\ Tried(NoMarks)
    <3>1. NoMarks \in Payload /\ working = NoMarks /\ TooBig
      BY <1>1, <2>3 DEF Tried
    <3>2. working' = Squeezed /\ text' = Squeezed
      <4>1. CASE working.filters # "none"
        BY <1>9, <3>1, <4>1 DEF SqueezeFilters, Trim, Measure, Squeezed
      <4>2. CASE working.filters = "none"
        <5>1. Squeezed = NoMarks
          BY <3>1, <4>2 DEF Squeezed, Payload
        <5>2. QED
          BY <1>9, <2>3, <3>1, <4>2, <5>1 DEF SqueezeFilters, Keep, Tried
      <4>3. QED
        BY <4>1, <4>2
    <3>3. ~Fits(NoMarks)
      BY <2>3 DEF Tried
    <3>4. CASE Fits(Squeezed)
      <4>1. Won'
        BY <1>1, <1>3, <2>1, <2>3, <3>2, <3>3, <3>4, RichestBelowRows DEF Won
      <4>2. QED
        BY <1>0, <2>1, <4>1 DEF LadderInv, Descent
    <3>5. CASE ~Fits(Squeezed)
      <4>1. NoRowsFit' /\ ~Fits(NoMarks)' /\ Tried(Squeezed)'
        BY <1>3, <2>1, <2>3, <3>2, <3>3, <3>5 DEF Tried
      <4>2. QED
        BY <1>0, <1>3, <2>1, <4>1 DEF LadderInv, Descent
    <3>6. QED
      BY <3>4, <3>5
  <2>4. QED
    BY <1>0, <2>1, <2>2, <2>3 DEF Descent
<1>10. CASE Identity
  <2>1. rung = "identity" /\ rung' = "failure" /\ UNCHANGED <<weights, payload, working>>
    BY <1>10 DEF Identity
  <2>2. CASE Won
    <3>1. Won'
      BY <1>4, <1>10, <2>1, <2>2 DEF Won, Identity
    <3>2. QED
      BY <1>0, <2>1, <3>1 DEF LadderInv, Descent
  <2>3. CASE NoRowsFit /\ ~Fits(NoMarks) /\ Tried(Squeezed)
    <3>1. working.datasources = payload.datasources /\ working.vds = payload.vds
      BY <1>0 DEF BudgetInv, PairKept, PairOf
    <3>2. TooBig /\ ~Fits(Squeezed) /\ text' = IdentityOnly(payload)
      BY <1>1, <1>10, <2>3, <3>1 DEF Identity, Measure, Tried, IdentityOnly
    <3>3. CASE Fits(IdentityOnly(payload))
      <4>1. Won'
        BY <1>1, <1>3, <2>1, <2>3, <3>2, <3>3, RichestBelowRows DEF Won
      <4>2. QED
        BY <1>0, <2>1, <4>1 DEF LadderInv, Descent
    <3>4. CASE ~Fits(IdentityOnly(payload))
      <4>1. TooBig' /\ IdentityOnly(payload)' = IdentityOnly(payload)
        BY <1>1, <1>3, <2>1, <3>2, <3>4 DEF IdentityOnly
      <4>2. /\ NoRowsFit' /\ ~Fits(NoMarks)' /\ ~Fits(Squeezed)'
            /\ ~Fits(IdentityOnly(payload))'
        BY <1>3, <2>1, <2>3, <3>2, <3>4, <4>1
      <4>3. QED
        BY <1>0, <1>3, <2>1, <4>1, <4>2 DEF LadderInv, Descent
    <3>5. QED
      BY <3>3, <3>4
  <2>4. QED
    BY <1>0, <2>1, <2>2, <2>3 DEF Descent
<1>11. CASE Constant
  <2>1. rung = "failure" /\ rung' = "done" /\ UNCHANGED <<weights, payload>>
    BY <1>11 DEF Constant
  <2>2. text' = Richest
    <3>1. CASE Won
      BY <1>11, <3>1 DEF Won, Constant
    <3>2. CASE ~Won
      BY <1>0, <1>11, <2>1, <3>2, RichestBelowRows DEF Descent, Constant, Measure
    <3>3. QED
      BY <3>1, <3>2
  <2>3. QED
    BY <1>0, <1>3, <2>1, <2>2 DEF LadderInv, Descent
<1>12. CASE UNCHANGED budgetVars
  <2>1. UNCHANGED <<weights, payload, working, text, bytes, rung>>
    BY <1>12 DEF budgetVars
  <2>2. /\ Won' = Won /\ \A p : Tried(p)' = Tried(p) /\ TooBig' = TooBig
    BY <1>3, <2>1 DEF Won, Tried, TooBig
  <2>3. Descent'
    BY <1>0, <1>3, <2>1, <2>2 DEF Descent, Tried, Won, TooBig, IdentityOnly
  <2>4. QED
    BY <1>0, <2>3 DEF LadderInv
<1>13. QED
  BY <1>5, <1>6, <1>7, <1>8, <1>9, <1>10, <1>11, <1>12 DEF LadderInv, Next

\* Whatever the serialization of the parts of a snapshot takes, and even where a shorter
\* snapshot has a longer text, the ladder ends with the richest of the candidates that
\* fits the budget (payload.ts:166-258).
THEOREM BestIsPushed == SafetySpec => []TrimsNoMoreThanNeeded
<1>1. Init => LadderInv
  BY BudgetInvInit, DescentInit DEF LadderInv
<1>2. LadderInv => TrimsNoMoreThanNeeded
  BY DEF LadderInv, Descent, TrimsNoMoreThanNeeded
<1>3. QED
  BY <1>1, <1>2, LadderStep, PTL DEF SafetySpec
=============================================================================
