------------------------------ MODULE ConfirmPanel ------------------------------
(***************************************************************************)
(* The panels in which a human confirms what a preview offered:            *)
(* web/apps/src/hitl.  Each tool result shows a panel of its kind, in the  *)
(* place of the last of that kind, or an error.  A panel counts down to    *)
(* the expiry of the approval, in ticks of its own timer, and calls the    *)
(* confirming tool when its button is clicked.  Results, ticks, clicks and *)
(* the answers of calls come in any order; the server checks the expiry    *)
(* for itself (MutationGuard).                                             *)
(***************************************************************************)
EXTENDS Naturals, Sequences

CONSTANTS
    Resource,     \* ids of what is to be deleted or changed
    Life,         \* bound: time a preview may leave until the approval expires
    Interval,     \* of setInterval: 1 s
    MaxResults,   \* bound: tool results
    MaxClicks,    \* bound: confirming calls
    MaxTime       \* bound: ticks of the clock

\* What the constants are assumed to be.
PanelAssumption ==
    /\ {Life, Interval, MaxResults, MaxClicks, MaxTime} \subseteq Nat
    /\ Interval > 0

VARIABLES
    panels,    \* every panel there was, those removed included
    error,     \* the error UI is shown
    clicks,    \* history: a confirming call: its panel, and when it was made
    now

vars == <<panels, error, clicks, now>>

Init == panels = <<>> /\ error = FALSE /\ clicks = <<>> /\ now = 0

-----------------------------------------------------------------------------
(* Time.                                                                   *)

\* What a tick makes of a panel.
Ticked(p) == IF p.expires <= now
             THEN [p EXCEPT !.expired = TRUE, !.enabled = FALSE, !.text = "expired", !.due = 0]
             ELSE [p EXCEPT !.text = "countdown", !.due = now + Interval]

\* Mutant: the timer goes on.
StopTimer_Not(p) == p

\* stopTimer.
StopTimer(p) == [p EXCEPT !.due = 0]

Tick(i) == /\ panels[i].due = now /\ now > 0
           /\ panels' = [panels EXCEPT ![i] = Ticked(@)]
           /\ UNCHANGED <<error, clicks, now>>

Advance == /\ now < MaxTime
           /\ \A i \in DOMAIN panels : panels[i].due # now \/ now = 0
           /\ now' = now + 1
           /\ UNCHANGED <<panels, error, clicks>>

-----------------------------------------------------------------------------
(* Tool results.                                                           *)

\* The container of a kind is found by its id, whatever it shows.  Its timer is
\* not stopped.
Replaces(p, kind, id) == p.kind = kind

\* The first tick comes before the timer, which starts even if that one stopped it.
Render(kind, id, expires) ==
    panels' = Append([i \in DOMAIN panels |->
                         IF Replaces(panels[i], kind, id) THEN [panels[i] EXCEPT !.shown = FALSE]
                                                          ELSE panels[i]],
                     [Ticked([kind |-> kind, id |-> id, expires |-> expires, shown |-> TRUE,
                              expired |-> FALSE, enabled |-> TRUE, text |-> "", due |-> 0,
                              calls |-> 0, answered |-> FALSE]) EXCEPT !.due = now + Interval])

RenderDeleteWorkbookConfirm(id, expires) == Render("workbook", id, expires)
RenderDeleteDatasourceConfirm(id, expires) == Render("datasource", id, expires)
RenderDeleteExtractRefreshTaskConfirm(id, expires) == Render("task", id, expires)
RenderUpdateCloudExtractRefreshTaskConfirm(id, expires) == Render("schedule", id, expires)

\* handleConfirmResult: the kind decides; a failure, or a result of no known kind,
\* shows the error UI beside what is there.
Delivered ==
    /\ Len(panels) < MaxResults
    /\ \/ /\ \E id \in Resource, expires \in now .. now + Life :
                \/ RenderDeleteWorkbookConfirm(id, expires)
                \/ RenderDeleteDatasourceConfirm(id, expires)
                \/ RenderDeleteExtractRefreshTaskConfirm(id, expires)
                \/ RenderUpdateCloudExtractRefreshTaskConfirm(id, expires)
          /\ UNCHANGED error
       \/ error' = TRUE /\ UNCHANGED panels
    /\ UNCHANGED <<clicks, now>>

-----------------------------------------------------------------------------
(* The buttons.                                                            *)

Cancel(i) == /\ panels[i].shown
             /\ panels' = [panels EXCEPT ![i] = [StopTimer(@) EXCEPT !.shown = FALSE]]
             /\ UNCHANGED <<error, clicks, now>>

Pressed(p) == [p EXCEPT !.enabled = FALSE, !.calls = @ + 1]

Confirm(i) == /\ Len(clicks) < MaxClicks
              /\ panels[i].shown /\ panels[i].enabled
              /\ ~panels[i].expired
              /\ panels' = [panels EXCEPT ![i] = Pressed(StopTimer(@))]
              /\ clicks' = Append(clicks, [panel |-> i, at |-> now])
              /\ UNCHANGED <<error, now>>

Resolved(p) == [p EXCEPT !.calls = @ - 1, !.text = "answer", !.answered = TRUE]

\* The tool answered, be it that it refused.
Resolves(i) == /\ panels[i].calls > 0
               /\ panels' = [panels EXCEPT ![i] = Resolved(@)]
               /\ UNCHANGED <<error, clicks, now>>

Failed(p) == [p EXCEPT !.calls = @ - 1, !.text = "failed", !.enabled = TRUE]

\* The call failed: it may be tried again.
Fails(i) == /\ panels[i].calls > 0
            /\ panels' = [panels EXCEPT ![i] = Failed(@)]
            /\ UNCHANGED <<error, clicks, now>>

Next == \/ Advance \/ Delivered
        \/ \E i \in DOMAIN panels :
             Tick(i) \/ Cancel(i) \/ Confirm(i) \/ Resolves(i) \/ Fails(i)

Spec == Init /\ [][Next]_vars

-----------------------------------------------------------------------------
(* Properties.                                                             *)

\* A panel has one call on its way at most, none after one was answered, and goes
\* on showing the answer (deleteWorkbookConfirmClient.ts:138).
ConfirmsOnce == \A i \in DOMAIN panels :
                   LET p == panels[i] IN
                   /\ p.calls + (IF p.answered THEN 1 ELSE 0) <= 1
                   /\ p.answered => p.text = "answer" /\ ~p.enabled

\* One panel of a kind is shown at most, and it is of the last result
\* (deleteWorkbookConfirmClient.ts:76: "replace any prior panel").
LastIsShown == \A i, j \in DOMAIN panels :
                  panels[i].kind = panels[j].kind /\ i < j => ~panels[i].shown

\* A first click comes no later than one tick after the approval expired.
FirstClickInTime ==
    \A n \in DOMAIN clicks :
        (\A m \in 1 .. n - 1 : clicks[m].panel # clicks[n].panel)
            => clicks[n].at <= panels[clicks[n].panel].expires + Interval

\* Panels do what the human who clicks is shown, in whatever order things happen.
PanelsAreHonest == ConfirmsOnce /\ LastIsShown /\ FirstClickInTime

\* deleteWorkbookConfirmClient.ts:139: "The countdown is advisory; the server
\* re-checks expiry. Still, don't even attempt past expiry."
NoneTooLate == \A n \in DOMAIN clicks :
                  clicks[n].at <= panels[clicks[n].panel].expires + Interval
=============================================================================
