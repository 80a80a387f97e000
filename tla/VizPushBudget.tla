---------------------------- MODULE VizPushBudget ----------------------------
(***************************************************************************)
(* fitPayloadToBudget (embed/vizState/payload.ts) as pushVizState calls it *)
(* (pushVizState.ts): a snapshot is trimmed down a ladder of rungs until   *)
(* its JSON, behind the preamble, fits the byte budget of a push.          *)
(*                                                                         *)
(* A payload is abstracted to what the ladder trims.  How many bytes its   *)
(* JSON takes is an uninterpreted operator of the payload and of the sizes *)
(* its parts happen to have (the weights), so nothing is assumed of it:    *)
(* not even that trimming makes the text shorter.                          *)
(***************************************************************************)
EXTENDS Lists

CONSTANTS
    Weights,             \* the sizes the parts of a snapshot may have
    Snapshot,            \* the snapshots a capture may hand over
    Bytes(_, _),         \* utf8ByteLength of the serialized payload
    SUMMARY_PAGE_ROW_COUNT,
    MAX_SELECTED_MARKS,
    PUSH_BUDGET_BYTES,
    PREAMBLE_BYTES

\* form says which object is serialized: the snapshot itself, the identity-only
\* object of rung 6, or the constant text of rung 7.
Payload == [form : {"snapshot", "identity", "failure"},
            data : BOOLEAN, rows : 0 .. SUMMARY_PAGE_ROW_COUNT,
            marks : 0 .. MAX_SELECTED_MARKS,
            filters : {"none", "full", "squeezed"},
            datasources : BOOLEAN, vds : BOOLEAN]

Failure == [form |-> "failure", data |-> FALSE, rows |-> 0, marks |-> 0,
            filters |-> "none", datasources |-> FALSE, vds |-> FALSE]

\* Mutant: the preamble is forgotten.
budgetBytes_NoPreamble == PUSH_BUDGET_BYTES

\* The argument pushVizState passes.
budgetBytes == PUSH_BUDGET_BYTES - PREAMBLE_BYTES

ASSUME CapsAssumption == /\ SUMMARY_PAGE_ROW_COUNT \in Nat
                         /\ MAX_SELECTED_MARKS \in Nat
ASSUME SnapshotAssumption == Snapshot \subseteq Payload
ASSUME BytesAssumption == \A w \in Weights, p \in Payload : Bytes(w, p) \in Nat
ASSUME BudgetAssumption ==
    /\ PUSH_BUDGET_BYTES \in Nat
    /\ PREAMBLE_BYTES \in Nat
    /\ \A w \in Weights : Bytes(w, Failure) <= PUSH_BUDGET_BYTES - PREAMBLE_BYTES

VARIABLES
    weights,   \* environment: the sizes of this snapshot's parts
    payload,   \* the argument
    working,   \* the clone that is trimmed
    text,      \* the payload last serialized
    bytes,     \* the length measured then
    rung,      \* the rung the ladder has come to
    trimmed

budgetVars == <<weights, payload, working, text, bytes, rung, trimmed>>

Rung == {"initial", "rows", "marks", "filters", "identity", "failure", "done"}

TypeOK ==
    /\ weights \in Weights
    /\ payload \in Snapshot
    /\ working \in Payload
    /\ text \in Payload
    /\ bytes \in Nat
    /\ rung \in Rung
    /\ trimmed \in BOOLEAN

Init ==
    /\ weights \in Weights
    /\ payload \in Snapshot
    /\ working = payload
    /\ text = payload
    /\ bytes = Bytes(weights, payload)
    /\ rung = "initial"
    /\ trimmed = FALSE

-----------------------------------------------------------------------------
TooBig == bytes > budgetBytes

\* Mutant: the text is not measured again.
Measure_Stale(p) == text' = p /\ UNCHANGED bytes

\* Every trim is followed by a new serialization and a new measurement.
Measure(p) ==
    /\ text' = p
    /\ bytes' = Bytes(weights, p)

Trim(p) == working' = p /\ Measure(p)

Keep == UNCHANGED <<working, text, bytes>>

\* Rung 1: the common case.
Initial ==
    /\ rung = "initial"
    /\ rung' = IF TooBig THEN "rows" ELSE "done"
    /\ trimmed' = TooBig
    /\ Keep
    /\ UNCHANGED <<weights, payload>>

Halved(rows) == rows \div 2

HalveRows ==
    /\ rung = "rows"
    /\ TooBig
    /\ working.data
    /\ working.rows > 0
    /\ Trim([working EXCEPT !.rows = Halved(@)])
    /\ UNCHANGED <<weights, payload, rung, trimmed>>

\* Rungs 2 and 3 end when the text fits or no row is left.
RowsDone ==
    /\ rung = "rows"
    /\ ~(TooBig /\ working.data /\ working.rows > 0)
    /\ rung' = "marks"
    /\ Keep
    /\ UNCHANGED <<weights, payload, trimmed>>

\* Rung 4.
DropMarks ==
    /\ rung = "marks"
    /\ rung' = "filters"
    /\ IF TooBig /\ working.marks > 0
       THEN Trim([working EXCEPT !.marks = 0])
       ELSE Keep
    /\ UNCHANGED <<weights, payload, trimmed>>

\* Rung 5: a handful of values per filter, and no field ids.
SqueezeFilters ==
    /\ rung = "filters"
    /\ rung' = "identity"
    /\ IF TooBig /\ working.filters # "none"
       THEN Trim([working EXCEPT !.filters = "squeezed"])
       ELSE Keep
    /\ UNCHANGED <<weights, payload, trimmed>>

\* The datasources and the session that makes them queryable survive together.
IdentityOnly(p) ==
    [form |-> "identity", data |-> FALSE, rows |-> 0, marks |-> 0,
     filters |-> "none", datasources |-> p.datasources, vds |-> p.vds]

\* Rung 6.
Identity ==
    /\ rung = "identity"
    /\ rung' = "failure"
    /\ IF TooBig THEN Measure(IdentityOnly(working))
       ELSE UNCHANGED <<text, bytes>>
    /\ UNCHANGED <<weights, payload, working, trimmed>>

\* Rung 7: the last resort is a constant.
Constant ==
    /\ rung = "failure"
    /\ rung' = "done"
    /\ IF TooBig THEN Measure(Failure)
       ELSE UNCHANGED <<text, bytes>>
    /\ UNCHANGED <<weights, payload, working, trimmed>>

Next == \/ Initial
        \/ HalveRows
        \/ RowsDone
        \/ DropMarks
        \/ SqueezeFilters
        \/ Identity
        \/ Constant

\* The ladder is sequential code: it runs on.
SafetySpec == Init /\ [][Next]_budgetVars
Spec == SafetySpec /\ WF_budgetVars(Next)

-----------------------------------------------------------------------------
(* What the ladder is for, stated without it: the first of the candidates, *)
(* from the richest to the poorest, that fits.                             *)

Fits(p) == Bytes(weights, p) <= budgetBytes

WithRows(n) == [payload EXCEPT !.rows = n]
NoRows == IF payload.data THEN WithRows(0) ELSE payload
NoMarks == [NoRows EXCEPT !.marks = 0]
Squeezed == [NoMarks EXCEPT !.filters = IF @ = "none" THEN @ ELSE "squeezed"]

\* The row counts reached by halving.
RowCounts == IF payload.data THEN Halvings(payload.rows) ELSE {payload.rows}

Richest ==
    LET fitting == {n \in RowCounts : Fits(WithRows(n))}
    IN  IF fitting # {}
        THEN WithRows(CHOOSE n \in fitting : \A m \in fitting : m <= n)
        ELSE IF Fits(NoMarks) THEN NoMarks
        ELSE IF Fits(Squeezed) THEN Squeezed
        ELSE IF Fits(IdentityOnly(payload)) THEN IdentityOnly(payload)
        ELSE Failure

-----------------------------------------------------------------------------
(* Properties.                                                             *)

\* Whatever the snapshot and however its serialization behaves, what is pushed
\* fits the budget together with the preamble: an oversized push would disable
\* the widget for good (payload.ts:4-8, pushVizState.ts:7-9).
FitsBudget ==
    rung = "done" =>
        PREAMBLE_BYTES + Bytes(weights, text) <= PUSH_BUDGET_BYTES

\* Nothing is given up that would have fitted: the text is the richest
\* candidate within the budget (payload.ts:166-172).
TrimsNoMoreThanNeeded == rung = "done" => text = Richest

\* The datasources and the session of the snapshot are dropped together or not
\* at all, since neither half can be used alone (payload.ts:222-226).
PairStaysTogether ==
    rung = "done" =>
        \/ text.vds = payload.vds /\ text.datasources = payload.datasources
        \/ ~text.vds /\ ~text.datasources

\* What may be relied on of a pushed text: its size, and that it can be acted
\* on (payload.ts:166-258).
PushedIsSound == FitsBudget /\ PairStaysTogether

=============================================================================
