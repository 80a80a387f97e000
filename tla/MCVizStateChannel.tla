-------------------------- MODULE MCVizStateChannel --------------------------
(* Instance of VizStateChannel for TLC: one worksheet with one datasource,  *)
(* a full API surface and an old one, two activations, two events.          *)
EXTENDS VizStateChannel

CONSTANTS s1, d1

MCWorksheets == <<s1>>

Methods == {"getFiltersAsync", "getSelectedMarksAsync",
            "getSummaryDataReaderAsync", "getDataSourcesAsync"}

MCSurface ==
    {[sheet |-> [s \in {s1} |-> Methods \ {"getFiltersAsync"}],
      appliedTo |-> FALSE, parameters |-> FALSE, session |-> TRUE],
     [sheet |-> [s \in {s1} |-> {"getSummaryDataReaderAsync"}],
      appliedTo |-> FALSE, parameters |-> TRUE, session |-> FALSE]}

MCContents == {[s \in {s1} |-> <<d1>>]}
=============================================================================
