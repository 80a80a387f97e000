---------------------------- MODULE MCVizCapture ----------------------------
(***************************************************************************)
(* Instances of VizCapture for TLC.  A dashboard of two worksheets, with   *)
(* the API surfaces that differ in which branch of the capture they take.  *)
(***************************************************************************)
EXTENDS VizCapture

CONSTANTS s1, s2, d1, d2

MCWorksheets == <<s1, s2>>

Full == [s \in {s1, s2} |-> SheetMethod]

Offers(sheet, appliedTo, parameters, session) ==
    [sheet |-> sheet, appliedTo |-> appliedTo, parameters |-> parameters,
     session |-> session]

\* Everything; an old API without datasources, parameters and session; a
\* dashboard whose first sheet cannot be sampled; no readable sheet at all.
MCSurface ==
    {Offers(Full, TRUE, TRUE, TRUE),
     Offers([s \in {s1, s2} |-> SheetMethod \ {"getDataSourcesAsync"}],
            FALSE, FALSE, FALSE),
     Offers([Full EXCEPT ![s1] = {"getDataSourcesAsync"}], FALSE, TRUE, TRUE),
     Offers([s \in {s1, s2} |-> {"getFiltersAsync", "getDataSourcesAsync"}],
            FALSE, TRUE, FALSE)}

MCContents == {[s \in {s1, s2} |-> IF s = s1 THEN <<d1>> ELSE <<d2, d1>>],
               [s \in {s1, s2} |-> IF s = s1 THEN <<>> ELSE <<d1, d1>>]}
=============================================================================
