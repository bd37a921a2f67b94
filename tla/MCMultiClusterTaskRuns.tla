------------------------ MODULE MCMultiClusterTaskRuns ------------------------
(***************************************************************************)
(* Two PipelineRuns; the page is given the other one at most as often as   *)
(* the configuration says.                                                 *)
(***************************************************************************)
EXTENDS MultiClusterTaskRuns

CONSTANTS r1, r2

MCRun == {r1, r2}
=============================================================================
