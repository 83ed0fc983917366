--------------------------- MODULE MCOdsCiScaleTest ---------------------------
(* OdsCiScaleTest for TLC: the options of the run.                          *)
EXTENDS OdsCiScaleTest

Play(spot, collected, earlier, faults) ==
  [spot |-> spot, collected |-> collected, earlier |-> earlier, faults |-> faults]

\* Commands that fail, on the results of an earlier play and when nothing is collected;
\* Pods of an earlier play; containers that are lost; both on spot instances.
MCOptions ==
  {Play(FALSE, TRUE, "done", {"commands"}), Play(FALSE, FALSE, "none", {"commands"}),
   Play(FALSE, TRUE, "stalled", {}),
   Play(FALSE, TRUE, "done", {"containers"}),
   Play(TRUE, TRUE, "none", {"commands", "containers"})}
===============================================================================
