------------------------ MODULE MCOpenshiftClusters ------------------------
(***************************************************************************)
(* OpenshiftClusters for TLC: the configurations of the runs.              *)
(***************************************************************************)
EXTENDS OpenshiftClusters

EveryOption ==
  [type : {"ocp", "osd", "single"}, managed : {"ocm", "rosa"}, keep : BOOLEAN,
   createFaults : BOOLEAN, destroyFaults : BOOLEAN]

============================================================================
