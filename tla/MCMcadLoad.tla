----------------------------- MODULE MCMcadLoad -----------------------------
(***************************************************************************)
(* McadLoad for TLC: the configurations of the runs.                       *)
(***************************************************************************)
EXTENDS McadLoad

EveryObject == Loads \cup {Canary}

\* Two AppWrappers, or one: bimodal then creates none.
EveryOption ==
  {o \in [count : 1 .. 2, distribution : {"poisson", "bimodal"},
          jobMode : BOOLEAN, stopOnError : BOOLEAN, faults : BOOLEAN] :
     (o.count = 1) = (o.distribution = "bimodal")}
=============================================================================
