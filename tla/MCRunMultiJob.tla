---------------------------- MODULE MCRunMultiJob ----------------------------
(***************************************************************************)
(* RunMultiJob for TLC: the parameters the runs give the role.             *)
(***************************************************************************)
EXTENDS RunMultiJob

\* Every combination of the parameters, without faults on an empty bucket and
\* with faults on the results of an earlier run; that run gave up on its Pods
\* in one more, without faults.
EveryOption ==
  {o \in [redis : BOOLEAN, abort : BOOLEAN, retrieve : BOOLEAN,
          faults : BOOLEAN, earlier : {"none", "done", "stalled"}] :
     /\ o.faults <=> o.earlier = "done"
     /\ o.earlier = "stalled" => o.redis /\ ~ o.abort /\ o.retrieve}
==============================================================================
