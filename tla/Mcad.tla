-------------------------------- MODULE Mcad --------------------------------
(***************************************************************************)
(* What the tests of roles/codeflare see of the cluster they load: the     *)
(* AppWrappers of their namespace, the Jobs, the MCAD controller that      *)
(* dispatches the former into the latter, and Kubernetes, which runs them. *)
(* MCAD is external: it is modelled from what the roles                    *)
(* codeflare_generate_mcad_load and codeflare_cleanup_appwrappers wait for.*)
(* The Jobs of an AppWrapper are one.                                      *)
(***************************************************************************)
CONSTANT
  Objects  \* the names of the AppWrappers, and of their Jobs

VARIABLES
  awState,    \* the state of each AppWrapper, "none" when there is no such one
  jobState,   \* the state of each Job
  controller, \* whether the Pod of the controller runs
  reported    \* whether its Deployment says so: 1/1

deployment == <<controller, reported>>
cluster == <<awState, jobState, deployment>>

\* What `oc get` lists.
AppWrappers == {a \in Objects : awState[a] # "none"}
Jobs == {a \in Objects : jobState[a] # "none"}

ClusterTypeOK ==
  /\ awState \in [Objects -> {"none", "new", "running", "Completed", "Failed"}]
  /\ jobState \in [Objects -> {"none", "new", "active", "complete", "failed"}]
  /\ controller \in BOOLEAN
  /\ reported \in BOOLEAN

ClusterInit ==
  /\ awState = [a \in Objects |-> "none"]
  /\ jobState = [a \in Objects |-> "none"]
  /\ controller = TRUE
  /\ reported = TRUE

\* The API server stores the new object, or removes some.
NewAppWrapper(a) == awState' = [awState EXCEPT ![a] = "new"]
NewJob(a) == jobState' = [jobState EXCEPT ![a] = "new"]
NoAppWrapper == awState' = [a \in Objects |-> "none"]
NoJob == jobState' = [a \in Objects |-> "none"]

-----------------------------------------------------------------------------
\* The controller creates the Jobs of an AppWrapper that is not over; if they
\* are deleted, it creates them again.
Dispatch(a) ==
  /\ controller
  /\ awState[a] \in {"new", "running"}
  /\ jobState[a] = "none"
  /\ awState' = [awState EXCEPT ![a] = "running"]
  /\ NewJob(a)
  /\ UNCHANGED deployment

\* The controller sees the end of the Jobs of an AppWrapper.
Finish(a) ==
  /\ controller
  /\ awState[a] = "running"
  /\ jobState[a] \in {"complete", "failed"}
  /\ awState' = [awState EXCEPT ![a] =
                   IF jobState[a] = "complete" THEN "Completed" ELSE "Failed"]
  /\ UNCHANGED <<jobState, deployment>>

\* The Jobs of a deleted AppWrapper follow it.
Collect(a) ==
  /\ controller
  /\ awState[a] = "none"
  /\ jobState[a] # "none"
  /\ jobState' = [jobState EXCEPT ![a] = "none"]
  /\ UNCHANGED <<awState, deployment>>

JobStarts(a) ==
  /\ jobState[a] = "new"
  /\ jobState' = [jobState EXCEPT ![a] = "active"]
  /\ UNCHANGED <<awState, deployment>>

JobEnds(a, end) ==
  /\ jobState[a] = "active"
  /\ jobState' = [jobState EXCEPT ![a] = end]
  /\ UNCHANGED <<awState, deployment>>

\* The new Pod of the controller is there.
ControllerStarts ==
  /\ ~ controller
  /\ controller' = TRUE
  /\ UNCHANGED <<awState, jobState, reported>>

\* The status of the Deployment catches up.
ReportDeployment ==
  /\ reported # controller
  /\ reported' = controller
  /\ UNCHANGED <<awState, jobState, controller>>

\* The Jobs of `wrapped` are those of AppWrappers.
ClusterStep(wrapped) ==
  \/ \E a \in Objects :
        \/ Dispatch(a)
        \/ Finish(a)
        \/ a \in wrapped /\ Collect(a)
        \/ JobStarts(a)
        \/ \E end \in {"complete", "failed"} : JobEnds(a, end)
  \/ ControllerStarts
  \/ ReportDeployment
=============================================================================
