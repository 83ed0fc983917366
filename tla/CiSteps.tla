-------------------------------- MODULE CiSteps --------------------------------
(***************************************************************************)
(* A CI job: the steps prepare_ci, test_ci and cleanup_cluster_ci, each a  *)
(* testing/run that runs the entry point of a test:                        *)
(*   testing/run                                (the checks and the traps) *)
(*   testing/codeflare/{test,prepare*,test_sdk_user}.py                    *)
(*   testing/pipelines/test.py                                             *)
(*   testing/common/{config,env,rhods,sizing}.py                           *)
(* An entry point is a sequence of operations; after the first that fails, *)
(* those of the `finally` clauses still run.  The steps share the cluster, *)
(* and the copy of the configuration in SHARED_DIR.  The Pods that the     *)
(* test starts have a life of their own.                                   *)
(***************************************************************************)
EXTENDS Integers, Sequences

CONSTANTS
  Users,       \* the simulated users whose Pods are followed
  Jobs         \* the CI jobs: what they test, how they are launched

Tests == {"mcad", "sdk_user", "pipelines"}
Steps == <<"prepare_ci", "test_ci", "cleanup_cluster_ci">>
Roles == {"driver", "sutest"}   \* of the machines
Keys == {"namespace", "tag"}    \* of base_image, and of base_image.repo
Unknown == "tests.unknown"      \* a key that is not in the configuration file

\* shared: SHARED_DIR is there.  sameDir: the steps share one ARTIFACT_DIR.
\* pr: apply_prefer_pr is enabled, and finds the number of the pull request.
\* override, preset: the key set by variable_overrides and by a preset that
\* the pull request asks for, or "none".  users: the user count.  unsized: the
\* machines whose sizing command fails: their type is not known, for instance.
\* cleanupOnExit: clusters.cleanup_on_exit.
JobType ==
  [test : Tests, shared : BOOLEAN, sameDir : BOOLEAN, pr : BOOLEAN,
   override : Keys \cup {Unknown, "none"}, preset : Keys \cup {Unknown, "none"},
   users : Nat \ {0}, unsized : SUBSET Roles, cleanupOnExit : BOOLEAN]

ASSUME JobsAssumption == Jobs \subseteq JobType

VARIABLES
  job,        \* the CI job
  step,       \* the index of its step
  pc,         \* where testing/run is
  outcome,    \* how the step ended
  mem,        \* Config.config, and its file in ARTIFACT_DIR
  shared,     \* config.yaml in SHARED_DIR
  pending,    \* what set_config is still to be called with
  writing,    \* set_config has truncated the copy, and not written it yet
  at, err,    \* the operation of the entry point; one has failed
  failures,   \* ARTIFACT_DIR/FAILURES exists
  finished,   \* what ARTIFACT_DIR/FINISHED says
  exitCode,   \* the exit_code file of the test
  plots,      \* how the plots went
  cluster,    \* what is deployed, with its namespace and its tag
  begun,      \* the operators whose deployment failed halfway
  nodes,      \* the replicas of the machinesets of the driver and the sutest
  pod, home,  \* the Pod of each user; the namespace it has made
  jobIn,      \* the namespace of these Pods
  outlived    \* the users whose Pods were running when their namespaces went

process == <<pc, outcome, at, err>>
configs == <<mem, shared, pending, writing>>
files == <<failures, finished, exitCode, plots>>
things == <<cluster, begun, nodes>>
pods == <<pod, home, jobIn, outlived>>
vars == <<job, step, process, configs, files, things, pods>>
-----------------------------------------------------------------------------
(* The operations of the entry points, in the order of the code.  `level`  *)
(* counts the finally clauses an operation is in the last of: what follows *)
(* a failure is of a higher level.                                         *)

If(b, s) == IF b THEN s ELSE <<>>

Do(op, arg) == [op |-> op, arg |-> arg, level |-> 0]
Finally(level, op, arg) == [op |-> op, arg |-> arg, level |-> level]
Make(what) == Do("make", what)

\* apply_prefer_pr: the tag stands for base_image.repo.ref, set with it.
PreferPr(j) == If(j.pr, <<Do("set", "tag")>>)

\* The service account of the Pods is bound to a role of the whole cluster.
DriverPods ==
  <<Make("image"), Make("redis"), Make("minio"),
    Make("account"), Make("binding"), Make("secret")>>

\* prepare_odh, and what follows it up to prepare_fill_workernodes.
PrepareCommon ==
  <<Make("odh"), Make("operators"), Make("kfdefs"), Make("placeholder")>>

\* cleanup_cluster_common: cleanup_fill_workernodes does not know odh_namespace.
CleanupCommon(level) ==
  <<Finally(level, "drop", "kfdefs"), Finally(level, "drop", "operators"),
    Finally(level, "raise", "NameError")>>

Prepare(j) ==
  CASE j.test = "mcad" -> PrepareCommon \o <<Make("mcad namespace")>>
    [] j.test = "sdk_user" ->
         PrepareCommon \o <<Do("set", "namespace"), Make("namespace"), Do("scale", "driver")>>
         \o PreferPr(j) \o DriverPods
         \o <<Do("scale", "sutest"), Make("preloaded image")>>
    [] j.test = "pipelines" ->
         <<Make("namespace"), Do("scale", "driver")>>
         \o PreferPr(j) \o DriverPods
         \o <<Do("scale", "sutest"), Make("pipelines operator"),
              Make("pull secret"), Make("image policy"), Make("rhods"), Make("ldap")>>

\* test_mcad.test and pipelines' test_ci call a function they do not have.
\* `visualize` is the parameter of test_sdk_user.test, and None: no plots.
Test(j) ==
  CASE j.test = "mcad" ->
         <<Do("mcad tests", "all")>>
         \o If(j.cleanupOnExit, <<Finally(1, "raise", "NameError")>>)
    [] j.test = "sdk_user" ->
         PreferPr(j) \o <<Do("run_multi", "sdk_user")>>
         \o If(j.cleanupOnExit, CleanupCommon(1))
    [] j.test = "pipelines" ->
         PreferPr(j) \o <<Do("run_multi", "pipelines"), Finally(1, "plot", "all")>>
         \o If(j.cleanupOnExit, <<Finally(2, "raise", "NameError")>>)

\* Mutant: the namespace of the driver is left.
CleanupHomes(j) ==
  IF j.test = "pipelines"
  THEN <<Do("drop homes", "all"), Do("uninstall", "rhods"), Do("drop", "ldap"),
         Do("uninstall", "pipelines operator")>>
  ELSE CleanupCommon(0)

\* cleanup_cluster.
Cleanup(j) ==
  IF j.test = "pipelines"
  THEN <<Do("drop homes", "all"), Do("uninstall", "rhods"), Do("drop", "ldap"),
         Do("uninstall", "pipelines operator"), Do("drop namespace", "driver")>>
  ELSE CleanupCommon(0)

Ops ==
  CASE Steps[step] = "prepare_ci" -> Prepare(job)
    [] Steps[step] = "test_ci" -> Test(job)
    [] Steps[step] = "cleanup_cluster_ci" -> Cleanup(job)

\* Where the entry point is after its operation, that failed or not.
After(failed) ==
  LET later == {i \in at + 1 .. Len(Ops) : failed => Ops[i].level > Ops[at].level}
  IN  IF later = {} THEN Len(Ops) + 1
      ELSE CHOOSE i \in later : \A k \in later : i <= k
-----------------------------------------------------------------------------
(* sizing.main: the number of nodes for the Pods of the users, on nodes of *)
(* 8 CPUs and 32 GiB of which a part is reserved.                          *)

Ceil(a, b) == (a + b - 1) \div b

NodeCpu == 6000         \* 8 - RESERVED_CPU, in thousandths
NodeMemory == 28        \* 32 - RESERVED_MEM
MaxPodPerNode == 235

\* compute_node_requirement, compute_driver_node_requirement,
\* prepare_sutest_scale_up.
PodSize(j, role) ==
  IF role = "sutest" THEN [cpu |-> 1000, memory |-> 2]
  ELSE IF j.test = "pipelines" THEN [cpu |-> 1500, memory |-> 3]
  ELSE [cpu |-> 250, memory |-> 2]

MachineCount(j, role) ==
  LET byCpu == Ceil(j.users * PodSize(j, role).cpu, NodeCpu)
      byMemory == Ceil(j.users * PodSize(j, role).memory, NodeMemory)
      count == IF byCpu > byMemory THEN byCpu ELSE byMemory
  IN  IF Ceil(j.users, count) > MaxPodPerNode THEN Ceil(j.users, MaxPodPerNode)
                                              ELSE count

\* The exit code of the sizing command after an error: of main, in which case
\* it is the one for no machines, or of the parsing of its arguments.
SizingErrors == {0, 1}

\* What compute_node_requirement may return: nothing if it fails.  That of the
\* pipelines test takes the exit code of the command, and never fails.
NodeRequirement(j, role) ==
  IF j.test = "pipelines"
  THEN IF role \in j.unsized THEN SizingErrors ELSE {MachineCount(j, role) % 256}
  ELSE IF role \in j.unsized THEN {} ELSE {MachineCount(j, role)}
-----------------------------------------------------------------------------
(* The configuration.                                                      *)

File(state) == [k \in Keys |-> state]
Torn == File("torn")
Absent == File("absent")
Base == [k \in Keys |-> IF k = "namespace" THEN "driver" ELSE "main"]

\* apply_config_overrides, apply_preset_from_pr_args.
Layers(j) ==
  If(j.override # "none", <<<<j.override, "override">>>>)
  \o If(j.preset # "none", <<<<j.preset, "preset">>>>)

\* set_config updates nothing when the key is not there.
Updated(c, key, value) == [k \in Keys |-> IF k = key THEN value ELSE c[k]]

Placed(what) ==
  CASE what = "image" /\ job.test = "pipelines" -> <<what, mem["namespace"], mem["tag"]>>
    [] what = "image" /\ job.test = "sdk_user" -> <<what, mem["namespace"], "codeflare-sdk">>
    [] what \in {"namespace", "redis", "minio", "account", "binding", "secret"} ->
         <<what, mem["namespace"], "-">>
    [] OTHER -> <<what, "-", "-">>

Init ==
  /\ job \in Jobs /\ step = 1
  /\ pc = "start" /\ outcome = "none" /\ at = 1 /\ err = FALSE
  /\ mem = Absent /\ shared = Absent /\ pending = <<>> /\ writing = FALSE
  /\ failures = FALSE /\ finished = "none" /\ exitCode = "none" /\ plots = "none"
  /\ cluster = {} /\ begun = {} /\ nodes = [r \in Roles |-> 0]
  /\ pod = [u \in Users |-> "none"] /\ home = [u \in Users |-> "none"]
  /\ jobIn = "none" /\ outlived = {}
-----------------------------------------------------------------------------
(* testing/run.                                                            *)

\* prechecks: the traps are not set yet.
Prechecks ==
  /\ pc = "start"
  /\ \/ pc' = "over" /\ outcome' = "refused"
     \/ ~failures /\ pc' = "load" /\ outcome' = "none"
  /\ UNCHANGED <<job, step, at, err, configs, files, things, pods>>

\* The entry point has ended: postchecks ERR, if it failed, postchecks EXIT.
Postchecks ==
  /\ pc = "run" /\ at > Len(Ops) /\ pending = <<>> /\ ~writing
  /\ pc' = "over" /\ outcome' = IF err THEN "failed" ELSE "ok"
  /\ failures' = err /\ finished' = IF err THEN "failed" ELSE "succeeded"
  /\ UNCHANGED <<job, step, at, err, configs, exitCode, plots, things, pods>>

\* The step is interrupted, and everything it runs.  Of the traps, Bash only
\* runs EXIT, or none if it is killed.
Interrupt ==
  /\ pc \in {"start", "load", "run"}
  /\ pc' = "over" /\ outcome' = "interrupted"
  /\ finished' \in {finished} \cup IF pc = "start" THEN {} ELSE {"succeeded"}
  /\ UNCHANGED <<job, step, at, err, configs, failures, exitCode, plots, things, pods>>

\* The next step of the CI: what was not prepared is not tested, but is
\* cleaned up.
NextStep ==
  /\ pc = "over" /\ step < Len(Steps)
  /\ step' = IF step = 1 /\ outcome # "ok" THEN 3 ELSE step + 1
  /\ pc' = "start" /\ outcome' = "none" /\ at' = 1 /\ err' = FALSE
  /\ mem' = Absent /\ pending' = <<>> /\ writing' = FALSE
  /\ IF job.sameDir THEN UNCHANGED <<failures, finished>>
                    ELSE failures' = FALSE /\ finished' = "none"
  /\ UNCHANGED <<job, shared, exitCode, plots, things, pods>>
-----------------------------------------------------------------------------
(* config.init and set_config.                                             *)

\* The entry point fails before its first operation: the copy cannot be read,
\* a key to override does not exist, or, later, the secrets are missing.
InitFails ==
  /\ \/ pc = "load" /\ (shared = Torn \/ job.override = Unknown)
     \/ pc = "run" /\ at = 1 /\ pending = <<>> /\ ~writing
  /\ pc' = "run" /\ at' = Len(Ops) + 1 /\ err' = TRUE
  /\ UNCHANGED <<job, step, outcome, configs, files, things, pods>>

\* Mutant: the copy is read whatever its state.
LoadTorn ==
  /\ pc = "load"
  /\ job.override # Unknown
  /\ mem' = IF shared = Absent THEN Base ELSE shared
  /\ pending' = Layers(job)
  /\ pc' = "run"
  /\ UNCHANGED <<job, step, outcome, at, err, shared, writing, files, things, pods>>

Load ==
  /\ pc = "load"
  /\ shared # Torn
  /\ job.override # Unknown
  /\ mem' = IF shared = Absent THEN Base ELSE shared
  /\ pending' = Layers(job)
  /\ pc' = "run"
  /\ UNCHANGED <<job, step, outcome, at, err, shared, writing, files, things, pods>>

\* Mutant: the copy in SHARED_DIR is forgotten.
SetConfigLocally ==
  /\ pc = "run" /\ pending # <<>> /\ ~writing
  /\ mem' = Updated(mem, Head(pending)[1], Head(pending)[2])
  /\ pending' = Tail(pending)
  /\ UNCHANGED <<job, step, process, shared, writing, files, things, pods>>

SetConfig ==
  /\ pc = "run" /\ pending # <<>> /\ ~writing
  /\ mem' = Updated(mem, Head(pending)[1], Head(pending)[2])
  /\ pending' = Tail(pending)
  /\ writing' = job.shared
  /\ shared' = IF job.shared THEN Torn ELSE shared
  /\ UNCHANGED <<job, step, process, files, things, pods>>

WriteCopy ==
  /\ pc = "run" /\ writing
  /\ shared' = mem /\ writing' = FALSE
  /\ UNCHANGED <<job, step, process, mem, pending, files, things, pods>>
-----------------------------------------------------------------------------
(* The operations.                                                         *)

Ready(op) ==
  /\ pc = "run" /\ pending = <<>> /\ ~writing
  /\ at \in DOMAIN Ops /\ Ops[at].op = op

Arg == Ops[at].arg

\* Mutant: a finally clause returns, which drops the exception.
ReturnLast(failed) ==
  /\ at' = After(failed) /\ err' = failed
  /\ UNCHANGED <<job, step, pc, outcome, mem, shared, writing>>

\* The operation ends: env.TempArtifactDir and the finally clauses pass the
\* exceptions on.
Return(failed) ==
  /\ at' = After(failed) /\ err' = (err \/ failed)
  /\ UNCHANGED <<job, step, pc, outcome, mem, shared, writing>>

Set ==
  /\ Ready("set")
  /\ pending' = IF Arg = "tag" THEN <<<<"tag", "pr">>>>
                               ELSE <<<<"namespace", "sdk-user-test">>>>
  /\ Return(FALSE)
  /\ UNCHANGED <<files, things, pods>>

\* A command that deploys something, unless it is there.  It may fail before
\* it has done anything, halfway, or at the end.
MakeIt ==
  /\ Ready("make")
  /\ \E failed \in BOOLEAN :
       /\ Return(failed)
       /\ \/ cluster' = cluster \cup {Placed(Arg)} /\ begun' = begun
          \/ /\ failed /\ Placed(Arg) \notin cluster
             /\ cluster' = cluster
             /\ begun' = begun \cup ({Arg} \cap {"pipelines operator", "rhods"})
          \/ failed /\ UNCHANGED <<cluster, begun>>
  /\ UNCHANGED <<pending, files, nodes, pods>>

ScaleUp ==
  /\ Ready("scale")
  /\ \E failed \in BOOLEAN :
       /\ Return(failed)
       /\ \/ \E count \in NodeRequirement(job, Arg) : nodes' = [nodes EXCEPT ![Arg] = count]
          \/ failed /\ nodes' = nodes
  /\ UNCHANGED <<pending, files, cluster, begun, pods>>

\* A command that removes something; `uninstall` only if it finds its CSV,
\* which an operator whose deployment failed halfway has not yet.
Drop ==
  /\ Ready("drop") \/ Ready("uninstall")
  /\ \E failed \in BOOLEAN :
       /\ Return(failed)
       /\ cluster' \in {cluster \ {Placed(Arg)}} \cup IF failed THEN {cluster} ELSE {}
  /\ UNCHANGED <<pending, files, begun, nodes, pods>>

Raise ==
  /\ Ready("raise")
  /\ Return(TRUE)
  /\ UNCHANGED <<pending, files, things, pods>>

Active == {u \in Users : pod[u] \in {"running", "creating", "testing"}}

\* local_ci run_multi starts its Job.
StartPods ==
  /\ Ready("run_multi") /\ jobIn = "none"
  /\ jobIn' = mem["namespace"] /\ pod' = [u \in Users |-> "running"]
  /\ UNCHANGED <<job, step, process, configs, files, things, home, outlived>>

\* It ends; it may have given up on its Job (RunMultiJob).
RunMulti ==
  /\ Ready("run_multi")
  /\ \E failed \in BOOLEAN :
       /\ ~failed => jobIn # "none"
       /\ Return(failed)
       /\ exitCode' = IF failed THEN "1" ELSE "0"
  /\ UNCHANGED <<pending, failures, finished, plots, things, pods>>

Plot ==
  /\ Ready("plot")
  /\ \E failed \in BOOLEAN :
       Return(failed) /\ plots' = IF failed THEN "failed" ELSE "ok"
  /\ UNCHANGED <<pending, failures, finished, exitCode, things, pods>>

\* The tests of McadLoad; they also fail after they have written their exit
\* code, in their clean-up or their captures.
McadTests ==
  /\ Ready("mcad tests")
  /\ \E failed \in BOOLEAN :
       Return(failed) /\ exitCode' \in {"0"} \cup IF failed THEN {"1"} ELSE {}
  /\ UNCHANGED <<pending, failures, finished, plots, things, pods>>

\* cleanup_scale_test: oc delete ns -l<the label of the namespaces of users>.
DropHomes ==
  /\ Ready("drop homes")
  /\ \E failed \in BOOLEAN :
       /\ Return(failed)
       /\ home' \in {[u \in Users |-> IF home[u] = "labelled" THEN "none" ELSE home[u]]}
                    \cup IF failed THEN {home} ELSE {}
  /\ outlived' = Active
  /\ UNCHANGED <<pending, files, things, pod, jobIn>>

\* What is not in the namespace it is for: a ClusterRoleBinding names the one
\* of its service account.
ClusterScoped == {"binding"}

\* oc delete ns <base_image.namespace>, and what is in it, the Pods included.
DropNamespace ==
  /\ Ready("drop namespace")
  /\ \E failed \in BOOLEAN :
       /\ Return(failed)
       /\ \/ /\ cluster' = {r \in cluster : r[2] # mem["namespace"] \/ r[1] \in ClusterScoped}
             /\ pod' = [u \in Users |-> IF u \in Active /\ jobIn = mem["namespace"]
                                        THEN "killed" ELSE pod[u]]
          \/ failed /\ UNCHANGED <<cluster, pod>>
  /\ UNCHANGED <<pending, files, begun, nodes, home, jobIn, outlived>>
-----------------------------------------------------------------------------
(* The Pods: `testing/run <test> run_one` in each of them.                 *)

\* prepare_pipelines_namespace, prepare_user_namespace: oc new-project.
NewProject(u) ==
  /\ pod[u] = "running"
  /\ pod' = [pod EXCEPT ![u] = "creating"]
  /\ home' = [home EXCEPT ![u] = "bare"]
  /\ UNCHANGED <<job, step, process, configs, files, things, jobIn, outlived>>

\* oc label namespace.  The SDK user test has no label.
Label(u) ==
  /\ pod[u] = "creating"
  /\ pod' = [pod EXCEPT ![u] = "testing"]
  /\ home' = [home EXCEPT ![u] =
                IF job.test = "pipelines" /\ home[u] = "bare" THEN "labelled" ELSE home[u]]
  /\ UNCHANGED <<job, step, process, configs, files, things, jobIn, outlived>>

\* The Pod ends, or is killed: another one failed, the deadline came.
PodEnds(u) ==
  /\ u \in Active
  /\ pod' = [pod EXCEPT ![u] = IF pod[u] = "testing" THEN "done" ELSE "killed"]
  /\ UNCHANGED <<job, step, process, configs, files, things, home, jobIn, outlived>>

Done ==
  /\ pc = "over" /\ step = Len(Steps)
  /\ UNCHANGED vars

Next ==
  \/ Prechecks \/ Postchecks \/ Interrupt \/ NextStep
  \/ InitFails \/ Load \/ SetConfig \/ WriteCopy
  \/ Set \/ MakeIt \/ ScaleUp \/ Drop \/ Raise
  \/ StartPods \/ RunMulti \/ Plot \/ McadTests \/ DropHomes \/ DropNamespace
  \/ \E u \in Users : NewProject(u) \/ Label(u) \/ PodEnds(u)
  \/ Done

Spec == Init /\ [][Next]_vars
-----------------------------------------------------------------------------
(* Properties.                                                             *)

Values == {"driver", "sdk-user-test", "main", "pr", "override", "preset"}
Settings == {<<k, v>> : k \in Keys \cup {Unknown}, v \in Values}

\* Every variable has its type, and an entry point only runs with a
\* configuration (config.py:42).
TypeOK ==
  /\ job \in Jobs /\ step \in 1 .. Len(Steps)
  /\ pc \in {"start", "load", "run", "over"}
  /\ outcome \in {"none", "ok", "failed", "interrupted", "refused"}
  /\ mem \in [Keys -> Values] \cup {Absent}
  /\ shared \in [Keys -> Values] \cup {Absent, Torn}
  /\ pending \in Seq(Settings) /\ writing \in BOOLEAN
  /\ at \in 1 .. Len(Ops) + 1 /\ err \in BOOLEAN
  /\ pc = "run" /\ at \in DOMAIN Ops => mem # Absent
  /\ failures \in BOOLEAN /\ finished \in {"none", "succeeded", "failed"}
  /\ exitCode \in {"none", "0", "1"} /\ plots \in {"none", "ok", "failed"}
  /\ nodes \in [Roles -> Nat] /\ begun \subseteq {"pipelines operator", "rhods"}
  /\ pod \in [Users -> {"none", "running", "creating", "testing", "done", "killed"}]
  /\ home \in [Users -> {"none", "bare", "labelled"}]
  /\ jobIn \in Values \cup {"none"} /\ outlived \subseteq Users

\* The Job of the test finds what its Pods need in the namespace it runs in,
\* with the image it names and nodes for all the Pods, although the step that
\* has prepared them is another one, and the configuration was set, saved,
\* reloaded and overridden in between.  Excepted are: the SDK user test
\* without SHARED_DIR, or with its namespace overridden, as its preparation
\* changes the namespace (prepare_user_pods.py:81) and its test does not; and
\* numbers of nodes that do not fit an exit code.  When its sizing command
\* fails, the preparation of the pipelines test does not: the nodes are as
\* many as the exit code of the error.
TestIsReady ==
  /\ Ready("run_multi")
  /\ job.test = "sdk_user" => job.shared /\ "namespace" \notin {job.override, job.preset}
  => /\ {Placed(r) : r \in {"namespace", "image", "redis", "minio",
                            "account", "binding", "secret"}} \subseteq cluster
     /\ \A role \in Roles :
          IF job.test = "pipelines" /\ role \in job.unsized
          THEN nodes[role] \in SizingErrors
          ELSE job.test = "sdk_user" \/ MachineCount(job, role) < 256 =>
                 /\ nodes[role] * NodeCpu >= job.users * PodSize(job, role).cpu
                 /\ nodes[role] * NodeMemory >= job.users * PodSize(job, role).memory
                 /\ nodes[role] * MaxPodPerNode >= job.users

\* What testing/run shows of a step is what happened in it, through the
\* finally clauses and the traps: an error that another one replaces, or that
\* a clean-up follows, still fails the step; and the exit_code of a test is
\* its own, not that of its plots or clean-up.
VerdictIsShown ==
  /\ outcome = "ok" => ~failures /\ finished = "succeeded"
  /\ outcome = "failed" => failures /\ finished = "failed"
  /\ outcome = "ok" /\ Steps[step] = "test_ci" =>
       exitCode = "0" /\ (job.test = "pipelines" => plots = "ok")

\* What the preparation changes in the whole cluster, and no code undoes: the
\* role of the service account, the access to the brew registry.
NotUndone == {"binding", "pull secret", "image policy"}

\* A clean-up of the pipelines test that succeeds leaves the machines, what no
\* code undoes, an operator whose deployment had failed before its CSV was
\* there, the namespaces of Pods that were still running when the others were
\* deleted, and of Pods killed before they had labelled theirs; and nothing
\* else of what these entry points deploy.
CleanupIsComplete ==
  job.test = "pipelines" /\ Steps[step] = "cleanup_cluster_ci" /\ outcome = "ok" =>
    /\ \A r \in cluster : r[1] \in NotUndone
    /\ Active = {}
    /\ \A u \in Users :
         home[u] # "none" => u \in outlived \/ (home[u] = "bare" /\ pod[u] = "killed")
=============================================================================
