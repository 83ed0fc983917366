# ci-artifacts: a TLA+ model

`ci-artifacts` runs the performance tests of OpenShift PSAP in the CI: it creates
clusters, prepares them (RHODS, LDAP, MCAD, Redis, Minio, ...), loads them with
simulated users or jobs, collects the artifacts, decides whether the test passed and
cleans everything up.  It is made of Bash and Python entry points (`testing/`), of
Ansible roles (`roles/`) that a *toolbox* runs (`run_toolbox.py`, `toolbox/`), of a few
programs that run inside the clusters (`subprojects/`), and of parsers and plots
(`visualizations/`).  Its own difficulty is in coordination: background processes and
traps, Pods that meet at a barrier, a play and a Kubernetes Job with different time
limits, files, buckets, caches and exit codes that carry a verdict or a configuration from
one process to another, and the clean-up of clusters after a step that was interrupted
anywhere.

This directory models that part.  Contents:

1. Inventory of the system
2. Modules and their code
3. Runs, bounds and fairness
4. Theorems and their proofs
5. What the runs disagree with
6. Observed while modelling, and not modelled
7. Plan

## 1. Inventory of the system

| Component | State it keeps | Operations | Interacts with | Hard behaviours | What makes it correct |
|---|---|---|---|---|---|
| StateSignal barrier (`subprojects/state-signal-utils/state-signal_barrier.py`) | subscribers, answers, the published verdict, the exit codes | publish `initialization` periodically, count the subscribers, `barrier`, verdict, answers | one exporter and N responders over Redis; used by the two multi-user Jobs | loss of a Pod at any step, refused connections, time-outs, signals that queue up | nobody passes before all are there; one verdict; it reaches whoever was counted; everyone leaves |
| Multi-user Job (`roles/local_ci/local_ci_run_multi`) | containers, `test.exit_code`, `.local_ci_done`, the S3 bucket, the Job, the play | the script of each container, the upload, the tasks of the play | barrier, Kubernetes Job controller, Minio | two containers of a Pod racing on files, one failure ending the Job, a bucket from an earlier run, the play giving up first | tests start together; the count of successes is right; a pass is earned; failures stay local; all stops |
| Cluster creation and destruction (`testing/utils/openshift_clusters`, `subprojects/deploy-cluster`, `roles/cluster/cluster_{create,destroy}_osd`) | the clusters in AWS/OCM, `CONFIG_DEST_DIR`, the keep-cluster ConfigMaps | create in the background, wait, keep, destroy | `process_ctrl.sh`, the installer, two CI steps that share files only | SIGKILL of scripts but not of what they run, interruption of the CI step, destruction in another Pod | a cluster can always be destroyed; success means all are up; nothing is left, what is kept survives |
| Background processes (`testing/utils/process_ctrl.sh`) | the wait-list of each shell, the finalizers | run_in_bg, wait, kill, retry, run_finalizers | the shells that source it, and copies of it in subshells | copied lists, first failure wins, orphans, finalizers that stop at an error | failures are seen, everything is killed or waited for, every finalizer runs |
| Preparation of the notebooks test (`testing/notebooks/{test,prepare_common,prepare_sutest,prepare_driver}.sh`) | what is on the two clusters, the shells, the inherited ERR traps | prepare_ci; the shells of the two clusters; their jobs; the clean-ups | `process_ctrl.sh`, the toolbox | a trap that runs in any shell, a clean-up of both clusters by a subshell, orphan commands | a failure is seen; nothing is deployed behind the clean-up; the clean-up is complete |
| Notebooks test steps (`testing/notebooks/{test,scale_test_*,single_notebook_*}.sh`) | `config.yaml`, the artifact directories, `failed`, the workbenches, the finalizers | repeat, gating, burst, scale-up and performance tests, plots, finalizers | preparation, ODS-CI test, visualization | `errexit` ignored inside conditions, a configuration that every test changes, finalizers that stop at an error | a failing run is reported; each test runs what its preset says; both clusters are cleaned up |
| MCAD load test (`testing/codeflare/test_mcad.py`, `roles/codeflare/*`, `subprojects/mcad-workload-generator`) | AppWrappers, Jobs, the controller, `exit_code`, the list of failed tests | the tests in a row; clean up, restart the controller, generate, wait, count | API server, MCAD | `oc create` processes that outlive the generator, objects of an earlier test, controller restarts, bounded waits | a test counts its own objects; a pass is earned; the verdict is the one of the tests; they end |
| Locust scale test (`roles/rhods/rhods_notebook_locust_scale_test`) | one web session per user, its workbench, the chunks of users of each worker | find the leader, share the users out, login, spawn, wait, access, stop | RHODS dashboard, JupyterLab, Locust | retries, an end that stops other sessions, workers that connect late | no user twice; failures are recorded; workbenches are stopped; sessions end |
| CI steps (`testing/run`, `testing/codeflare`, `testing/pipelines`, `testing/common`) | `FAILURES`, `FINISHED`, `exit_code`, the configuration and its copy in `SHARED_DIR`, what is on the cluster | the checks and traps; prepare, test, plot, clean up; presets, overrides, get, set; sizing | toolbox, Jobs, three steps that share files only | nested `finally` clauses, errors that replace others, an interruption during a write, the range of an exit code | the verdict survives traps, plots and clean-up; a test finds what was prepared; the clean-up is complete |
| Toolbox (`run_toolbox.py`, `toolbox/`) | artifact directories, `FAILURE` files, play files | check the parameters, make the variables of a role, run it, mark its failure | Ansible, the configuration of the CI | concurrent commands that count directories, roles shared by classes, interruption | directories keep the order of the commands; failures are marked; no mandatory variable is missed |
| Results stores and visualization driver (`visualizations/*/store`, `testing/common/visualize.py`) | artifacts, `cache.pickle`, the stages, the verdict | download, parse, cache, generate the matrix and the LTS payload, plot | matbench, one process per stage | missing and damaged artifacts, a crash while the cache is written, caches of other parser versions | all stages see the same results; a good cache is never damaged; a failure has a reason |
| ODS-CI scale test (`roles/rhods/rhods_notebook_ods_ci_scale_test`) | containers, `test.exit_code`, the S3 bucket, the Job, the play | the entrypoint and the artifacts-exporter of each Pod, the tasks of the play | barrier, Kubernetes Job controller, Minio; run by the notebooks test | a file of the entrypoint starts the upload, spot instances that disappear, waits and copies whose failures are ignored, an earlier play whose Pods still run | the count of successes is that of the users of this run; failures stay local; all stops |
| Shell configuration (`testing/utils/configure*.sh`) | `config.yaml`, its copy | as the Python configuration | every shell | as above | as above |
| Cluster and other roles, plots, callback plugins, other tests, model-mesh scripts, data, build, docs | artifacts | linear sequences of `oc` calls and bounded waits; figures | API server, matbench | – | – |

`PROJECT.json` lists all of them with their status, and the hazards, each at its line.

## 2. Modules and their code

Compositions: `StateSignalBarrier` implements `StartBarrier`, and `RunMultiJob` and
`OdsCiScaleTest` instantiate the same `StartBarrier` for their Pods; `McadLoad` EXTENDS `Mcad`, the
cluster its harness loads; `LocustTest` EXTENDS `LocustSession`, the session of one user;
`ResultsStore` EXTENDS `ResultsParsers`; `Toolbox` EXTENDS `ToolboxCommands`.
`OpenshiftClusters`, `NotebooksPrepare` and `NotebooksTest` model three users of `process_ctrl.sh`.

**StartBarrier** – what the barrier promises: Pods arrive, one decision `go` (all there)
or `abort`, each Pod leaves with it.

**StateSignalBarrier** – `state-signal_barrier.py`, signal by signal.  `exporter`,
`subs`, `answered`, `published` and `resCode` are the locals of
`state_signals_exporter`; `resp[p]` and `inbox[p]` are the responder of each Pod and the
signals Redis has delivered to it (a Redis publication reaches the current subscribers
only, `Deliver`); `replies` are the `srespond` on their way.  `Timeout` is the `--delay`,
`KillMain` the loss of a container, `…Refused` a failed connection.  The exporter of pod 0
dies with its container.

**RunMultiJob** – `templates/job.yaml.j2` and `tasks/main.yml` of `local_ci_run_multi`.
`main[p]` and `sidecar[p]` are the two containers of each Pod, `result`, `exitFile`,
`doneFile` and `bucket` what they hand over; `job` is the Kubernetes Job, `driver` the
task the play is at, `gaveUp` its wait that ran out of retries, `unread` its failure to read how the Job
ended, `local` what it downloaded, `emptied` whether the bucket was emptied, and no Pod of an earlier Job has written to it
since.  `options` are the parameters of the role plus `faults` (containers killed, failing commands) and
`earlier`, what a previous play left: nothing, its results, or (`stalled`) also Pods (`old`) that still run when
the play starts, and may export until they are gone (`OldPodExports`).  errexit may end a script anywhere
(`ScriptFails`), a task of the play that fails may end the play (`TaskFails`).
Actions are the steps of the scripts; the Job controller (StartJob, JobFails,
JobCompletes, Deadline, RemovePod) is external.

**OdsCiScaleTest** – the same parts of the ODS-CI scale test, by the same names: `entrypoint.sh`,
`s3-artifacts-exporter.sh`, `tasks/main.yml`.  It differs where its code does: the file with the exit code of
the test is what the sidecar waits for, so that it uploads while the script still ends; an EXIT trap leaves an
empty one; a failed test or barrier exits with 0; on spot instances there is no barrier, and a Pod may be
taken back; each copy and wait of the play may fail unseen.  `broken` are the Pods where errexit ended the
script, which it may do before the barrier, behind it, or after the test.  The restarts of the notebooks are counted in
`Conclude`, since nothing else in the model touches them.

**OpenshiftClusters** – the create and the destroy step.  `step` is the control state of
`clusters.sh`, `creator[r]` the script of each role, `installer[r]` what it runs (make
and openshift-install, or the OSD play), `waitList` the wait-list; `record`,
`kubeconfig` are the files of `CONFIG_DEST_DIR`, `kept` the ConfigMap.  `KillOne` ends a
script and leaves its installer running.  `Interrupt` is the CI ending the create step.  `Uninstall` deletes
no managed cluster, since the role that should do so fails before it.

**Mcad**, **McadLoad** – the first is the external part: AppWrappers, Jobs, controller.
The second is `test()`, `_run_test`, the roles `codeflare_cleanup_appwrappers` and
`codeflare_generate_mcad_load`, task by task (`pc`), and the generator: `launched` and
`joined` count its `oc create` processes, whose state is `oc`.

**NotebooksPrepare** – `prepare_ci`.  `Programs` holds what each process runs in a
configuration, as a sequence of commands (`Run`), background starts (`Spawn`) and waits:
it is the straight-line code of `prepare`, `prepare_sutest_cluster`,
`prepare_driver_cluster` and `driver_build_and_preload_image` with its conditions on the
configuration; `Cleanups` is that of `sutest_cleanup; driver_cleanup`.  `at[p]` is the
position of a process, `child[p]` the command it waits for, `list[p]` its copy of
`process_ctrl__wait_list`, `code[p]` whether it is in the inherited ERR trap.  A command has
its effect on the clusters (`Land`) before its verdict, may fail before or after it, and
goes on when its shell is killed.  All the commands a toolbox call makes are one.

**NotebooksTest** – `test_ci`.  `pc` is what the main shell is about to do; `config` is
`config.yaml` (its mode, users, batch, repetitions, scale-up levels, `matbench.test_directory`),
`preset` the gating preset, `normal` the locals of `run_normal_tests_and_plots`, `scale` those of
`run_ods_ci_scaleup_test`: a scale-up level is nested in a repetition, which is nested in a preset, and
`Dir` is the triple of their indexes.  `running`, `list`, `broken`, `jobs` are the shells of each
`prepare` and what they leave; `notebooks` are the workbenches on the sutest cluster, `deployed` the
clusters still to be cleaned.  Commands that Bash runs with errexit ignored have no failing alternative
except where the code looks at the status.  `served` is a history variable: the directory and the users of
each test that passed.

**LocustSession**, **LocustTest** – one session: `pc[u]`, the workbench (`wb`), its Route, the
object the program holds (`obj`), `tries`, `failed`, the progress file (`csv`) and how the session was
stopped (`killed`); then the Job: `get_leader.py` with its retries, the connection of workers, the chunks
of indexes the master sends (`inbox`, `indexes`), the users that Locust starts on them, and the first
session to end, which stops its worker.  Kubernetes, Locust and the web applications are external.

**ToolboxCommands**, **Toolbox** – the table of the commands of `toolbox/*.py` (role,
required and optional parameters, checks, constants, prefix) and what `RunAnsibleRole` makes of a
call; then processes that run commands in one `ARTIFACT_DIR`: count the directories, make one, write the
play file, run it, remove it, mark a failure, and may die anywhere.

**ResultsParsers**, **ResultsStore** – the parsers of the six workloads as sequences of
steps, each with the artifacts it needs and what it leaves when one is absent or damaged (`full`,
`part`, `none`, or an error); then the driver: `todo` its stages, `proc` the matbench process, `cache`
the file, truncated before it is dumped, with the version of the parsers that wrote it.  `...Lts` is what the LTS
payload of each workload needs, of its builder and of the models that validate it; a payload may also be refused for
a value that is there (`UseResults`).  The six
stores hold copies of the same code for the cache and the download: a definition of this part is mapped to one of them.

**CiSteps** – the three steps of a CI job.  `Ops` is the sequence of what an entry point
runs (deploy, remove, set a key, scale, raise, start the Pods, plot) with its `finally` clauses;
`mem` is the configuration of the process, `shared` its copy, torn while `writing`; `cluster` what is
deployed, in a namespace or in the whole cluster (`ClusterScoped`), `nodes` the machines, `pod`, `home` the Pods of
the users and their namespaces; `unsized`, of the job, are the machines whose sizing command fails; `failures`, `finished`, `exitCode`,
`plots` are the files of the verdict.  A step may be interrupted anywhere.

The MC modules only give the constants their values.

## 3. Runs, bounds and fairness

| Run | Specification | Instance | Question |
|---|---|---|---|
| `barrier_safety` | FairSpec | 3 Pods, any may be killed or refused, finite delay, 2 unread signals | TypeOK, PassedTogether, VerdictReachesSubscribers, the refinement ImplementsStartBarrier, EveryoneLeaves |
| `job` | FairSpec | 2 Pods, the 8 combinations of parameters, with faults on the results of an earlier play and without on none, and the Pods of a stalled one | TestsStartTogether, ExportIsFinal, PassIsEarned, FailuresStayLocal, EverythingStops |
| `clusters_safety` | Spec | the two roles, the 48 configurations, failures and interruption anywhere | RecordedBeforeCreated, NothingLeftBehind; no deadlock |
| `mcad_safety` | FairSpec | 2 tests of 1 or 2 AppWrappers, all options, failures | CleanSlate, PassIsEarned, VerdictIsSound, TestsEnd; no deadlock |
| `prepare_safety` | FairSpec | 1 image, 3 configurations, 2 failures | FailureIsSeen, CleanUnlessAbandoned, EverythingEnds |
| `prepare_all_done` | Spec | the same | violation of AllDone |
| `notebooks_test` | Spec | 12 plans, 1 or 3 users | TestStartsFresh, PlotsShowTheirTest, PassIsComplete, BothAreCleaned; no deadlock |
| `ods_ci` | FairSpec | 2 users; failing commands on the results of an earlier play, or without collection; Pods of a stalled play; lost containers; both faults on spot instances | CountIsExact, FailuresStayLocal, EverythingStops |
| `locust` | LocustFairSpec | 2 users on a worker, 1 user and 2 workers; 2 tries | FailureIsRecorded, LeftRunning, OneSessionPerUser, SessionsEnd |
| `toolbox` | ToolboxSpec | every command, called in every way, next to another one | DirectoriesInOrder, FailureIsMarked, MandatoryIsGiven |
| `store` | StoreSpec | 6 workloads, at most 2 artifacts absent or 1 damaged, 2 versions of the parsers, 2 runs of the driver | OneReport, VerdictIsEarned, CacheIsSafe; no deadlock |
| `ci_steps` | Spec | 3 tests, 2 Pods followed, the changes a pull request may ask for | TypeOK, TestIsReady, VerdictIsShown, CleanupIsComplete; no deadlock |

**Bounds.**  `MaxUnread` limits the periodic `initialization` signals that pile up at a
slow responder: two are enough for a verdict to be behind another signal, more of the
same signal change nothing a responder does.  Three Pods give a leader and two others, one
lost and one not; two in `RunMultiJob` and `OdsCiScaleTest`, whose barrier is already the abstract one, give
every pair of outcomes (a Job fails at its first failed Pod).  A barrier without a delay
(`WaitForever`) is covered by the theorems.  `MaxCount` = 2: one `oc
create` fails while another is under way, and `NTests` = 2: a test follows one that left
something.  `MaxFailures` = 2 in `NotebooksPrepare`: one failure starts a clean-up, the
second one hits the other shell, the clean-up of a subshell, or that of main.  One image and no
service: the jobs of the driver only differ by having a trap (an image) or not (a service,
like `ldap`).  The three configurations are on bare metal, where there are no machinesets to
scale; between them every kind of step occurs: RHODS installed or not, preloading, skipped
and partial clean-ups.  The others (managed, NFS, machinesets) add steps of the same kinds
and are covered by the theorems.

The plans of `notebooks_test` follow the presets of `testing/notebooks/config.yaml`: the scale test
repeated twice, two scale-ups (one that ends with more and one with fewer users than the threshold of the
clean-ups, 2) and a repeated one, three gating lists, the burst on one or two clusters; 3 users in batches
of 2 make a last batch that is smaller.  In `locust`, sessions interact through their worker and the
chunks of indexes only: two on a worker show that the first to end stops the other, two workers for a
user that one connects late and gets none (two users on two workers were checked for the safety properties too).  In
`store` a step of a parser reads one or two artifacts, so that two absent ones meet in any of them; two versions
make a cache older than the parsers, two runs one left by a driver that was killed.  In `toolbox` two
processes give every order of counting and making directories, and a call has at most
three optional parameters: a check relates two, a third satisfies another check.  In `ci_steps` the user
counts are 2, 100 and 1100, the last one for a number of nodes above 256; options that do not touch
the configuration, failing sizing commands among them, are taken one at a time.  The larger runs have 1.0 (`job`,
`store`), 0.6 (`ods_ci`) and 2.6 million states (`ci_steps`).  No run has a state constraint; all bounds are guards
or sets of initial states.

**Stopping.**  CHECK_DEADLOCK FALSE is set where the system ends without a last step of its own: after the barrier, the
two Jobs, the preparation, the Locust test and the calls of the toolbox.  The other runs have an explicit final
step that stutters, and check for deadlocks.

**Fairness.**
- Barrier: processes that run take the steps that stay enabled, the time-out included (it
  is a timer); failures are never forced.  `EveryoneLeaves` needs the leader.
- Job: the play goes on, since each of its tasks has a bounded number of retries, and the Job
  controller acts on what it sees.  Nothing is assumed of the Pods: what the properties need more
  is an antecedent, written where it is used (`DeadlineIsKept`: activeDeadlineSeconds comes
  and Pods are removed; `PodsGoOn`: containers run and tests end).
- ODS-CI: as the Job, with the same antecedents; `PodsGoOn` includes the barrier.
- MCAD: `test()` and its roles go on (waits have bounded retries, whose exhaustion is an action
  in HarnessStep), and each `oc create` ends.  Nothing is assumed of MCAD, Kubernetes or the
  controller.
- Preparation: Bash goes on, and each command of a process ends: the waits of the toolbox have
  bounded retries.  RHODS may never come (`TimesOut`).
- Locust: a session goes on (its requests are answered or time out), and a runner that quits stops its
  users.  Nothing is assumed of the workers, the leader or the Route.

## 4. Theorems and their proofs

Each Proofs module states an inductive invariant `IInv`, proves `Init => IInv` and
`IInv /\ [Next]_vars => IInv'` with one lemma or step per action, and derives the
properties from it.  The assumptions are only those on the constants
(`BarrierAssumption`, `JobAssumption`, the two `OptionsAssumption`, `PrepareAssumption`, `OdsCiAssumption`,
`PlansAssumption`, `JobsAssumption`, `ToolboxAssumption`, `SessionAssumption`, `WorkersAssumption`,
`StoreAssumption`): the constants have their types, an artifact directory is found with an index below the number of
those there are, and a cache that is found is one that a store could have written, whole or cut.
Every inductive invariant was model-checked before it was proved.  The larger ones are in layers: each uses those before it.

Three Proofs modules hold two systems that have nothing in common: `OpenshiftClustersProofs` also holds the
theorems of Toolbox, `NotebooksPrepareProofs` those of LocustTest and `McadLoadProofs` those of ResultsStore, in a second
part with a heading of its own.  The definitions of those three systems carry their name (`ToolboxInit`, `LocustNext`,
`StoreSpec`, ...).

| Module | Theorems | Why IInv is needed |
|---|---|---|
| `StateSignalBarrierProofs` | TypeCorrect, NobodyPassesAlone (PassedTogether), VerdictIsFinal (OneVerdict), VerdictIsNotLost (VerdictReachesSubscribers), Refinement (ImplementsStartBarrier), for any finite set of Pods | A count of subscribers says something about the Pods only because each subscriber is a Pod that has arrived; a verdict in an inbox or acted upon is the published one; at the phase `barrier` all Pods are subscribers. Refinement maps each step to a step or a stutter of StartBarrier under IInv. |
| `RunMultiJobProofs` | TypeCorrect, NoEarlyTest (TestsStartTogether), ExportsAreFinal (ExportIsFinal), CountsAreSound (CountIsSound), PassesAreEarned (PassIsEarned), TestsFailAlone (FailuresStayLocal), for any finite set of Pods | A pass goes back, through the downloaded files, the bucket, the exit file and the exit code, to the result of a test: each link is a conjunct (FilesInv, SuccessInv, BucketInv), and PhaseInv says that nothing runs before the bucket was emptied. When failures do not abort the run, a Pod that fails has written no outcome (SuccessInv). |
| `OpenshiftClustersProofs` | TypeCorrect, NoClusterIsLost (RecordedBeforeCreated), CreatesAll (CreatedAll), LeavesNothing (NothingLeftBehind), for any set of configurations | What each installer has done so far, who is in the wait-list or has ended well, and what a destroyer that is done has left. |
| the same, on Toolbox | ToolboxTypeCorrect, OrderOfDirectories (DirectoriesInOrder), FailuresAreMarked (FailureIsMarked), for any set of processes, of calls and of directories that are there | The index of every directory is below the number of those there are, and was so when a process counted them (NumbersInv); what a process has counted is still there, and its number is the index of the directory it makes (CountedInv); which return codes a process can have at each of its steps (ReturnInv). |
| `McadLoadProofs` | TypeCorrect, NothingIsLeft (CleanSlate), PassesAreEarned (PassIsEarned), VerdictsAreSound (VerdictIsSound), for any number of tests and AppWrappers | An object belongs to a process of the generator; a test leaves no running process but abandoned ones; after each clean-up task nothing unexpected is left, and the controller cannot create it again. |
| the same, on ResultsStore | StoreTypeCorrect, ResultsAgree (OneReport), VerdictsAreEarned (VerdictIsEarned), CachesAreSafe (CacheIsSafe), for every plan of the driver, every state of the artifacts, here and on the server, every cache and any number of runs and of versions | See below. |
| `NotebooksPrepareProofs` | TypeCorrect, FailuresAreSeen (FailureIsSeen), NoShellGoesOn (NoShellIsLeft), CleanupCleans (CleanUnlessAbandoned), for any images, services, configurations and number of failures | What a process has gone past has succeeded (DoneInv); a shell that was started is in the list of main or has ended well (MainInv); once main is in its trap, whatever still runs was abandoned, and what the clean-up has gone past is gone, or its process was abandoned, or its command failed (TrapInv). The programs are abstracted by a few lemmas: main starts the shells at its steps 2 and 3, shells start jobs only, jobs start nothing. |
| the same, on LocustTest | LocustTypeCorrect, UsersAreShared (OneSessionPerUser), FailuresAreRecorded (FailureIsRecorded), WorkbenchesLeftRunning (LeftRunning), for any numbers of users, workers and retries | The chunks the master cuts have no index in common (ChunksApart), each worker is connected once and gets one message, and has no index nor user before it has taken it (WorkersInv); a user no worker has taken has no session (IdleInv): OneSessionPerUser is then inductive. What a session holds of its workbench and has written, at each of its steps (SessionInv), gives the other two; no other session disturbs it. |
| `NotebooksTestProofs` | BothClustersAreCleaned (BothAreCleaned), TestsStartFromScratch (TestStartsFresh), PlotsAreOfTheirTest (PlotsShowTheirTest), PassesAreComplete (PassIsComplete), for any plans and threshold | Every shell that runs is in the list, unless main has killed the list (ShellsInv); what a cluster still has after its clean-up came from a job that outlived its shell (DeployedInv, CleanInv). The tests are three nested loops: where main is in each, from its `pc` (StageInv), fixes what `config.yaml` holds at that point (ConfigInv), what the workbenches on the cluster are of (FreshInv), which directories have been served with which users (ServedInv), and that a failed plot or clean-up is remembered (FailuresInv); TestInv is their conjunction. |
| `OdsCiScaleTestProofs` | TypeCorrect, CountsAreExact (CountIsExact), TestsFailAlone (FailuresStayLocal), for any finite set of Pods | A file in the bucket is the one its Pod has written once and that no other step changes (FilesInv, BucketInv), unless an earlier Pod wrote, which makes `emptied` false; a complete Job has nothing left that could change it (CompleteInv), so that what was copied is still what the bucket has (CopyInv); what the play knows of the Job depends on whether it gave up (DriverInv). A failed Pod has a failed upload, a lost container, or a command of the script that failed (`broken`). |
| `CiStepsProofs` | TypeCorrect (TypeOK), VerdictsAreShown (VerdictIsShown), TestsAreReady (TestIsReady), CleanupsAreComplete (CleanupIsComplete), for any jobs and users | First the sequences: which kinds of operations each step has, at which position its Job is, what comes before what. Operations that ended well have left their verdict (EarnedInv). An operation that is not in a `finally` never follows a failure (LevelInv). A setting that waits in `pending`, or the file, leads to the value an operation reads, whatever layers are applied before (OriginInv, ValueInv), and for the SDK user test it comes through the copy in `SHARED_DIR` (HandoverInv). Hence all that the preparation makes is where the test looks (MadeInv, with the arithmetic of the sizing, SizeIsEnough, and the exit codes of its errors), nothing else is on the cluster (ClusterInv), each Pod is where its namespace says (PodInv), and what the clean-up has gone past is gone and does not come back (GoneInv). |

**The stores.**  The results are right for a reason that is not in any one step: to parse again what was parsed
gives the same (WholeIs), because `_parse_always` overwrites its own fields only.  The argument has four parts.

1. *Parsing.*  `Parse` runs a list of steps until one raises.  It is a recursive function, and so what it gives is
   proved by minimal counterexample over the index of the step (ParseInduction), a form of induction on
   numbers in which no operator is a parameter.
2. *The table.*  A list of steps is `Sound` when a step raises, or leaves nothing in a field that others need, only
   for an artifact that is mandatory, and when what it needs was given before it.  Each of the lists of the parsers is proved
   to be so, step by step (CodeflareClusterSound, ...), and two sound lists in a row are one (ConcatSound).  Hence `_parse_once`
   succeeds when no artifact is bad and no mandatory one is absent (OnceParsed), and `_parse_always` exactly when
   `config.yaml` is good (AlwaysParsed).
3. *The driver.*  What is left of the stages ends with a verdict, and contains no download after its first one
   (StagesAre, TodoInv); so that no cache comes from the server once a process has taken its results.
4. *The process.*  A process that is about to write has found no current cache (WriterInv); what it has parsed so far is a
   function of the artifacts, or of the cache that it has found (ParsedInv).  Every report of this run is then
   made from `TheResults`, what the current cache says if there is one and what the artifacts say if not, and
 no step changes that (ReportsInv).  CacheIsSafe needs WriterInv only.  A payload is only left by a stage whose
   fields are whole (PayloadsInv), as long as the driver has not failed.

The order of the conditions of `Outcome`, `Effect`, `Record`, `PodSize`, `FromConfig` and `FromCli` is the one of the
code: they are written with IF, since with a CASE whose guards overlap the theorems would be about any of the alternatives.

Proved for every value of the constants but not checked by a run: OneVerdict, CountIsSound,
CreatedAll, NoShellIsLeft, and the type invariants of RunMultiJob,
OdsCiScaleTest, OpenshiftClusters, McadLoad, NotebooksPrepare, Toolbox, LocustTest and ResultsStore.
The runs keep those of the barrier and of CiSteps, where it says that the copy is torn only while it is written.

Only model-checked: all liveness (EveryoneLeaves, EverythingStops, TestsEnd, EverythingEnds, SessionsEnd),
which TLAPS does not prove under fairness; the violation of AllDone; and MandatoryIsGiven, which is about the table of the
commands of the toolbox: a finite table without a constant, whose calls the run enumerates, so that a proof would
say nothing more.

## 5. What the runs disagree with

This run shows a behaviour of the code against a text of the repository:

- `prepare_all_done`: `prepare_ci` succeeds while background jobs of its two shells are still
  running, after "All the processes are done!".  The second `wait_bg_processes` of
  `test.sh:169` has an empty list: the jobs are in the lists of the shells that started them.
  FailureIsSeen is for this reason about the two shells and what they run themselves, and not
  about their jobs.

## 6. Observed while modelling, and not modelled

Components without a module are in `PROJECT.json` with the reason.  Left out of the modules:
Prometheus dumps and the other captures, logs, the wording of messages, templates, figures; the
customer type and the lab environments of the notebooks test, `connect_ci`, an interruption of
`test_ci` in `NotebooksTest` (CiSteps has interruptions); a second failure while a first one is reported (a write of
`safe_exit`, `entrypoint.sh:49`); an interpreter of the sizing command that does not start (126, 127) or is killed; PIDs used again; the kill of a wait-list is one step
in `NotebooksPrepare` and `NotebooksTest` (one per process in `OpenshiftClusters`); the `cp` of
`osd_cluster.sh:37` is taken to succeed; `_run_test_multiple_values` and matbench; the dry modes; the standalone mode of
Locust and the deadline of its Job; the screenshots, the progress stamps and the Robot tests of ODS-CI; the values that parsers read; `TempValue` and presets that extend
others.  An interrupted step is taken to lose all its processes, since its Pod is removed.

The behaviours below were met while modelling.  The properties allow or exclude them by name.

*Barrier and Jobs.*
- `STATE_SIGNAL_DELAY=-1` (`job.yaml.j2:63`): a Pod that never subscribes blocks the others until the
  deadline of the Job, while the comment of line 90 says "in time".
- `safe_exit` is only defined with a Redis server: without one a failed test fails its Pod with 127; without
  `retrieve_artifacts`, the default, a successful run ends with "None of the Pods succeeded".
- "the tasks below will abort the execution in case of problems" (`main.yml:220`): their `failed_when` looks at what
  `oc get` prints, and one that fails prints nothing.  A Job that has failed then passes, if one Pod succeeded: PassIsEarned
  says "if it could read how the Job ended" (`unread`).  CountIsExact of the ODS-CI test says so too (`tasks/main.yml:289`).
- When the bucket cannot be emptied, the counts may be those of an earlier run: CountIsSound and
  PassIsEarned say "if the bucket was emptied".  The play gives up after one hour on a Job that may last five; it then
  counts what is there.
- The bucket is emptied before the Job of an earlier run is deleted (`main.yml:31-49`; `main.yml:194-209` of the
  ODS-CI test): its Pods have a grace period, and the Pods of an Indexed Job keep their names from one run to the next.
- The exporter of an earlier run that still lives on the same Redis server is heard by the new responders.

*ODS-CI test.*
- The play stops waiting after three hours, or at the first `oc get` that fails: it then passes if one user has
  succeeded so far.  CountIsExact says "if it did not give up".
- A container that is killed leaves its sidecar waiting: nothing stops the Pod before the deadline of five hours.
- With `artifacts_collected` none the play always ends with no success.
- `entrypoint.sh:117` removes screenshots by names it looks up in another directory; above 100 users
  `no-screenshot-except-failed-and-zero` keeps none of the failed ones, though `toolbox/rhods.py:119` says so; the exporter
  writes to `dev/null`, relative to where it runs (line 67).
- The stamp `test_execution` is written after the file that starts the export: the plots may miss it.
- `stop_notebooks_on_exit` stops the notebooks before the test too.

*Clusters.*
- No managed cluster is ever deleted: `cluster_destroy_osd` (`tasks/main.yml:12`) reads a variable that only
  `cluster_create_osd` defines, and fails before `ocm delete cluster`.  The destroy step succeeds, and `osd_cluster.sh:85` prints
  "successfully requested": NothingLeftBehind is about the other clusters.
- Two clusters are kept one after the other: a failure in between keeps one.
- With `clusters.create.keep` and the type osd the destroy step destroys both clusters: they are named
  and marked by other scripts (`clusters.sh:149`, `osd_cluster.sh:23`); `config.yaml` documents `single, ocp,
  managed` for the type, the code takes `osd`.

*MCAD.*
- An `oc create` abandoned by a failed generator may add an AppWrapper to the next test.
- In job_mode a Job that Kubernetes has not started yet counts as done (`main.yml:128`).
- The bimodal distribution creates another number of AppWrappers than `aw_count` when that is odd.
- `exit_code` says 0 when the clean-up of the AppWrappers fails afterwards; the test itself fails.

*Notebooks.*
- An image whose build fails runs the ERR trap in its own subshell: both clusters are cleaned up while
  the rest of the preparation goes on and may succeed.
- Inside `if ! prepare` and `run_test && … || …` Bash ignores errexit, in the shells started there too: only the
  failure of the last command of a preparation is seen, and `wait_bg_processes` leaves the other shells running into the
  test when one has failed (TestStartsFresh: `gaveUp`).
- A repeated scale-up runs its second repetition as a simple test with the users of the last level
  (`scale_test_ods_ci.sh:13`): the exception of PassIsComplete.  The presets repeat it once.
- The clean-ups are skipped when the configuration has at most `skip_if_le_than_users` users when the step *ends*
  (`prepare_sutest.sh:308`).  The last gating preset or scale-up level decides: the default gating list ends with a test of
  one user, so that nothing is deleted after tests of 300 users (BothAreCleaned: `Skips`).
- The burst, and a scale-up whose level failed, delete the notebooks of the driver cluster.
- The finalizers run with errexit: a failing `sutest_cleanup` skips `driver_cleanup`, and fails the step.
- `sutest_cleanup_rhods` takes a namespace that it cannot read for RHODS that is not installed; nothing is cleaned
  between repetitions; 256 failed benchmarks would be the exit code 0.

*Locust.*
- The Job does not set `LOCUST_EXPECT_WORKERS`: a worker that connects late gets no chunk, and its users wait in `__init__`.
- A user that finishes, or finds no index, stops all the users of its worker; the step that is interrupted is recorded with no
  exception, like a success; `failed` is never reset in `login_to_jupyterlab_page`; the timeout of wait() is put into a dict that was already copied;
  a Route that is absent at the first poll is never awaited (`workbench.py:189`).
- `sys.exit(256)` after a failed `os.system` is an exit status 0.

*CI steps.*
- A step that is terminated by a signal runs the EXIT trap only: `FINISHED` says that it has succeeded.  A
  failure before the traps leaves neither file.
- Presets are applied after the overrides and win, at each step again; setting a key that does not exist changes
  nothing, while `config.py:126` announces an exception.
- The copy in `SHARED_DIR` truncated by an interrupted change makes all later steps fail, the clean-up too.
- Without `SHARED_DIR`, or with `base_image.namespace` overridden, the SDK user test looks in another namespace than
  the one prepared: the exception of TestIsReady.  So are numbers of nodes that do not fit an exit code (`pipelines/test.py:140`).
- "0 means that an error occured" (`sizing:109`), but nobody compares the count with 0, nor knows 1, the exit code of wrong
  arguments (`sizing:47`): the preparation of the pipelines test scales to 0 or 1 nodes and succeeds.  TestIsReady names this too; the
  codeflare tests get an exception instead.
- The clean-ups of the MCAD and SDK user tests always fail (`prepare_common.py:43`, `prepare_sdk_user.py:30`); with
  `cleanup_on_exit`, `test_mcad.py:76` and `pipelines/test.py:447` call undefined names; `prepare_gpu.py:14` has its test
  inverted; `codeflare/test.py` plots without the module that does.
- "Restores the cluster to its original state" (`pipelines/test.py:394`): the machinesets stay
  scaled; the ClusterRoleBinding of the service account (l. 266) is not in the namespace that is deleted, and stays; so do the pull
  secret and the ImageContentSourcePolicy of the brew registry (`NotUndone`), an operator that failed before its CSV, and namespaces of Pods that outlive the test or died before labelling theirs (CleanupIsComplete).

*Toolbox.*
- Variables lost or misnamed by the prefix of a shared role: `cluster_prometheus_db` does not get the constants of the two
  rhods commands, so that `dump_prometheus_db` resets; `OCP_VERSION`, the namespace of `wait_odh` and `openshift_installer` are read by no role.
- `deploy_from_bundle` raises a TypeError; the version check of `deploy_operator` is reversed; `validate_no_wip` exits with 256, a
  status 0; two of the checks of the repository look at no file.

*Results.*
- A crash between the truncation and the dump of the cache leaves a file that every later parse fails on, until it is removed; four
  of the six stores have no way to ignore the cache.
- A file that was missing is cached as missing; next to a cache only the mandatory files are downloaded.
- The LTS payload of codeflare reads a field that no parser sets, so that its stage always fails; the other payloads are refused
  by their models when one of several optional artifacts was missing, `ocp_version.yml` for instance, after a parsing stage that
  tolerated it: the driver fails then.
- `save_to_artifacts` always raises; `plotting_failed` of `visualize.py` is never set.

## 7. Plan

Done in this order: StartBarrier and StateSignalBarrier; RunMultiJob; OpenshiftClusters; Mcad and
McadLoad; NotebooksPrepare, each with its proofs; then LocustSession and LocustTest; ToolboxCommands
and Toolbox; ResultsParsers and ResultsStore; CiSteps; NotebooksTest with the proof of its clean-ups;
OdsCiScaleTest and its proofs; the proofs of CiSteps and of the tests of NotebooksTest; those of Toolbox, LocustTest and
ResultsStore.  Every safety property of the runs but MandatoryIsGiven is now a theorem.

Next, the most important first:

1. **SetScale**, **DeployOperator** – the read and the patches of `cluster_set_scale`, the waits of
   `cluster_deploy_operator`, with another writer and an operator that comes late.
2. **Config** in Bash – the copy in `CONFIG_DEST_DIR`, with the layers of CiSteps.
