--------------------------- MODULE NotebooksTest ---------------------------
(***************************************************************************)
(* The test step of the notebooks tests: testing/notebooks/test.sh         *)
(* (test_ci), scale_test_run_tests.sh, scale_test_ods_ci.sh and            *)
(* single_notebook_performance_test.sh.  One Bash process runs the tests   *)
(* of a configuration or, in the gating flavor, those of several presets;  *)
(* its finalizers clean the two clusters up.  A preparation (prepare) is   *)
(* called in a condition, where Bash ignores errexit: its commands and     *)
(* those of its shells may fail unseen, the status is that of the last.    *)
(*                                                                         *)
(* A configuration is a function of the keys that matter: mode, users,     *)
(* batch, repeat, ups (users.scaleups), rhods (use_rhods) and dir          *)
(* (matbench.test_directory); a preset gives a value to some of them.      *)
(***************************************************************************)
EXTENDS Integers, Sequences

CONSTANTS
    Plans,      \* what may be run: [gating, config, presets, single, keep, createOnly]
    Threshold   \* tests.notebooks.cleanup.on_exit.skip_if_le_than_users

Clusters == {"sutest", "driver"}

Keys == {"mode", "users", "batch", "repeat", "ups", "rhods", "dir"}
IsConfig(c) ==
    /\ DOMAIN c = Keys
    /\ c["users"] \in Nat /\ c["batch"] \in Nat /\ c["repeat"] \in Nat
    /\ c["ups"] \in Seq(Nat)

\* apply_preset: a preset gives their value to the keys it has.
Apply(changes, c) == [key \in DOMAIN c |-> IF key \in DOMAIN changes THEN changes[key] ELSE c[key]]

ASSUME PlansAssumption ==
    \A p \in Plans :
        /\ p.gating \in BOOLEAN
        /\ IsConfig(p.config)
        /\ Len(p.presets) \in Nat
        /\ \A i \in 1 .. Len(p.presets) : IsConfig(Apply(p.presets[i], p.config))

VARIABLES
    plan,       \* what is run
    pc,         \* what the main shell is about to do
    config,     \* config.yaml
    preset,     \* the current gating preset, 0 without gating
    failed,     \* `failed` of the gating tests
    prepFailed, \* `prepare_failed`
    normal,     \* the locals of run_normal_tests_and_plots
    scale,      \* the locals of run_ods_ci_scaleup_test, at = 0 outside of it
    usersIn,    \* `users_already_in` of a burst
    kube,       \* the cluster of KUBECONFIG
    prepares,   \* how many times prepare was called, to tell its shells apart
    running,    \* the shells of prepare that run
    list,       \* process_ctrl__wait_list
    broken,     \* the shells that ended with an error
    jobs,       \* the clusters where a job of a shell, or an orphan command, runs
    notebooks,  \* the tests whose workbenches are on the sutest cluster
    deployed,   \* the clusters on which the test is deployed
    code,       \* the exit code
    \* history
    served,     \* the tests that passed, each with its number of users
    lostPlot,   \* a plot failed
    unclean,    \* the last sutest_cleanup_rhods did not clean
    gaveUp,     \* the last wait for the shells ended at a failed one
    cleanupFailed, \* a command of the final clean-ups failed
    late        \* the clusters a job deployed to after their clean-up

control == <<pc, failed, prepFailed, normal, scale, usersIn>>
prep == <<prepares, running, list, broken, jobs, gaveUp>>
rhods == <<notebooks, unclean>>
clean == <<deployed, late, cleanupFailed>>
verdict == <<code, served, lostPlot>>
vars == <<plan, config, preset, kube, control, prep, rhods, clean, verdict>>

\* The configuration of a preset, applied to the initial one.
ConfigOf(p) == IF p = 0 THEN plan.config ELSE Apply(plan.presets[p], plan.config)

NoRun == [runs |-> 0, idx |-> 0, test |-> FALSE, plot |-> FALSE]
NoScale == [ups |-> <<>>, at |-> 0, failed |-> FALSE]

\* ARTIFACT_DIR of the current test.
Dir == <<preset, normal.idx, scale.at>>
Nested == scale.at > 0

Init ==
    /\ plan \in Plans
    /\ config = plan.config
    /\ preset = 0
    /\ pc = IF plan.gating THEN "gating" ELSE "normal"
    /\ failed = FALSE /\ prepFailed = FALSE
    /\ normal = NoRun /\ scale = NoScale /\ usersIn = 0
    /\ kube = "sutest"
    /\ prepares = 0 /\ running = {} /\ list = {} /\ broken = {} /\ jobs = {} /\ gaveUp = FALSE
    /\ notebooks = {} /\ unclean = FALSE
    /\ deployed = Clusters /\ late = {} /\ cleanupFailed = FALSE
    /\ code = 0 /\ served = {} /\ lostPlot = FALSE

-----------------------------------------------------------------------------
(* The gating tests: run_gating_tests_and_plots. *)

\* The configuration is restored before the preset is applied.
NotRestored == Apply(plan.presets[preset + 1], config)
Restored == Apply(plan.presets[preset + 1], plan.config)

NextPreset ==
    /\ pc = "gating" /\ preset < Len(plan.presets)
    /\ preset' = preset + 1
    /\ config' = Restored
    /\ prepFailed' = FALSE
    /\ pc' = "prepare"
    /\ UNCHANGED <<plan, kube, failed, normal, scale, usersIn, prep, rhods, clean, verdict>>

\* A command of run_gating_tests_and_plots fails (an unknown preset).
AbortGating ==
    /\ pc = "gating" /\ preset < Len(plan.presets)
    /\ code' = 1
    /\ pc' = "kill"
    /\ UNCHANGED <<plan, config, preset, kube, failed, prepFailed, normal, scale, usersIn,
                   prep, rhods, clean, served, lostPlot>>

\* The index of the plots is not in a condition: its failure is the one of the script.
GatingEnds ==
    /\ pc = "gating" /\ preset = Len(plan.presets)
    /\ code' \in (IF failed THEN {1} ELSE {0, 1})
    /\ pc' = "kill"
    /\ UNCHANGED <<plan, config, preset, kube, failed, prepFailed, normal, scale, usersIn,
                   prep, rhods, clean, served, lostPlot>>

\* sutest_cleanup_rhods: a namespace that cannot be read counts as RHODS not installed.
CleanRhods(result) ==
    /\ kube' = "sutest"
    /\ notebooks' = IF result = "cleaned" THEN {} ELSE notebooks
    /\ unclean' = (result # "cleaned")
Results == {"cleaned", "skipped", "failed"}

\* Between the preparation of a preset and its tests, with errexit.
CleanPreset(result) ==
    /\ pc = "clean preset"
    /\ CleanRhods(result)
    /\ code' = IF result = "failed" THEN 1 ELSE code
    /\ failed' = (failed \/ (prepFailed /\ result # "failed"))
    /\ pc' = IF result = "failed" THEN "kill" ELSE IF prepFailed THEN "gating" ELSE "normal"
    /\ UNCHANGED <<plan, config, preset, prepFailed, normal, scale, usersIn, prep, clean,
                   served, lostPlot>>

-----------------------------------------------------------------------------
(* prepare, with errexit ignored, and its two shells. *)

\* What follows prepare when its status is known.
Prepared(ok) ==
    /\ prepFailed' = IF Nested THEN prepFailed ELSE ~ok
    /\ scale' = IF Nested THEN [scale EXCEPT !.failed = ~ok] ELSE scale
    /\ pc' = IF ~Nested THEN "clean preset" ELSE IF ok THEN "clean level" ELSE "level"

SkipPrepare ==
    /\ pc = "prepare" /\ config["mode"] = "notebook" /\ ~config["rhods"]
    /\ Prepared(TRUE)
    /\ UNCHANGED <<plan, config, preset, kube, failed, normal, usersIn, prep, rhods, clean, verdict>>

Prepare ==
    /\ pc = "prepare" /\ (config["mode"] = "notebook" => config["rhods"])
    /\ prepares' = prepares + 1
    /\ running' = running \union {<<prepares', c>> : c \in Clusters}
    /\ list' = list \union {<<prepares', c>> : c \in Clusters}
    /\ gaveUp' = FALSE
    /\ pc' = "wait"
    /\ UNCHANGED <<plan, config, preset, kube, failed, prepFailed, normal, scale, usersIn,
                   broken, jobs, rhods, clean, verdict>>

\* wait_bg_processes returns at the first shell that failed; nobody looks at its status.
WaitShell(s) ==
    /\ pc = "wait" /\ s \in list \ running
    /\ list' = list \ {s}
    /\ gaveUp' = (s \in broken)
    /\ pc' = IF s \in broken THEN "launch" ELSE "wait"
    /\ UNCHANGED <<plan, config, preset, kube, failed, prepFailed, normal, scale, usersIn,
                   prepares, running, broken, jobs, rhods, clean, verdict>>

ShellsAreDone ==
    /\ pc = "wait" /\ list = {}
    /\ pc' = "launch"
    /\ UNCHANGED <<plan, config, preset, kube, failed, prepFailed, normal, scale, usersIn,
                   prep, rhods, clean, verdict>>

\* sutest_wait_rhods_launch, whose last command decides.
Launch(ok) ==
    /\ pc = "launch"
    /\ kube' = "sutest"
    /\ Prepared(ok)
    /\ UNCHANGED <<plan, config, preset, failed, normal, usersIn, prep, rhods, clean, verdict>>

\* A shell ends, with the status of its last command, and may leave a job behind it.
ShellEnds(s, ok) ==
    /\ s \in running
    /\ running' = running \ {s}
    /\ broken' = IF ok THEN broken ELSE broken \union {s}
    /\ jobs' \in {jobs, jobs \union {s[2]}}
    /\ UNCHANGED <<plan, config, preset, kube, control, prepares, list, gaveUp, rhods, clean, verdict>>

JobEnds(c) ==
    /\ c \in jobs
    /\ jobs' = jobs \ {c}
    /\ UNCHANGED <<plan, config, preset, kube, control, prepares, running, list, broken, gaveUp,
                   rhods, clean, verdict>>

\* A shell or a job deploys something on a cluster that was cleaned up.
ShellDeploys(s) ==
    /\ s \in running /\ s[2] \notin deployed
    /\ deployed' = deployed \union {s[2]}
    /\ UNCHANGED <<plan, config, preset, kube, control, prep, rhods, late, cleanupFailed, verdict>>

JobDeploys(c) ==
    /\ c \in jobs \ deployed
    /\ deployed' = deployed \union {c}
    /\ late' = late \union {c}
    /\ UNCHANGED <<plan, config, preset, kube, control, prep, rhods, cleanupFailed, verdict>>

-----------------------------------------------------------------------------
(* The tests of a configuration: run_normal_tests_and_plots. *)

\* errexit is ignored here in the gating flavor only.
StartTests(result) ==
    /\ pc = "normal"
    /\ CleanRhods(result)
    /\ LET exits == result = "failed" /\ ~plan.gating
       IN  /\ code' = IF exits THEN 1 ELSE code
           /\ pc' = IF exits THEN "kill" ELSE "repeat"
    /\ normal' = [NoRun EXCEPT !.runs = config["repeat"]]
    /\ UNCHANGED <<plan, config, preset, failed, prepFailed, scale, usersIn, prep, clean,
                   served, lostPlot>>

MoreRunsAnyway == normal.idx < normal.runs
MoreRuns == normal.idx < normal.runs /\ ~normal.test

NextRun ==
    /\ pc = "repeat" /\ MoreRuns
    /\ normal' = [normal EXCEPT !.idx = @ + 1]
    /\ pc' = "test"
    /\ UNCHANGED <<plan, config, preset, kube, failed, prepFailed, scale, usersIn, prep, rhods,
                   clean, verdict>>

TestsEnd ==
    /\ pc = "repeat" /\ ~MoreRuns
    /\ LET lost == normal.test \/ normal.plot
       IN  /\ failed' = (failed \/ (plan.gating /\ lost))
           /\ code' = IF lost /\ ~plan.gating THEN 1 ELSE code
    /\ normal' = NoRun
    /\ pc' = IF plan.gating THEN "gating" ELSE "kill"
    /\ UNCHANGED <<plan, config, preset, kube, prepFailed, scale, usersIn, prep, rhods, clean,
                   served, lostPlot>>

\* generate_plots, for the directory of the configuration.
Plot(ok) ==
    /\ pc = "plot"
    /\ lostPlot' = (lostPlot \/ ~ok)
    /\ scale' = IF Nested THEN [scale EXCEPT !.failed = @ \/ ~ok] ELSE scale
    /\ normal' = IF Nested THEN normal ELSE [normal EXCEPT !.plot = @ \/ ~ok]
    /\ pc' = IF Nested THEN "level" ELSE "repeat"
    /\ UNCHANGED <<plan, config, preset, kube, failed, prepFailed, usersIn, prep, rhods, clean,
                   code, served>>

-----------------------------------------------------------------------------
(* run_test.  One that passed ends on the sutest cluster. *)

\* The status of run_test, for its caller.
Tested(ok) ==
    /\ pc' = "plot"
    /\ scale' = IF Nested THEN [scale EXCEPT !.failed = @ \/ ~ok] ELSE NoScale
    /\ normal' = IF Nested THEN normal ELSE [normal EXCEPT !.test = ~ok]
Serve(ok, n) == served' = IF ok THEN served \union {<<Dir, n>>} ELSE served

\* A toolbox command that fails early has no directory: the last one there is taken.
SimpleTest(ok, dir) ==
    /\ pc = "test" /\ config["mode"] = "simple"
    /\ ok => dir = Dir
    /\ config' = [config EXCEPT !["dir"] = dir]
    /\ kube' = IF ok THEN "sutest" ELSE "driver"
    /\ notebooks' = IF dir = Dir THEN notebooks \union {Dir} ELSE notebooks
    /\ Serve(ok, config["users"])
    /\ Tested(ok)
    /\ UNCHANGED <<plan, preset, failed, prepFailed, usersIn, prep, unclean, clean, code, lostPlot>>

\* The benchmarks run one after the other, a failure is counted (fewer than 256).
NotebookTest(ok) ==
    /\ pc = "test" /\ config["mode"] = "notebook"
    /\ config' = [config EXCEPT !["dir"] = Dir]
    /\ kube' = "sutest"
    /\ Serve(ok, config["users"])
    /\ Tested(ok)
    /\ UNCHANGED <<plan, preset, failed, prepFailed, usersIn, prep, rhods, clean, code, lostPlot>>

StartBurst ==
    /\ pc = "test" /\ config["mode"] = "burst"
    /\ kube' = "driver"
    /\ usersIn' = 0
    /\ pc' = "batch"
    /\ UNCHANGED <<plan, config, preset, failed, prepFailed, normal, scale, prep, rhods, clean, verdict>>

\* The last batch has the users that are missing.
BatchSize ==
    IF usersIn + config["batch"] > config["users"] THEN config["users"] - usersIn ELSE config["batch"]

Batch ==
    /\ pc = "batch" /\ usersIn < config["users"]
    /\ usersIn' = usersIn + BatchSize
    /\ notebooks' = notebooks \union {Dir}
    /\ UNCHANGED <<plan, config, preset, kube, pc, failed, prepFailed, normal, scale, prep, unclean,
                   clean, verdict>>

\* `oc delete notebooks --all -A || true`, on the cluster of KUBECONFIG.
DeleteNotebooks(there) ==
    IF plan.createOnly \/ (kube = "driver" /\ ~plan.single) THEN notebooks' = there
    ELSE notebooks' \in {{}, there}

BurstEnds(ok) ==
    /\ pc = "batch" /\ (ok <=> usersIn >= config["users"])
    /\ \E there \in {notebooks, notebooks \union {Dir}} :
        (ok => there = notebooks) /\ DeleteNotebooks(there)
    /\ config' = [config EXCEPT !["dir"] = Dir]
    /\ kube' = IF ok THEN "sutest" ELSE "driver"
    /\ Serve(ok, usersIn)
    /\ Tested(ok)
    /\ UNCHANGED <<plan, preset, failed, prepFailed, usersIn, prep, unclean, clean, code, lostPlot>>

StartScaleup ==
    /\ pc = "test" /\ config["mode"] = "scaleup"
    /\ kube' = "driver"
    /\ scale' = [NoScale EXCEPT !.ups = config["ups"]]
    /\ pc' = "level"
    /\ UNCHANGED <<plan, config, preset, failed, prepFailed, normal, usersIn, prep, rhods, clean, verdict>>

MoreLevels == scale.at < Len(scale.ups) /\ ~scale.failed

\* The test of a level is a simple one; the configuration stays so afterwards.
NextLevel ==
    /\ pc = "level" /\ MoreLevels
    /\ scale' = [scale EXCEPT !.at = @ + 1]
    /\ config' = [config EXCEPT !["users"] = scale.ups[scale'.at], !["mode"] = "simple"]
    /\ pc' = "prepare"
    /\ UNCHANGED <<plan, preset, kube, failed, prepFailed, normal, usersIn, prep, rhods, clean, verdict>>

CleanLevel(result) ==
    /\ pc = "clean level"
    /\ CleanRhods(result)
    /\ pc' = "test"
    /\ UNCHANGED <<plan, config, preset, failed, prepFailed, normal, scale, usersIn, prep, clean, verdict>>

\* The plots of the whole test follow, those of the levels are done.
LastLevelDir == config["dir"]
WholeDir == <<preset, normal.idx, 0>>

ScaleupEnds ==
    /\ pc = "level" /\ ~MoreLevels
    /\ DeleteNotebooks(notebooks)
    /\ config' = [config EXCEPT !["dir"] = WholeDir]
    /\ kube' = IF scale.failed THEN kube ELSE "sutest"
    /\ normal' = [normal EXCEPT !.test = scale.failed]
    /\ scale' = NoScale
    /\ pc' = "plot"
    /\ UNCHANGED <<plan, preset, failed, prepFailed, usersIn, prep, unclean, clean, verdict>>

-----------------------------------------------------------------------------
(* The finalizers of the EXIT trap, in order and with errexit. *)

\* kill_bg_processes; a shell that is killed may leave the command it was running.
NoneKilled == {}
Killed == running \intersect list

KillShells ==
    /\ pc = "kill"
    /\ running' = running \ Killed
    /\ jobs' \in {jobs, jobs \union {s[2] : s \in Killed}}
    /\ list' = {}
    /\ pc' = "capture"
    /\ UNCHANGED <<plan, config, preset, kube, failed, prepFailed, normal, scale, usersIn, prepares,
                   broken, gaveUp, rhods, clean, verdict>>

\* capture_environment, on both clusters, may fail unnoticed.
Capture ==
    /\ pc = "capture"
    /\ kube' = "driver"
    /\ pc' = "sutest"
    /\ UNCHANGED <<plan, config, preset, failed, prepFailed, normal, scale, usersIn, prep, rhods,
                   clean, verdict>>

\* sutest_cleanup and driver_cleanup do nothing for few users, or on a kept cluster.
Skips == config["users"] <= Threshold \/ plan.keep
After(cluster) == IF cluster = "sutest" THEN "driver" ELSE "done"

Cleanup(cluster, ok) ==
    /\ pc = cluster
    /\ Skips => ok
    /\ kube' = cluster
    /\ deployed' = IF ok /\ ~Skips THEN deployed \ {cluster} ELSE deployed
    /\ late' = IF ok /\ ~Skips THEN late \ {cluster} ELSE late
    /\ cleanupFailed' = ~ok
    /\ code' = IF ok THEN code ELSE 1
    /\ pc' = IF ok THEN After(cluster) ELSE "done"
    /\ UNCHANGED <<plan, config, preset, failed, prepFailed, normal, scale, usersIn, prep, rhods,
                   served, lostPlot>>

Terminated == pc = "done" /\ UNCHANGED vars

Next ==
    \/ NextPreset \/ AbortGating \/ GatingEnds
    \/ \E result \in Results : CleanPreset(result) \/ StartTests(result) \/ CleanLevel(result)
    \/ SkipPrepare \/ Prepare \/ ShellsAreDone
    \/ \E s \in list : WaitShell(s)
    \/ \E s \in running : ShellDeploys(s) \/ \E ok \in BOOLEAN : ShellEnds(s, ok)
    \/ \E c \in jobs : JobEnds(c) \/ JobDeploys(c)
    \/ NextRun \/ TestsEnd \/ StartBurst \/ Batch \/ StartScaleup \/ NextLevel \/ ScaleupEnds
    \/ \E ok \in BOOLEAN :
        \/ Launch(ok) \/ Plot(ok) \/ NotebookTest(ok) \/ BurstEnds(ok)
        \/ \E dir \in {Dir, <<>>} : SimpleTest(ok, dir)
        \/ \E c \in Clusters : Cleanup(c, ok)
    \/ KillShells \/ Capture
    \/ Terminated

Spec == Init /\ [][Next]_vars

-----------------------------------------------------------------------------
(* Properties. *)

Same(c, d) == \A key \in DOMAIN c \ {"dir"} : c[key] = d[key]

\* The first test of a preset (scale_test_run_tests.sh:72) and of a scale-up level starts with
\* the configuration of that preset and level and nothing else, with no workbench of an earlier
\* test unless RHODS could not be cleaned, and with no shell of the preparation behind it unless
\* one of them has failed: then wait_bg_processes left the others running.
TestStartsFresh ==
    pc = "test" =>
        /\ ~Nested /\ normal.idx = 1 => Same(config, ConfigOf(preset))
        /\ Nested => config["mode"] = "simple" /\ config["users"] = scale.ups[scale.at]
        /\ Nested \/ normal.idx = 1 => notebooks = {} \/ unclean
        /\ running # {} => gaveUp

\* What generate_plots plots is the test before it, or the whole scale-up: matbench.test_directory
\* survives in config.yaml from one test to the next.  A test that failed before it had a
\* directory leaves another one.
PlotsShowTheirTest ==
    pc = "plot" =>
        config["dir"] = Dir \/ (config["dir"] = <<>> /\ (normal.test \/ scale.failed))

RunServed(p, r) ==
    LET c == ConfigOf(p)
    IN  IF c["mode"] = "scaleup"
        THEN \A l \in 1 .. Len(c["ups"]) : <<<<p, r, l>>, c["ups"][l]>> \in served
        ELSE <<<<p, r, 0>>, c["users"]>> \in served
Repeated(p) == ConfigOf(p)["mode"] = "scaleup" /\ ConfigOf(p)["repeat"] > 1
AllServed(p) == Repeated(p) \/ \A r \in 1 .. ConfigOf(p)["repeat"] : RunServed(p, r)
Played == IF plan.gating THEN 1 .. Len(plan.presets) ELSE {0}

\* With the exit code 0 every user of every level of every repetition of every preset was served in
\* a test that passed, all plots were made and no clean-up has failed.  A repeated scale-up is not
\* what it seems: its second repetition is a simple test (scale_test_ods_ci.sh:13).
PassIsComplete ==
    pc = "done" /\ code = 0 =>
        /\ \A p \in Played : AllServed(p)
        /\ ~lostPlot
        /\ ~cleanupFailed

\* However the tests end, both clusters are cleaned up and no shell deploys anything afterwards,
\* unless a command of a clean-up failed, or the clean-ups are skipped.  A job that a shell of a
\* preparation has left may.
BothAreCleaned ==
    pc = "done" /\ ~Skips /\ ~cleanupFailed => deployed \subseteq late /\ running = {}
=============================================================================
