------------------------ MODULE NotebooksTestProofs ------------------------
(***************************************************************************)
(* What a test of the test step starts from, what is plotted, what a pass  *)
(* means and what is left of the clusters, for every plan, every threshold *)
(* and every failure the module knows.                                     *)
(***************************************************************************)
EXTENDS NotebooksTest, TLAPS

Finalizing == {"capture", "sutest", "driver", "done"}
Ending == {"kill"} \union Finalizing

\* Where the main shell is in the preparation of a preset or of a level, ...
Preparing == {"prepare", "wait", "launch"}

\* ... or in the tests of a configuration.
Testing ==
    pc \in {"repeat", "test", "batch", "level", "clean level", "plot"} \/ (pc \in Preparing /\ Nested)

\* A shell that runs is in the wait-list, which is empty after the first finalizer.
ShellsInv == running \subseteq list /\ (pc \in Finalizing => list = {})

\* Shells and jobs work on one of the two clusters.
ClustersInv == (\A s \in list : s[2] \in Clusters) /\ jobs \subseteq Clusters

DeployedInv == deployed \subseteq Clusters /\ late \subseteq deployed

\* What the clean-ups that were run have left, when they were not skipped.
CleanInv ==
    /\ cleanupFailed => pc = "done"
    /\ ~Skips =>
        /\ pc = "driver" => "sutest" \in late \/ "sutest" \notin deployed
        /\ pc = "done" /\ ~cleanupFailed => deployed \subseteq late

TypesInv ==
    /\ plan \in Plans
    /\ IsConfig(config)
    /\ preset \in 0 .. Len(plan.presets)
    /\ normal \in [runs : Nat, idx : Nat, test : BOOLEAN, plot : BOOLEAN]
    /\ scale \in [ups : Seq(Nat), at : Nat, failed : BOOLEAN]
    /\ usersIn \in Nat

\* The loops over the presets, the repetitions and the levels are nested.
StageInv ==
    /\ pc \in {"gating", "normal", "clean preset"} => normal = NoRun
    /\ pc \in {"gating", "normal", "clean preset", "repeat"} => scale = NoScale
    /\ pc \in Preparing /\ ~Nested => normal = NoRun /\ scale = NoScale /\ plan.gating
    /\ pc \in {"gating", "clean preset"} => plan.gating
    /\ pc \in Preparing \union {"clean level", "test", "batch"} => ~scale.failed
    /\ pc = "batch" => ~Nested
    /\ pc = "clean level" => Nested
    /\ Testing => normal.idx <= normal.runs /\ normal.runs = ConfigOf(preset)["repeat"]
    /\ Testing /\ pc # "repeat" => normal.idx >= 1
    /\ Testing /\ pc \notin {"repeat", "plot"} => ~normal.test
    /\ pc = "plot" /\ Nested => ~normal.test
    /\ pc = "plot" /\ ~Nested => scale = NoScale
    /\ scale.at <= Len(scale.ups)
    /\ ~plan.gating => preset = 0 /\ ~failed
    /\ plan.gating /\ pc \notin {"gating"} \union Ending => preset >= 1

\* Only a scale-up changes the configuration of its preset.
ConfigInv ==
    /\ pc \notin {"gating"} \union Ending
       /\ (\/ ConfigOf(preset)["mode"] # "scaleup"
           \/ normal.idx = 0
           \/ pc \in {"test", "batch"} /\ ~Nested /\ normal.idx = 1)
       => Same(config, ConfigOf(preset))
    /\ Nested \/ pc = "level" =>
        /\ ConfigOf(preset)["mode"] = "scaleup"
        /\ normal.idx = 1 => scale.ups = ConfigOf(preset)["ups"]
    /\ Nested /\ pc \in Preparing \union {"clean level", "test"} =>
        config["mode"] = "simple" /\ config["users"] = scale.ups[scale.at]
    /\ pc = "batch" => config["mode"] = "burst" /\ usersIn <= config["users"]

\* What a test finds: no workbench since the last clean-up, no shell since the last wait.
FreshInv ==
    /\ \/ pc = "repeat" /\ normal.idx = 0
       \/ pc = "test" /\ (Nested \/ normal.idx = 1)
       => notebooks = {} \/ unclean
    /\ running # {} => gaveUp \/ pc = "wait"

\* What was served so far, if nothing has failed.
LevelsDone == IF pc \in {"level", "plot"} THEN scale.at ELSE scale.at - 1
RunsDone == IF pc = "repeat" \/ (pc = "plot" /\ ~Nested) THEN normal.idx ELSE normal.idx - 1
PresetsDone == IF pc = "gating" THEN preset ELSE preset - 1

ServedInv ==
    /\ Testing /\ ~scale.failed =>
        \A l \in 1 .. LevelsDone : <<<<preset, normal.idx, l>>, scale.ups[l]>> \in served
    /\ Testing /\ ~normal.test /\ ~Repeated(preset) =>
        \A r \in 1 .. RunsDone : RunServed(preset, r)
    /\ plan.gating /\ pc \notin Ending /\ ~failed =>
        \A p \in 1 .. PresetsDone : AllServed(p)
    /\ pc \in Ending /\ code = 0 => \A p \in Played : AllServed(p)

\* A failure of the plots or of a clean-up is not forgotten.
FailuresInv ==
    /\ pc \notin Ending /\ lostPlot => failed \/ normal.plot \/ normal.test \/ scale.failed
    /\ pc \in Ending /\ code = 0 => ~lostPlot
    /\ cleanupFailed => code # 0

IInv == ShellsInv /\ ClustersInv /\ DeployedInv /\ CleanInv

LEMMA InitInv == Init => IInv
  BY DEF Init, IInv, ShellsInv, ClustersInv, DeployedInv, CleanInv, Finalizing

\* What the main shell does before the finalizers deploys and cleans up nothing.
LEMMA BeforeTheEnd ==
    ASSUME IInv, pc # "done", pc' \notin Finalizing, running' \subseteq list', ClustersInv',
           UNCHANGED <<deployed, late, cleanupFailed>>
    PROVE  IInv'
  BY DEF IInv, ShellsInv, DeployedInv, CleanInv, Finalizing

\* The status of prepare and of run_test decide what the main shell does next.
LEMMA Statuses ==
    ASSUME NEW ok, Prepared(ok) \/ Tested(ok)
    PROVE  pc' \notin Finalizing
  BY DEF Prepared, Tested, Finalizing

LEMMA GatingSteps ==
    ASSUME IInv, NEW result,
           \/ NextPreset \/ AbortGating \/ GatingEnds
           \/ CleanPreset(result) \/ StartTests(result) \/ CleanLevel(result)
    PROVE  IInv'
  <1>1. pc' \notin Finalizing /\ pc # "done" /\ UNCHANGED <<running, list, jobs, deployed, late, cleanupFailed>>
    BY DEF NextPreset, AbortGating, GatingEnds, CleanPreset, StartTests, CleanLevel, Finalizing,
           prep, clean
  <1> QED
    BY <1>1, BeforeTheEnd DEF IInv, ShellsInv, ClustersInv

LEMMA PrepareSteps ==
    ASSUME IInv, NEW ok, NEW s,
           SkipPrepare \/ Prepare \/ ShellsAreDone \/ Launch(ok) \/ WaitShell(s)
    PROVE  IInv'
  <1>1. pc # "done" /\ UNCHANGED <<deployed, late, cleanupFailed>>
    BY DEF SkipPrepare, Prepare, ShellsAreDone, Launch, WaitShell, clean
  <1>2. pc' \notin Finalizing
    BY Statuses DEF SkipPrepare, Prepare, ShellsAreDone, Launch, WaitShell, Finalizing
  <1>3. running' \subseteq list'
    BY DEF SkipPrepare, Prepare, ShellsAreDone, Launch, WaitShell, prep, IInv, ShellsInv
  <1>4. ClustersInv'
    <2>1. CASE Prepare
      <3>1. \A t \in list' : t \in list \/ \E c \in Clusters : t = <<prepares', c>>
        BY <2>1 DEF Prepare
      <3>2. \A t \in list' : t[2] \in Clusters
        BY <3>1 DEF IInv, ClustersInv
      <3> QED
        BY <2>1, <3>2 DEF Prepare, IInv, ClustersInv
    <2>2. CASE SkipPrepare \/ ShellsAreDone \/ Launch(ok) \/ WaitShell(s)
      BY <2>2 DEF SkipPrepare, ShellsAreDone, Launch, WaitShell, prep, IInv, ClustersInv
    <2> QED
      BY <2>1, <2>2
  <1> QED
    BY <1>1, <1>2, <1>3, <1>4, BeforeTheEnd

LEMMA TestSteps ==
    ASSUME IInv, NEW ok, NEW dir,
           \/ NextRun \/ TestsEnd \/ Plot(ok)
           \/ SimpleTest(ok, dir) \/ NotebookTest(ok)
           \/ StartBurst \/ Batch \/ BurstEnds(ok)
           \/ StartScaleup \/ NextLevel \/ ScaleupEnds
    PROVE  IInv'
  <1>1. pc # "done" /\ UNCHANGED <<running, list, jobs, deployed, late, cleanupFailed>>
    BY DEF NextRun, TestsEnd, Plot, SimpleTest, NotebookTest, StartBurst, Batch, BurstEnds,
           StartScaleup, NextLevel, ScaleupEnds, prep, clean
  <1>2. pc' \notin Finalizing
    <2>1. CASE SimpleTest(ok, dir) \/ NotebookTest(ok) \/ BurstEnds(ok)
      BY <2>1, Statuses DEF SimpleTest, NotebookTest, BurstEnds
    <2>2. CASE \/ NextRun \/ TestsEnd \/ Plot(ok) \/ StartBurst \/ Batch
               \/ StartScaleup \/ NextLevel \/ ScaleupEnds
      BY <2>2 DEF NextRun, TestsEnd, Plot, StartBurst, Batch, StartScaleup, NextLevel, ScaleupEnds,
                  Finalizing
    <2> QED
      BY <2>1, <2>2
  <1> QED
    BY <1>1, <1>2, BeforeTheEnd DEF IInv, ShellsInv, ClustersInv

\* Shells run, and so deploy, before the finalizers only.
LEMMA ShellSteps ==
    ASSUME IInv, NEW s \in running, NEW ok, ShellDeploys(s) \/ ShellEnds(s, ok)
    PROVE  IInv'
  <1>1. pc \notin Finalizing /\ pc' = pc
    BY DEF IInv, ShellsInv, ShellDeploys, ShellEnds, control
  <1>2. s[2] \in Clusters
    BY DEF IInv, ShellsInv, ClustersInv
  <1>3. CASE ShellEnds(s, ok)
    <2>1. ClustersInv' /\ running' \subseteq list' /\ UNCHANGED <<deployed, late, cleanupFailed>>
      BY <1>2, <1>3 DEF ShellEnds, clean, IInv, ShellsInv, ClustersInv
    <2> QED
      BY <1>1, <2>1, BeforeTheEnd DEF Finalizing
  <1>4. CASE ShellDeploys(s)
    BY <1>1, <1>2, <1>4 DEF ShellDeploys, prep, IInv, ShellsInv, ClustersInv, DeployedInv, CleanInv,
                            Finalizing
  <1> QED
    BY <1>3, <1>4

\* A job may deploy on a cluster that was cleaned up, which is then late.
LEMMA JobSteps ==
    ASSUME IInv, NEW c \in jobs, JobEnds(c) \/ JobDeploys(c)
    PROVE  IInv'
  <1>1. CASE JobEnds(c)
    BY <1>1 DEF JobEnds, control, clean, IInv, ShellsInv, ClustersInv, DeployedInv, CleanInv, Skips
  <1>2. CASE JobDeploys(c)
    BY <1>2 DEF JobDeploys, control, prep, IInv, ShellsInv, ClustersInv, DeployedInv, CleanInv, Skips
  <1> QED
    BY <1>1, <1>2

\* The finalizers: no shell is left after the first one, each clean-up empties its cluster.
LEMMA FinalSteps ==
    ASSUME IInv, NEW c \in Clusters, NEW ok \in BOOLEAN, KillShells \/ Capture \/ Cleanup(c, ok)
    PROVE  IInv'
  <1>1. CASE KillShells
    <2>1. running' = {} /\ list' = {}
      BY <1>1 DEF KillShells, Killed, IInv, ShellsInv
    <2>2. jobs' \subseteq Clusters
      BY <1>1 DEF KillShells, Killed, IInv, ShellsInv, ClustersInv
    <2> QED
      BY <1>1, <2>1, <2>2 DEF KillShells, clean, IInv, ShellsInv, ClustersInv, DeployedInv, CleanInv
  <1>2. CASE Capture
    BY <1>2 DEF Capture, prep, clean, IInv, ShellsInv, ClustersInv, DeployedInv, CleanInv, Finalizing
  <1>3. CASE Cleanup(c, ok)
    <2>1. ShellsInv' /\ ClustersInv'
      BY <1>3 DEF Cleanup, prep, IInv, ShellsInv, ClustersInv, Finalizing, Clusters
    <2>2. DeployedInv'
      BY <1>3 DEF Cleanup, IInv, DeployedInv
    <2>3. CleanInv'
      <3>1. CASE ~ok \/ Skips
        BY <1>3, <3>1 DEF Cleanup, CleanInv, Skips
      <3>2. CASE ok /\ ~Skips /\ c = "sutest"
        BY <1>3, <3>2 DEF Cleanup, After, CleanInv
      <3>3. CASE ok /\ ~Skips /\ c = "driver"
        BY <1>3, <3>3 DEF Cleanup, After, IInv, DeployedInv, CleanInv, Clusters
      <3> QED
        BY <3>1, <3>2, <3>3 DEF Clusters
    <2> QED
      BY <2>1, <2>2, <2>3 DEF IInv
  <1> QED
    BY <1>1, <1>2, <1>3

LEMMA StepInv == IInv /\ [Next]_vars => IInv'
  <1> SUFFICES ASSUME IInv, [Next]_vars
               PROVE  IInv'
    OBVIOUS
  <1>1. CASE UNCHANGED vars
    BY <1>1 DEF vars, control, prep, clean, IInv, ShellsInv, ClustersInv, DeployedInv, CleanInv, Skips
  <1>2. CASE Next
    <2>1. CASE NextPreset \/ AbortGating \/ GatingEnds
      BY <2>1, GatingSteps
    <2>2. CASE \E result \in Results : CleanPreset(result) \/ StartTests(result) \/ CleanLevel(result)
      BY <2>2, GatingSteps
    <2>3. CASE SkipPrepare \/ Prepare \/ ShellsAreDone \/ \E s \in list : WaitShell(s)
      BY <2>3, PrepareSteps
    <2>4. CASE \E s \in running : ShellDeploys(s) \/ \E ok \in BOOLEAN : ShellEnds(s, ok)
      BY <2>4, ShellSteps
    <2>5. CASE \E c \in jobs : JobEnds(c) \/ JobDeploys(c)
      BY <2>5, JobSteps
    <2>6. CASE NextRun \/ TestsEnd \/ StartBurst \/ Batch \/ StartScaleup \/ NextLevel \/ ScaleupEnds
      BY <2>6, TestSteps
    <2>7. CASE \E ok \in BOOLEAN : Launch(ok)
      BY <2>7, PrepareSteps
    <2>8. CASE \E ok \in BOOLEAN : \/ Plot(ok) \/ NotebookTest(ok) \/ BurstEnds(ok)
                                    \/ \E dir \in {Dir, <<>>} : SimpleTest(ok, dir)
      BY <2>8, TestSteps
    <2>9. CASE KillShells \/ Capture \/ \E ok \in BOOLEAN, c \in Clusters : Cleanup(c, ok)
      BY <2>9, FinalSteps DEF Clusters
    <2> QED
      BY <1>1, <1>2, <2>1, <2>2, <2>3, <2>4, <2>5, <2>6, <2>7, <2>8, <2>9 DEF Next, Terminated
  <1> QED
    BY <1>1, <1>2


-----------------------------------------------------------------------------
(* The types. *)

LEMMA PlansHaveConfigs ==
    ASSUME NEW p \in Plans
    PROVE  /\ p.gating \in BOOLEAN /\ Len(p.presets) \in Nat
           /\ IsConfig(p.config)
           /\ \A i \in 1 .. Len(p.presets) : IsConfig(Apply(p.presets[i], p.config))
  BY PlansAssumption

LEMMA ConfigsOfPresets ==
    ASSUME plan \in Plans, NEW p \in 0 .. Len(plan.presets)
    PROVE  IsConfig(ConfigOf(p))
  BY PlansHaveConfigs DEF ConfigOf

LEMMA TypesInit == Init => TypesInv
  BY PlansHaveConfigs DEF Init, TypesInv, NoRun, NoScale

\* A configuration with another value of one of its keys.
LEMMA SetConfig ==
    ASSUME NEW c, IsConfig(c), NEW dir
    PROVE  /\ IsConfig([c EXCEPT !["dir"] = dir])
           /\ [c EXCEPT !["dir"] = dir]["dir"] = dir
           /\ \A key \in Keys \ {"dir"} : [c EXCEPT !["dir"] = dir][key] = c[key]
  BY DEF IsConfig, Keys

\* The configuration of a level (NextLevel).
LEMMA LevelConfig ==
    ASSUME NEW c, IsConfig(c), NEW n \in Nat
    PROVE  LET d == [c EXCEPT !["users"] = n, !["mode"] = "simple"]
           IN  IsConfig(d) /\ d["users"] = n /\ d["mode"] = "simple" /\ d["dir"] = c["dir"]
  <1> DEFINE b == [c EXCEPT !["users"] = n]
             d == [c EXCEPT !["users"] = n, !["mode"] = "simple"]
  <1>1. DOMAIN d = Keys /\ DOMAIN c = Keys
    BY DEF IsConfig
  <1>2. \A key \in Keys : d[key] = IF key = "mode" THEN "simple" ELSE IF key = "users" THEN n ELSE c[key]
    BY <1>1
  <1>3. d["users"] = n /\ d["mode"] = "simple" /\ d["dir"] = c["dir"]
        /\ d["batch"] = c["batch"] /\ d["repeat"] = c["repeat"] /\ d["ups"] = c["ups"]
    BY <1>2 DEF Keys
  <1> HIDE DEF d
  <1>4. IsConfig(d)
    BY <1>1, <1>3 DEF IsConfig
  <1> QED
    BY <1>3, <1>4 DEF d

LEMMA TypesStep == TypesInv /\ [Next]_vars => TypesInv'
  <1> SUFFICES ASSUME TypesInv, [Next]_vars
               PROVE  TypesInv'
    OBVIOUS
  <1> USE DEF TypesInv, control
  <1>1. CASE NextPreset
    <2>1. preset + 1 \in 1 .. Len(plan.presets) /\ preset' = preset + 1
      BY <1>1, PlansHaveConfigs DEF NextPreset
    <2>2. IsConfig(Restored)
      BY <2>1, PlansHaveConfigs DEF Restored
    <2>3. IsConfig(config')
      BY <1>1, <2>2 DEF NextPreset
    <2> QED
      BY <1>1, <2>1, <2>3, PlansHaveConfigs DEF NextPreset
  <1>2. CASE AbortGating \/ GatingEnds \/ KillShells \/ Capture \/ ShellsAreDone \/ Prepare
    BY <1>2 DEF AbortGating, GatingEnds, KillShells, Capture, ShellsAreDone, Prepare
  <1>3. ASSUME NEW result \in Results, CleanPreset(result) \/ CleanLevel(result)
        PROVE  TypesInv'
    BY <1>3 DEF CleanPreset, CleanLevel
  <1>4. ASSUME NEW result \in Results, StartTests(result)
        PROVE  TypesInv'
    BY <1>4 DEF StartTests, NoRun, IsConfig
  <1>5. ASSUME NEW ok \in BOOLEAN, SkipPrepare \/ Launch(ok)
        PROVE  TypesInv'
    BY <1>5 DEF SkipPrepare, Launch, Prepared
  <1>6. ASSUME NEW s, NEW ok, NEW c,
               WaitShell(s) \/ ShellDeploys(s) \/ ShellEnds(s, ok) \/ JobEnds(c) \/ JobDeploys(c) \/ Cleanup(c, ok)
        PROVE  TypesInv'
    BY <1>6 DEF WaitShell, ShellDeploys, ShellEnds, JobEnds, JobDeploys, Cleanup
  <1>7. CASE NextRun
    BY <1>7 DEF NextRun, MoreRuns
  <1>8. CASE TestsEnd
    BY <1>8 DEF TestsEnd, NoRun
  <1>9. ASSUME NEW ok \in BOOLEAN, Plot(ok)
        PROVE  TypesInv'
    BY <1>9 DEF Plot
  <1>10. ASSUME NEW ok \in BOOLEAN, NEW dir, SimpleTest(ok, dir) \/ NotebookTest(ok) \/ BurstEnds(ok)
         PROVE  TypesInv'
    <2>1. PICK d : config' = [config EXCEPT !["dir"] = d]
      BY <1>10 DEF SimpleTest, NotebookTest, BurstEnds
    <2>2. IsConfig([config EXCEPT !["dir"] = d])
      BY SetConfig
    <2>3. IsConfig(config')
      BY <2>1, <2>2
    <2>4. Tested(ok) /\ UNCHANGED <<plan, preset, usersIn>>
      BY <1>10 DEF SimpleTest, NotebookTest, BurstEnds
    <2>5. scale' \in [ups : Seq(Nat), at : Nat, failed : BOOLEAN]
      <3>1. CASE Nested
        BY <2>4, <3>1 DEF Tested
      <3>2. CASE ~Nested
        BY <2>4, <3>2 DEF Tested, NoScale
      <3> QED
        BY <3>1, <3>2
    <2>6. normal' \in [runs : Nat, idx : Nat, test : BOOLEAN, plot : BOOLEAN]
      BY <2>4 DEF Tested
    <2> QED
      BY <2>3, <2>4, <2>5, <2>6
  <1>11. CASE StartBurst
    BY <1>11 DEF StartBurst
  <1>12. CASE Batch
    BY <1>12 DEF Batch, BatchSize, IsConfig
  <1>13. CASE StartScaleup
    BY <1>13 DEF StartScaleup, NoScale, IsConfig
  <1>14. CASE NextLevel
    <2>1. scale.at + 1 \in 1 .. Len(scale.ups) /\ scale'.at = scale.at + 1
      BY <1>14 DEF NextLevel, MoreLevels
    <2>2. scale.ups[scale'.at] \in Nat
      BY <2>1
    <2>3. IsConfig([config EXCEPT !["users"] = scale.ups[scale'.at], !["mode"] = "simple"])
      BY <2>2, LevelConfig
    <2>4. IsConfig(config')
      BY <1>14, <2>3 DEF NextLevel
    <2>5. scale' \in [ups : Seq(Nat), at : Nat, failed : BOOLEAN]
      <3>1. scale' = [scale EXCEPT !.at = scale.at + 1]
        BY <1>14 DEF NextLevel
      <3> QED
        BY <3>1
    <2> QED
      BY <1>14, <2>4, <2>5 DEF NextLevel
  <1>15. CASE ScaleupEnds
    <2>1. IsConfig([config EXCEPT !["dir"] = WholeDir])
      BY SetConfig
    <2>2. IsConfig(config')
      BY <1>15, <2>1 DEF ScaleupEnds
    <2>3. scale' \in [ups : Seq(Nat), at : Nat, failed : BOOLEAN]
      BY <1>15 DEF ScaleupEnds, NoScale
    <2>4. normal' \in [runs : Nat, idx : Nat, test : BOOLEAN, plot : BOOLEAN]
      BY <1>15 DEF ScaleupEnds
    <2> QED
      BY <1>15, <2>2, <2>3, <2>4 DEF ScaleupEnds
  <1>16. CASE UNCHANGED vars
    BY <1>16 DEF vars
  <1> QED
    BY <1>1, <1>2, <1>3, <1>4, <1>5, <1>6, <1>7, <1>8, <1>9, <1>10, <1>11, <1>12, <1>13, <1>14, <1>15,
       <1>16 DEF Next, Terminated


-----------------------------------------------------------------------------
(* The loops. *)

LEMMA SameConfigOf ==
    ASSUME UNCHANGED <<plan, preset>>
    PROVE  ConfigOf(preset)' = ConfigOf(preset)
  BY DEF ConfigOf

LEMMA StageInit == Init => StageInv
  <1> SUFFICES ASSUME Init
               PROVE  StageInv
    OBVIOUS
  <1>1. pc \in {"gating", "normal"} /\ (pc = "gating" <=> plan.gating) /\ normal = NoRun /\ scale = NoScale
        /\ preset = 0 /\ ~failed
    BY PlansHaveConfigs DEF Init
  <1>2. normal.idx = 0 /\ scale.at = 0 /\ ~scale.failed /\ Len(scale.ups) = 0
    BY <1>1 DEF NoRun, NoScale
  <1>3. CASE plan.gating
    BY <1>1, <1>2, <1>3 DEF StageInv, Testing, Preparing, Nested, Ending, Finalizing
  <1>4. CASE ~plan.gating
    <2>1. pc = "normal"
      BY <1>1, <1>4
    <2> QED
      BY <1>1, <1>2, <1>4, <2>1 DEF StageInv, Testing, Preparing, Nested, Ending, Finalizing
  <1> QED
    BY <1>3, <1>4

\* A step of the shells, of the finalizers, or of the deployment.
LEMMA StageStays ==
    ASSUME StageInv, UNCHANGED <<plan, preset, normal, scale, failed>>,
           pc' = pc \/ pc' \in Ending
    PROVE  StageInv'
  BY SameConfigOf DEF StageInv, Testing, Preparing, Nested, Ending, Finalizing

LEMMA StageStep ==
    ASSUME TypesInv, StageInv, ConfigInv, [Next]_vars
    PROVE  StageInv'
  <1>1. CASE NextPreset
    BY <1>1 DEF NextPreset, TypesInv, StageInv, Testing, Preparing, Nested, Ending, Finalizing, NoRun, NoScale
  <1>2. CASE AbortGating \/ GatingEnds \/ KillShells \/ Capture
    BY <1>2, StageStays DEF AbortGating, GatingEnds, KillShells, Capture, Ending, Finalizing
  <1>3. ASSUME NEW result \in Results, CleanPreset(result)
        PROVE  StageInv'
    BY <1>3 DEF CleanPreset, TypesInv, StageInv, Testing, Preparing, Nested, Ending, Finalizing, NoRun, NoScale
  <1>4. ASSUME NEW result \in Results, CleanLevel(result)
        PROVE  StageInv'
    BY <1>4, SameConfigOf DEF CleanLevel, StageInv, Testing, Preparing, Nested, Ending, Finalizing
  <1>5. ASSUME NEW ok \in BOOLEAN, SkipPrepare \/ Launch(ok)
        PROVE  StageInv'
    <2>1. Prepared(ok) \/ Prepared(TRUE)
      BY <1>5 DEF SkipPrepare, Launch
    <2>2. pc \in {"prepare", "launch"} /\ UNCHANGED <<plan, preset, normal, failed>>
      BY <1>5 DEF SkipPrepare, Launch
    <2>3. CASE ~Nested
      <3>1. pc' = "clean preset" /\ scale' = scale
        BY <2>1, <2>3 DEF Prepared
      <3>2. scale = NoScale /\ normal = NoRun /\ plan.gating
        BY <2>2, <2>3 DEF TypesInv, StageInv, Preparing
      <3> QED
        BY <2>2, <2>3, <3>1, <3>2 DEF StageInv, Testing, Preparing, Nested, Ending, Finalizing
    <2>4. CASE Nested
      <3>1. pc' \in {"clean level", "level"} /\ UNCHANGED <<scale.at, scale.ups>>
            /\ (pc' = "clean level" => ~scale'.failed)
        BY <2>1, <2>4 DEF Prepared, TypesInv
      <3> QED
        BY <2>2, <2>4, <3>1, SameConfigOf DEF StageInv, Testing, Preparing, Nested, Ending, Finalizing
    <2> QED
      BY <2>3, <2>4
  <1>6. ASSUME NEW s, Prepare \/ ShellsAreDone \/ WaitShell(s)
        PROVE  StageInv'
    <2>1. pc \in Preparing /\ pc' \in Preparing /\ UNCHANGED <<plan, preset, normal, scale, failed>>
      BY <1>6 DEF Prepare, ShellsAreDone, WaitShell, Preparing
    <2> QED
      BY <2>1, SameConfigOf DEF StageInv, Testing, Preparing, Nested, Ending, Finalizing
  <1>7. ASSUME NEW s, NEW ok, NEW c,
               ShellDeploys(s) \/ ShellEnds(s, ok) \/ JobEnds(c) \/ JobDeploys(c)
        PROVE  StageInv'
    BY <1>7, StageStays DEF ShellDeploys, ShellEnds, JobEnds, JobDeploys, control
  <1>8. ASSUME NEW c \in Clusters, NEW ok, Cleanup(c, ok)
        PROVE  StageInv'
    BY <1>8, StageStays DEF Cleanup, After, Ending, Finalizing
  <1>9. ASSUME NEW result \in Results, StartTests(result)
        PROVE  StageInv'
    <2>1. pc = "normal" /\ pc' \in {"kill", "repeat"} /\ UNCHANGED <<plan, preset, scale, failed>>
      BY <1>9 DEF StartTests
    <2>2. normal' = [NoRun EXCEPT !.runs = config["repeat"]] /\ normal = NoRun
      BY <1>9 DEF StartTests, StageInv
    <2>3. Same(config, ConfigOf(preset))
      BY <2>1, <2>2 DEF ConfigInv, Ending, Finalizing, NoRun
    <2>4. config["repeat"] = ConfigOf(preset)["repeat"] /\ config["repeat"] \in Nat
      BY <2>3 DEF Same, TypesInv, IsConfig, Keys
    <2>5. normal'.idx = 0 /\ normal'.runs = ConfigOf(preset)["repeat"] /\ normal'.runs \in Nat /\ ~normal'.test
      BY <2>2, <2>4 DEF NoRun
    <2> QED
      <3>1. CASE pc' = "repeat"
        BY <2>1, <2>5, <3>1, SameConfigOf DEF StageInv, Testing, Preparing, Nested, Ending, Finalizing
      <3>2. CASE pc' = "kill"
        BY <2>1, <2>5, <3>2 DEF StageInv, Testing, Preparing, Nested, Ending, Finalizing, NoScale
      <3> QED
        BY <2>1, <3>1, <3>2
  <1>10. CASE NextRun
    BY <1>10, SameConfigOf DEF NextRun, MoreRuns, TypesInv, StageInv, Testing, Preparing, Nested, Ending, Finalizing, NoRun, NoScale
  <1>11. CASE TestsEnd
    BY <1>11, SameConfigOf DEF TestsEnd, TypesInv, StageInv, Testing, Preparing, Nested, Ending, Finalizing, NoRun, NoScale
  <1>12. ASSUME NEW ok \in BOOLEAN, Plot(ok)
         PROVE  StageInv'
    <2>1. pc = "plot" /\ UNCHANGED <<plan, preset, failed>>
      BY <1>12 DEF Plot
    <2>2. CASE ~Nested
      <3>1. pc' = "repeat" /\ UNCHANGED <<scale, normal.idx, normal.runs>>
        BY <1>12, <2>2 DEF Plot, TypesInv
      <3> QED
        BY <2>1, <2>2, <3>1, SameConfigOf DEF StageInv, Testing, Preparing, Nested, Ending, Finalizing
    <2>3. CASE Nested
      <3>1. pc' = "level" /\ UNCHANGED <<normal, scale.at, scale.ups>>
        BY <1>12, <2>3 DEF Plot, TypesInv
      <3> QED
        BY <2>1, <2>3, <3>1, SameConfigOf DEF StageInv, Testing, Preparing, Nested, Ending, Finalizing
    <2> QED
      BY <2>2, <2>3
  <1>13. ASSUME NEW ok \in BOOLEAN, NEW dir, SimpleTest(ok, dir) \/ NotebookTest(ok) \/ BurstEnds(ok)
         PROVE  StageInv'
    <2>1. Tested(ok) /\ pc \in {"test", "batch"} /\ UNCHANGED <<plan, preset, failed>>
      BY <1>13 DEF SimpleTest, NotebookTest, BurstEnds
    <2>2. CASE ~Nested
      <3>1. pc' = "plot" /\ scale' = NoScale /\ UNCHANGED <<normal.idx, normal.runs>>
        BY <2>1, <2>2 DEF Tested, TypesInv
      <3>2. scale'.at = 0 /\ Len(scale'.ups) = 0 /\ ~scale'.failed
        BY <3>1 DEF NoScale
      <3> QED
        <4>1. Testing /\ normal.idx >= 1
          BY <2>1 DEF StageInv, Testing
        <4>2. normal'.idx <= normal'.runs /\ normal'.runs = ConfigOf(preset)'["repeat"]
          BY <2>1, <3>1, <4>1, SameConfigOf DEF StageInv
        <4>3. (~plan.gating => preset = 0 /\ ~failed) /\ (plan.gating => preset >= 1)
          BY <2>1 DEF StageInv, Ending, Finalizing
        <4>4. (pc \in {"gating", "normal", "clean preset"} => normal = NoRun)'
          BY <3>1
        <4>5. (pc \in {"gating", "normal", "clean preset", "repeat"} => scale = NoScale)'
          BY <3>1
        <4>6. (pc \in Preparing /\ ~Nested => normal = NoRun /\ scale = NoScale /\ plan.gating)'
          BY <3>1 DEF Preparing
        <4>7. (pc \in {"gating", "clean preset"} => plan.gating)'
          BY <3>1
        <4>8. (pc \in Preparing \union {"clean level", "test", "batch"} => ~scale.failed)'
          BY <3>1 DEF Preparing
        <4>9. (pc \in {"clean level"} => Nested)' /\ (pc = "plot" /\ Nested => ~normal.test)'
          BY <3>1, <3>2 DEF Nested
        <4>10. (Testing => normal.idx <= normal.runs /\ normal.runs = ConfigOf(preset)["repeat"])'
          BY <4>2
        <4>11. (Testing /\ pc # "repeat" => normal.idx >= 1)'
          BY <3>1, <4>1
        <4>12. (~plan.gating => preset = 0 /\ ~failed)' /\ (plan.gating => preset >= 1)'
          BY <2>1, <4>3
        <4>13. (scale.at <= Len(scale.ups))'
          BY <3>2
        <4> QED
          BY <3>1, <4>4, <4>5, <4>6, <4>7, <4>8, <4>9, <4>10, <4>11, <4>12, <4>13 DEF StageInv
    <2>3. CASE Nested
      <3>1. pc' = "plot" /\ UNCHANGED <<normal, scale.at, scale.ups>>
        BY <2>1, <2>3 DEF Tested, TypesInv
      <3> QED
        BY <2>1, <2>3, <3>1, SameConfigOf DEF StageInv, Testing, Preparing, Nested, Ending, Finalizing
    <2> QED
      BY <2>2, <2>3
  <1>14. CASE StartBurst
    <2>1. ~Nested
      BY <1>14 DEF StartBurst, ConfigInv
    <2> QED
      BY <1>14, <2>1, SameConfigOf DEF StartBurst, StageInv, Testing, Preparing, Nested, Ending, Finalizing
  <1>19. CASE Batch
    BY <1>19, StageStays DEF Batch
  <1>15. CASE StartScaleup
    BY <1>15, SameConfigOf DEF StartScaleup, TypesInv, StageInv, Testing, Preparing, Nested, Ending, Finalizing, NoRun, NoScale
  <1>16. CASE NextLevel
    BY <1>16, SameConfigOf DEF NextLevel, MoreLevels, TypesInv, StageInv, Testing, Preparing, Nested, Ending, Finalizing, NoRun, NoScale
  <1>17. CASE ScaleupEnds
    BY <1>17, SameConfigOf DEF ScaleupEnds, TypesInv, StageInv, Testing, Preparing, Nested, Ending, Finalizing, NoRun, NoScale
  <1>18. CASE UNCHANGED vars
    BY <1>18, StageStays DEF vars, control
  <1> QED
    BY <1>1, <1>2, <1>3, <1>4, <1>5, <1>6, <1>7, <1>8, <1>9, <1>10, <1>11, <1>12, <1>13, <1>14, <1>15,
       <1>16, <1>17, <1>18, <1>19 DEF Next, Terminated

-----------------------------------------------------------------------------
(* The configuration of a test. *)

LEMMA ConfigInit == Init => ConfigInv
  <1> SUFFICES ASSUME Init
               PROVE  ConfigInv
    OBVIOUS
  <1>1. config = ConfigOf(preset) /\ ~Nested /\ pc \in {"gating", "normal"}
    BY DEF Init, ConfigOf, Nested, NoScale
  <1> QED
    BY <1>1 DEF ConfigInv, Same, Preparing

\* Where a configuration is what it has to be.
Kept == {"prepare", "wait", "launch", "clean level", "test"}

\* A step that leaves the configuration and its use alone.
LEMMA ConfigStays ==
    ASSUME ConfigInv, UNCHANGED <<plan, preset, config, usersIn, normal.idx, scale.ups, scale.at>>,
           pc \in {"gating"} \union Ending => pc' \in {"gating"} \union Ending,
           pc' = "test" => pc = "test" \/ Nested,
           pc' = "level" => pc = "level" \/ Nested,
           pc' = "batch" => pc = "batch",
           Nested /\ pc' \in Kept => pc \in Kept
    PROVE  ConfigInv'
  <1>1. Nested' <=> Nested
    BY DEF Nested
  <1> QED
    BY <1>1, SameConfigOf DEF ConfigInv, Preparing, Kept, Same

\* The configuration of the test, but for its directory, if it is no scale-up.
LEMMA SameStays ==
    ASSUME NEW c, NEW d, NEW e, Same(c, d), IsConfig(c)
    PROVE  Same([c EXCEPT !["dir"] = e], d)
  BY SetConfig DEF Same, IsConfig

LEMMA SameKeys ==
    ASSUME NEW c, NEW d, Same(c, d), IsConfig(c)
    PROVE  c["mode"] = d["mode"] /\ c["users"] = d["users"] /\ c["repeat"] = d["repeat"] /\ c["ups"] = d["ups"]
  BY DEF Same, IsConfig, Keys

LEMMA ConfigStep ==
    ASSUME TypesInv, StageInv, ConfigInv, [Next]_vars
    PROVE  ConfigInv'
  <1>1. CASE NextPreset
    <2>1. pc' = "prepare" /\ scale' = scale /\ scale = NoScale
      BY <1>1 DEF NextPreset, StageInv
    <2>2. config' = ConfigOf(preset)'
      BY <1>1, <2>1 DEF NextPreset, Restored, ConfigOf, TypesInv
    <2> QED
      BY <2>1, <2>2 DEF ConfigInv, Nested, NoScale, Same
  <1>2. CASE AbortGating \/ GatingEnds \/ KillShells \/ Capture
    BY <1>2, ConfigStays DEF AbortGating, GatingEnds, KillShells, Capture, Ending, Finalizing, Kept
  <1>3. ASSUME NEW result \in Results, CleanPreset(result)
        PROVE  ConfigInv'
    <2>1. scale = NoScale
      BY <1>3 DEF CleanPreset, StageInv
    <2>2. ~Nested
      BY <2>1 DEF Nested, NoScale
    <2> QED
      BY <1>3, <2>2, ConfigStays DEF CleanPreset, Ending, Finalizing, Kept
  <1>4. ASSUME NEW result \in Results, CleanLevel(result)
        PROVE  ConfigInv'
    <2>1. Nested
      BY <1>4 DEF CleanLevel, StageInv
    <2> QED
      BY <1>4, <2>1, ConfigStays DEF CleanLevel, Ending, Finalizing, Kept
  <1>5. ASSUME NEW ok \in BOOLEAN, SkipPrepare \/ Launch(ok)
        PROVE  ConfigInv'
    <2>1. Prepared(ok) \/ Prepared(TRUE)
      BY <1>5 DEF SkipPrepare, Launch
    <2>2. pc \in {"prepare", "launch"} /\ UNCHANGED <<plan, preset, config, usersIn, normal>>
      BY <1>5 DEF SkipPrepare, Launch
    <2>3. UNCHANGED <<scale.ups, scale.at>> /\ pc' \in {"clean preset", "clean level", "level"}
          /\ (Nested <=> pc' # "clean preset")
      BY <2>1 DEF Prepared, TypesInv
    <2> QED
      BY <2>2, <2>3, ConfigStays DEF Kept, Ending, Finalizing
  <1>6. ASSUME NEW s, Prepare \/ ShellsAreDone \/ WaitShell(s)
        PROVE  ConfigInv'
    BY <1>6, ConfigStays DEF Prepare, ShellsAreDone, WaitShell, Kept, Ending, Finalizing
  <1>7. ASSUME NEW s, NEW ok, NEW c,
               ShellDeploys(s) \/ ShellEnds(s, ok) \/ JobEnds(c) \/ JobDeploys(c)
        PROVE  ConfigInv'
    BY <1>7, ConfigStays DEF ShellDeploys, ShellEnds, JobEnds, JobDeploys, control
  <1>8. ASSUME NEW c \in Clusters, NEW ok, Cleanup(c, ok)
        PROVE  ConfigInv'
    BY <1>8, ConfigStays DEF Cleanup, After, Clusters, Ending, Finalizing, Kept
  <1>9. ASSUME NEW result \in Results, StartTests(result)
        PROVE  ConfigInv'
    <2>1. normal = NoRun
      BY <1>9 DEF StartTests, StageInv
    <2>2. normal.idx' = normal.idx
      BY <1>9, <2>1 DEF StartTests, NoRun
    <2> QED
      BY <1>9, <2>2, ConfigStays DEF StartTests, Ending, Finalizing, Kept
  <1>10. CASE NextRun
    <2>1. ~Nested /\ ~Nested' /\ pc' = "test"
      BY <1>10 DEF NextRun, StageInv, Nested, NoScale
    <2>2. normal.idx' = normal.idx + 1
      BY <1>10 DEF NextRun, TypesInv
    <2>3. normal.idx \in Nat
      BY DEF TypesInv
    <2> QED
      BY <1>10, <2>1, <2>2, <2>3, SameConfigOf DEF NextRun, ConfigInv, Ending, Finalizing, Same
  <1>11. CASE TestsEnd
    <2>1. ~Nested /\ ~Nested'
      BY <1>11 DEF TestsEnd, StageInv, Nested, NoScale
    <2> QED
      BY <1>11, <2>1 DEF TestsEnd, ConfigInv, Ending
  <1>12. ASSUME NEW ok \in BOOLEAN, Plot(ok)
         PROVE  ConfigInv'
    <2>1. UNCHANGED <<normal.idx, scale.ups, scale.at>>
      BY <1>12 DEF Plot, TypesInv
    <2> QED
      BY <1>12, <2>1, ConfigStays DEF Plot, Ending, Finalizing, Kept
  <1>13. ASSUME NEW ok \in BOOLEAN, NEW dir, SimpleTest(ok, dir) \/ NotebookTest(ok) \/ BurstEnds(ok)
         PROVE  ConfigInv'
    <2>1. PICK d : config' = [config EXCEPT !["dir"] = d]
      BY <1>13 DEF SimpleTest, NotebookTest, BurstEnds
    <2>2. Tested(ok) /\ pc \in {"test", "batch"} /\ UNCHANGED <<plan, preset, usersIn>>
      BY <1>13 DEF SimpleTest, NotebookTest, BurstEnds
    <2>3. pc' = "plot" /\ UNCHANGED normal.idx
      BY <2>2 DEF Tested, TypesInv
    <2>4. Same(config, ConfigOf(preset)) => Same(config', ConfigOf(preset))
      BY <2>1, SameStays DEF TypesInv
    <2>5. normal.idx >= 1
      BY <2>2 DEF StageInv, Testing
    <2>6. Nested' => Nested /\ UNCHANGED scale.ups
      BY <2>2 DEF Tested, Nested, NoScale, TypesInv
    <2> QED
      BY <2>2, <2>3, <2>4, <2>5, <2>6, SameConfigOf DEF ConfigInv, Ending, Finalizing, Preparing
  <1>14. CASE StartBurst
    <2>1. ~Nested /\ config["mode"] = "burst" /\ config["users"] \in Nat
      BY <1>14 DEF StartBurst, ConfigInv, TypesInv, IsConfig
    <2> QED
      BY <1>14, <2>1, SameConfigOf DEF StartBurst, ConfigInv, Nested, Ending, Finalizing, Same
  <1>15. CASE Batch
    <2>1. usersIn' <= config["users"]
      BY <1>15 DEF Batch, BatchSize, TypesInv, IsConfig
    <2> QED
      BY <1>15, <2>1, SameConfigOf DEF Batch, ConfigInv, Nested, Preparing, Same
  <1>16. CASE StartScaleup
    <2>1. pc = "test" /\ config["mode"] = "scaleup" /\ ~Nested
      BY <1>16 DEF StartScaleup, ConfigInv
    <2>2. ConfigOf(preset)["mode"] = "scaleup"
      BY <2>1, SameKeys DEF ConfigInv, TypesInv, Ending, Finalizing
    <2>3. normal.idx = 1 => config["ups"] = ConfigOf(preset)["ups"]
      BY <2>1, SameKeys DEF ConfigInv, TypesInv, Ending, Finalizing
    <2>4. normal.idx >= 1
      BY <2>1 DEF StageInv, Testing
    <2>5. scale'.ups = config["ups"] /\ ~Nested' /\ pc' = "level"
      BY <1>16 DEF StartScaleup, NoScale, Nested
    <2> QED
      BY <1>16, <2>2, <2>3, <2>4, <2>5, SameConfigOf DEF StartScaleup, ConfigInv
  <1>17. CASE NextLevel
    <2>1. pc = "level" /\ pc' = "prepare" /\ UNCHANGED <<plan, preset, normal, usersIn>>
      BY <1>17 DEF NextLevel
    <2>2. scale' = [scale EXCEPT !.at = scale.at + 1]
          /\ config' = [config EXCEPT !["users"] = scale.ups[scale'.at], !["mode"] = "simple"]
      BY <1>17 DEF NextLevel
    <2>3. scale.at + 1 \in 1 .. Len(scale.ups)
      BY <1>17 DEF NextLevel, MoreLevels, TypesInv
    <2>4. scale'.ups = scale.ups /\ scale'.at = scale.at + 1
      BY <2>2 DEF TypesInv
    <2>5. scale.ups[scale'.at] \in Nat
      BY <2>3, <2>4 DEF TypesInv
    <2>6. config'["users"] = scale'.ups[scale'.at] /\ config'["mode"] = "simple"
      <3> DEFINE n == scale.ups[scale'.at]
      <3>1. IsConfig(config) /\ n \in Nat
        BY <2>5 DEF TypesInv
      <3> HIDE DEF n
      <3>2. LET d == [config EXCEPT !["users"] = n, !["mode"] = "simple"]
            IN  d["users"] = n /\ d["mode"] = "simple"
        BY <3>1, LevelConfig
      <3> QED
        BY <2>2, <2>4, <3>2 DEF n
    <2>7. normal.idx >= 1
      BY <2>1 DEF StageInv, Testing
    <2> QED
      BY <2>1, <2>4, <2>6, <2>7, SameConfigOf DEF ConfigInv
  <1>18. CASE ScaleupEnds
    <2>1. pc = "level" /\ pc' = "plot" /\ UNCHANGED <<plan, preset, normal.idx>> /\ scale' = NoScale
      BY <1>18 DEF ScaleupEnds, TypesInv
    <2>2. ~Nested'
      BY <2>1 DEF Nested, NoScale
    <2>3. normal.idx >= 1
      BY <2>1 DEF StageInv, Testing
    <2> QED
      BY <2>1, <2>2, <2>3, SameConfigOf DEF ConfigInv
  <1>19. CASE UNCHANGED vars
    BY <1>19, ConfigStays DEF vars, control
  <1> QED
    BY <1>1, <1>2, <1>3, <1>4, <1>5, <1>6, <1>7, <1>8, <1>9, <1>10, <1>11, <1>12, <1>13, <1>14, <1>15,
       <1>16, <1>17, <1>18, <1>19 DEF Next, Terminated

-----------------------------------------------------------------------------
(* What a test starts from, and what is plotted. *)

LEMMA FreshInit == Init => FreshInv
  BY DEF Init, FreshInv

\* A step that starts no test: the workbenches do not matter after it.
LEMMA FreshStays ==
    ASSUME FreshInv, pc' \notin {"repeat", "test"} \/ (pc' = "repeat" /\ normal.idx' >= 1),
           UNCHANGED <<running, gaveUp>>, pc # "wait" \/ pc' = "wait"
    PROVE  FreshInv'
  BY DEF FreshInv

LEMMA FreshStep ==
    ASSUME ShellsInv, TypesInv, StageInv, FreshInv, [Next]_vars
    PROVE  FreshInv'
  <1>1. CASE NextPreset \/ AbortGating \/ GatingEnds \/ TestsEnd \/ StartBurst \/ Batch \/ StartScaleup
             \/ NextLevel \/ ScaleupEnds \/ Capture
    BY <1>1, FreshStays DEF NextPreset, AbortGating, GatingEnds, TestsEnd, StartBurst, Batch, StartScaleup,
       NextLevel, ScaleupEnds, Capture, prep
  <1>2. ASSUME NEW result \in Results, CleanPreset(result)
        PROVE  FreshInv'
    BY <1>2, FreshStays DEF CleanPreset, prep
  <1>3. ASSUME NEW result \in Results, CleanLevel(result) \/ StartTests(result)
        PROVE  FreshInv'
    <2>1. notebooks' = {} \/ unclean'
      BY <1>3 DEF CleanLevel, StartTests, CleanRhods
    <2>2. UNCHANGED <<running, gaveUp>> /\ pc # "wait"
      BY <1>3 DEF CleanLevel, StartTests, prep
    <2> QED
      BY <2>1, <2>2 DEF FreshInv
  <1>4. ASSUME NEW ok \in BOOLEAN, SkipPrepare \/ Launch(ok)
        PROVE  FreshInv'
    <2>1. Prepared(ok) \/ Prepared(TRUE)
      BY <1>4 DEF SkipPrepare, Launch
    <2>2. pc' \notin {"repeat", "test"}
      BY <2>1 DEF Prepared
    <2> QED
      BY <1>4, <2>2, FreshStays DEF SkipPrepare, Launch, prep
  <1>5. CASE Prepare
    BY <1>5 DEF Prepare, FreshInv
  <1>6. CASE ShellsAreDone
    <2>1. running = {}
      BY <1>6 DEF ShellsAreDone, ShellsInv
    <2> QED
      BY <1>6, <2>1 DEF ShellsAreDone, FreshInv, prep
  <1>7. ASSUME NEW s, WaitShell(s)
        PROVE  FreshInv'
    BY <1>7 DEF WaitShell, FreshInv
  <1>8. ASSUME NEW s, NEW ok, NEW c,
               ShellDeploys(s) \/ ShellEnds(s, ok) \/ JobEnds(c) \/ JobDeploys(c)
        PROVE  FreshInv'
    <2>1. UNCHANGED <<control, rhods, gaveUp>> /\ running' \subseteq running
      BY <1>8 DEF ShellDeploys, ShellEnds, JobEnds, JobDeploys, prep
    <2> QED
      BY <2>1 DEF control, rhods, FreshInv, Nested
  <1>9. ASSUME NEW c \in Clusters, NEW ok \in BOOLEAN, Cleanup(c, ok)
        PROVE  FreshInv'
    BY <1>9, FreshStays DEF Cleanup, After, Clusters, prep
  <1>10. CASE NextRun
    <2>1. normal.idx' = normal.idx + 1 /\ ~Nested' /\ normal.idx \in Nat
      BY <1>10 DEF NextRun, TypesInv, StageInv, Nested, NoScale
    <2>2. UNCHANGED <<rhods, prep>> /\ pc = "repeat" /\ pc' = "test"
      BY <1>10 DEF NextRun
    <2> QED
      BY <2>1, <2>2 DEF FreshInv, rhods, prep
  <1>11. ASSUME NEW ok \in BOOLEAN, Plot(ok)
         PROVE  FreshInv'
    <2>1. normal.idx' >= 1
      BY <1>11 DEF Plot, TypesInv, StageInv, Testing
    <2> QED
      BY <1>11, <2>1, FreshStays DEF Plot, prep
  <1>12. ASSUME NEW ok \in BOOLEAN, NEW dir, SimpleTest(ok, dir) \/ NotebookTest(ok) \/ BurstEnds(ok)
         PROVE  FreshInv'
    BY <1>12, FreshStays DEF SimpleTest, NotebookTest, BurstEnds, Tested, prep
  <1>13. CASE KillShells
    <2>1. running' = {}
      BY <1>13 DEF KillShells, Killed, ShellsInv
    <2> QED
      BY <1>13, <2>1 DEF KillShells, FreshInv
  <1>14. CASE UNCHANGED vars
    BY <1>14 DEF vars, control, prep, rhods, FreshInv, Nested
  <1> QED
    BY <1>1, <1>2, <1>3, <1>4, <1>5, <1>6, <1>7, <1>8, <1>9, <1>10, <1>11, <1>12, <1>13, <1>14
       DEF Next, Terminated

LEMMA PlotsInit == Init => PlotsShowTheirTest
  BY DEF Init, PlotsShowTheirTest

LEMMA PlotsStep ==
    ASSUME TypesInv, PlotsShowTheirTest, [Next]_vars
    PROVE  PlotsShowTheirTest'
  <1>1. ASSUME NEW ok \in BOOLEAN, NEW dir, SimpleTest(ok, dir) \/ NotebookTest(ok) \/ BurstEnds(ok), dir \in {Dir, <<>>}
        PROVE  PlotsShowTheirTest'
    <2>1. PICK d \in {Dir, <<>>} : config' = [config EXCEPT !["dir"] = d] /\ (ok => d = Dir)
      BY <1>1 DEF SimpleTest, NotebookTest, BurstEnds
    <2>2. [config EXCEPT !["dir"] = d]["dir"] = d
      BY SetConfig DEF TypesInv
    <2>3. config'["dir"] = d
      BY <2>1, <2>2
    <2>4. Tested(ok) /\ preset' = preset
      BY <1>1 DEF SimpleTest, NotebookTest, BurstEnds
    <2>5. Dir' = Dir
      <3>1. normal.idx' = normal.idx
        BY <2>4 DEF Tested, TypesInv
      <3>2. scale.at' = scale.at
        BY <2>4 DEF Tested, TypesInv, Nested, NoScale
      <3> QED
        BY <2>4, <3>1, <3>2 DEF Dir
    <2>6. ~ok => normal'.test \/ scale'.failed
      BY <2>4 DEF Tested, TypesInv
    <2> QED
      BY <2>1, <2>3, <2>5, <2>6 DEF PlotsShowTheirTest
  <1>2. CASE ScaleupEnds
    <2>1. [config EXCEPT !["dir"] = WholeDir]["dir"] = WholeDir
      BY SetConfig DEF TypesInv
    <2>2. config'["dir"] = WholeDir
      BY <1>2, <2>1 DEF ScaleupEnds
    <2>3. Dir' = WholeDir
      BY <1>2 DEF ScaleupEnds, Dir, WholeDir, NoScale, TypesInv
    <2> QED
      BY <2>2, <2>3 DEF PlotsShowTheirTest
  <1>3. ASSUME NEW s, NEW ok, NEW c,
               \/ ShellDeploys(s) \/ ShellEnds(s, ok) \/ JobEnds(c) \/ JobDeploys(c) \/ Batch
               \/ UNCHANGED vars
        PROVE  PlotsShowTheirTest'
    BY <1>3 DEF ShellDeploys, ShellEnds, JobEnds, JobDeploys, Batch, vars, control, PlotsShowTheirTest, Dir
  <1>4. ASSUME pc' # "plot"
        PROVE  PlotsShowTheirTest'
    BY <1>4 DEF PlotsShowTheirTest
  <1>5. ASSUME NEW result, CleanPreset(result) \/ StartTests(result) \/ CleanLevel(result)
        PROVE  pc' # "plot"
    BY <1>5 DEF CleanPreset, StartTests, CleanLevel
  <1>6. ASSUME NEW ok, SkipPrepare \/ Launch(ok) \/ Plot(ok)
        PROVE  pc' # "plot"
    BY <1>6 DEF SkipPrepare, Launch, Prepared, Plot
  <1>7. ASSUME NEW s, NEW c \in Clusters, NEW ok, WaitShell(s) \/ Cleanup(c, ok)
        PROVE  pc' # "plot"
    BY <1>7 DEF WaitShell, Cleanup, After, Clusters
  <1>8. CASE \/ NextPreset \/ AbortGating \/ GatingEnds \/ Prepare \/ ShellsAreDone \/ NextRun \/ TestsEnd
             \/ StartBurst \/ StartScaleup \/ NextLevel \/ KillShells \/ Capture
    BY <1>4, <1>8 DEF NextPreset, AbortGating, GatingEnds, Prepare, ShellsAreDone, NextRun, TestsEnd,
       StartBurst, StartScaleup, NextLevel, KillShells, Capture
  <1>9. CASE \E ok \in BOOLEAN : \/ NotebookTest(ok) \/ BurstEnds(ok)
                                  \/ \E dir \in {Dir, <<>>} : SimpleTest(ok, dir)
    BY <1>1, <1>9
  <1>10. CASE \/ \E s \in running : ShellDeploys(s) \/ \E ok \in BOOLEAN : ShellEnds(s, ok)
              \/ \E c \in jobs : JobEnds(c) \/ JobDeploys(c)
    BY <1>3, <1>10
  <1>11. CASE \/ \E result \in Results : CleanPreset(result) \/ StartTests(result) \/ CleanLevel(result)
              \/ SkipPrepare
              \/ \E ok \in BOOLEAN : Launch(ok) \/ Plot(ok)
    BY <1>4, <1>5, <1>6, <1>11
  <1>12. CASE (\E s \in list : WaitShell(s)) \/ \E ok \in BOOLEAN, c \in Clusters : Cleanup(c, ok)
    BY <1>4, <1>7, <1>12 DEF Clusters
  <1> QED
    BY <1>2, <1>3, <1>8, <1>9, <1>10, <1>11, <1>12 DEF Next, Terminated

-----------------------------------------------------------------------------
(* What was served. *)

LEMMA ServedInit == Init => ServedInv
  <1> SUFFICES ASSUME Init
               PROVE  ServedInv
    OBVIOUS
  <1>1. preset = 0 /\ pc \in {"gating", "normal"}
    BY DEF Init
  <1>2. ~Testing /\ pc \notin Ending
    BY <1>1 DEF Testing, Preparing, Ending, Finalizing
  <1>3. 1 .. PresetsDone = {}
    BY <1>1 DEF PresetsDone
  <1> QED
    BY <1>2, <1>3 DEF ServedInv

\* A test that was served stays so.
LEMMA ServedStays ==
    ASSUME plan' = plan, served \subseteq served'
    PROVE  /\ \A p : Repeated(p)' = Repeated(p)
           /\ \A p, r : RunServed(p, r) => RunServed(p, r)'
           /\ \A p : AllServed(p) => AllServed(p)'
           /\ Played' = Played
  <1>1. \A p : ConfigOf(p)' = ConfigOf(p)
    BY DEF ConfigOf
  <1>2. \A p : Repeated(p)' = Repeated(p)
    BY <1>1 DEF Repeated
  <1>3. \A p, r : RunServed(p, r) => RunServed(p, r)'
    BY <1>1 DEF RunServed
  <1> QED
    BY <1>1, <1>2, <1>3 DEF AllServed, Played

\* A step from one point of a test to another, where nothing is done or forgotten.
LEMMA ServedKept ==
    ASSUME ServedInv, UNCHANGED <<plan, preset, failed, normal.idx, normal.test, scale.at, scale.ups, code>>,
           served \subseteq served', scale.failed => scale'.failed,
           pc' = pc \/ (pc \notin {"gating"} \union Ending /\ pc' \notin {"gating"} \union Ending),
           Testing' => Testing,
           Testing /\ Testing' => (scale'.failed \/ scale'.at = 0 \/ LevelsDone' = LevelsDone) /\ RunsDone' = RunsDone
    PROVE  ServedInv'
  <1>1. /\ preset' = preset /\ Repeated(preset)' = Repeated(preset)
        /\ \A r : RunServed(preset, r) => RunServed(preset, r)'
    BY ServedStays
  <1>2. (Testing /\ ~scale.failed =>
           \A l \in 1 .. LevelsDone : <<<<preset, normal.idx, l>>, scale.ups[l]>> \in served)'
    BY DEF ServedInv, LevelsDone
  <1>3. (Testing /\ ~normal.test /\ ~Repeated(preset) => \A r \in 1 .. RunsDone : RunServed(preset, r))'
    BY <1>1 DEF ServedInv
  <1>4. PresetsDone' = PresetsDone
    BY DEF PresetsDone
  <1>5. (plan.gating /\ pc \notin Ending /\ ~failed => \A p \in 1 .. PresetsDone : AllServed(p))'
    BY <1>4, ServedStays DEF ServedInv
  <1>6. (pc \in Ending /\ code = 0 => \A p \in Played : AllServed(p))'
    BY ServedStays DEF ServedInv
  <1> QED
    BY <1>2, <1>3, <1>5, <1>6 DEF ServedInv

\* A step of the end.
LEMMA ServedAtTheEnd ==
    ASSUME ServedInv, plan' = plan, served' = served, pc' \in Ending,
           code' # 0 \/ (pc \in Ending /\ code = 0) \/ (\A p \in Played : AllServed(p))
    PROVE  ServedInv'
  <1>1. ~Testing'
    BY DEF Testing, Ending, Finalizing, Preparing
  <1>2. (pc \in Ending /\ code = 0 => \A p \in Played : AllServed(p))'
    BY ServedStays DEF ServedInv
  <1> QED
    BY <1>1, <1>2 DEF ServedInv

LEMMA ServedStep ==
    ASSUME TypesInv, StageInv, ConfigInv, ServedInv, [Next]_vars
    PROVE  ServedInv'
  <1>1. CASE NextPreset
    <2>1. UNCHANGED <<plan, served, failed>> /\ pc = "gating" /\ pc' = "prepare" /\ ~Testing'
      <3>1. ~Nested'
        BY <1>1 DEF NextPreset, StageInv, Nested, NoScale
      <3> QED
        BY <1>1, <3>1 DEF NextPreset, Testing, verdict
    <2>2. PresetsDone' = PresetsDone
      BY <1>1 DEF NextPreset, PresetsDone, TypesInv
    <2> QED
      BY <2>1, <2>2, ServedStays DEF ServedInv, Ending, Finalizing
  <1>2. CASE AbortGating
    BY <1>2, ServedAtTheEnd DEF AbortGating, Ending
  <1>3. CASE GatingEnds
    <2>1. code' # 0 \/ ~failed
      BY <1>3 DEF GatingEnds
    <2>2. ~failed => \A p \in Played : AllServed(p)
      <3>1. plan.gating /\ PresetsDone = Len(plan.presets) /\ pc \notin Ending
        BY <1>3 DEF GatingEnds, StageInv, PresetsDone, Ending, Finalizing
      <3> QED
        BY <3>1 DEF ServedInv, Played
    <2> QED
      BY <1>3, <2>1, <2>2, ServedAtTheEnd DEF GatingEnds, Ending
  <1>4. CASE KillShells \/ Capture
    BY <1>4, ServedAtTheEnd DEF KillShells, Capture, verdict, Ending, Finalizing
  <1>5. ASSUME NEW c \in Clusters, NEW ok \in BOOLEAN, Cleanup(c, ok)
        PROVE  ServedInv'
    BY <1>5, ServedAtTheEnd DEF Cleanup, After, Clusters, Ending, Finalizing
  <1>6. ASSUME NEW result \in Results, CleanPreset(result)
        PROVE  ServedInv'
    <2>1. UNCHANGED <<plan, preset, served>> /\ (failed => failed') /\ ~Testing'
      BY <1>6 DEF CleanPreset, Testing, Preparing
    <2>2. CASE pc' = "kill"
      <3>1. code' = 1
        BY <1>6, <2>2 DEF CleanPreset
      <3> QED
        BY <2>1, <2>2, <3>1, ServedAtTheEnd DEF Ending
    <2>3. CASE pc' = "normal"
      <3>1. PresetsDone' = PresetsDone /\ pc \notin Ending
        BY <1>6, <2>1, <2>3 DEF CleanPreset, PresetsDone, Ending, Finalizing
      <3> QED
        BY <2>1, <2>3, <3>1, ServedStays DEF ServedInv, Ending, Finalizing
    <2>4. CASE pc' = "gating"
      <3>1. failed'
        BY <1>6, <2>4 DEF CleanPreset
      <3> QED
        BY <2>1, <2>4, <3>1 DEF ServedInv, Ending, Finalizing
    <2> QED
      BY <1>6, <2>2, <2>3, <2>4 DEF CleanPreset
  <1>7. ASSUME NEW result \in Results, CleanLevel(result)
        PROVE  ServedInv'
    BY <1>7, ServedKept DEF CleanLevel, verdict, Testing, Preparing, LevelsDone, RunsDone, Ending, Finalizing
  <1>8. ASSUME NEW ok \in BOOLEAN, SkipPrepare \/ Launch(ok)
        PROVE  ServedInv'
    <2>1. Prepared(ok) \/ Prepared(TRUE)
      BY <1>8 DEF SkipPrepare, Launch
    <2>2. pc \in Preparing /\ UNCHANGED <<plan, preset, failed, normal, served, code>>
      BY <1>8 DEF SkipPrepare, Launch, Preparing, verdict
    <2>3. UNCHANGED <<scale.at, scale.ups>> /\ (scale.failed => scale'.failed)
      BY <2>1, <2>2 DEF Prepared, TypesInv, StageInv
    <2>4. pc' \in {"clean preset", "clean level", "level"} /\ (pc' = "clean preset" <=> ~Nested)
          /\ (pc' = "level" => scale'.failed)
      BY <2>1 DEF Prepared, TypesInv
    <2> QED
      BY <2>2, <2>3, <2>4, ServedKept DEF Testing, Preparing, Nested, LevelsDone, RunsDone, Ending, Finalizing
  <1>9. ASSUME NEW s, Prepare \/ ShellsAreDone \/ WaitShell(s)
        PROVE  ServedInv'
    <2>1. pc \in Preparing /\ pc' \in Preparing
          /\ UNCHANGED <<plan, preset, failed, normal, scale, code, served>>
      BY <1>9 DEF Prepare, ShellsAreDone, WaitShell, Preparing, verdict
    <2> QED
      BY <2>1, ServedKept DEF Testing, Preparing, Nested, LevelsDone, RunsDone, Ending, Finalizing
  <1>10. ASSUME NEW s, NEW ok, NEW c,
                \/ ShellDeploys(s) \/ ShellEnds(s, ok) \/ JobEnds(c) \/ JobDeploys(c)
                \/ Batch \/ UNCHANGED vars
         PROVE  ServedInv'
    <2>1. UNCHANGED <<plan, preset, pc, failed, normal, scale, code, served>>
      BY <1>10 DEF ShellDeploys, ShellEnds, JobEnds, JobDeploys, Batch, vars, control, verdict
    <2> QED
      BY <2>1, ServedKept DEF Testing, Nested, LevelsDone, RunsDone
  <1>11. ASSUME NEW result \in Results, StartTests(result)
         PROVE  ServedInv'
    <2>1. UNCHANGED <<plan, preset, served, failed>> /\ pc = "normal" /\ normal'.idx = 0
      BY <1>11 DEF StartTests, NoRun
    <2>2. scale.at = 0 /\ scale' = scale
      BY <1>11 DEF StartTests, StageInv, NoScale
    <2>3. CASE pc' = "kill"
      <3>1. code' = 1
        BY <1>11, <2>3 DEF StartTests
      <3> QED
        BY <2>1, <2>3, <3>1, ServedAtTheEnd DEF Ending
    <2>4. CASE pc' = "repeat"
      <3>1. 1 .. LevelsDone' = {} /\ 1 .. RunsDone' = {} /\ PresetsDone' = PresetsDone
        BY <2>1, <2>2, <2>4 DEF LevelsDone, RunsDone, PresetsDone
      <3> QED
        BY <2>1, <2>4, <3>1, ServedStays DEF ServedInv, Ending, Finalizing
    <2> QED
      BY <1>11, <2>3, <2>4 DEF StartTests
  <1>12. CASE NextRun
    <2>1. UNCHANGED <<plan, preset, served, failed, scale, normal.test>> /\ pc = "repeat" /\ pc' = "test"
      BY <1>12 DEF NextRun, verdict, TypesInv
    <2>2. normal'.idx = normal.idx + 1 /\ normal.idx \in Nat
      BY <1>12 DEF NextRun, TypesInv
    <2>3. scale.at = 0
      BY <2>1 DEF StageInv, NoScale
    <2>4. 1 .. LevelsDone' = {} /\ RunsDone' = RunsDone /\ PresetsDone' = PresetsDone /\ Testing
      BY <2>1, <2>2, <2>3 DEF LevelsDone, RunsDone, PresetsDone, Testing
    <2> QED
      BY <2>1, <2>4, ServedStays DEF ServedInv, Ending, Finalizing
  <1>13. CASE TestsEnd
    <2>1. UNCHANGED <<plan, preset, served>> /\ pc = "repeat" /\ pc' = IF plan.gating THEN "gating" ELSE "kill"
      BY <1>13 DEF TestsEnd
    <2>2. ~normal.test => AllServed(preset)
      <3>1. Testing /\ RunsDone = normal.idx
        BY <2>1 DEF Testing, RunsDone
      <3>2. ~normal.test => normal.idx = ConfigOf(preset)["repeat"]
        BY <1>13, <3>1 DEF TestsEnd, MoreRuns, StageInv, TypesInv
      <3> QED
        BY <3>1, <3>2 DEF ServedInv, AllServed
    <2>3. ~Testing'
      BY <2>1 DEF Testing, Preparing
    <2>4. CASE plan.gating
      <3>1. failed \/ normal.test => failed'
        BY <1>13, <2>4 DEF TestsEnd
      <3>2. PresetsDone = preset - 1 /\ PresetsDone' = preset /\ preset \in Nat
        BY <2>1, <2>4, PlansHaveConfigs DEF PresetsDone, TypesInv
      <3>3. \A p \in 1 .. preset : p \in 1 .. (preset - 1) \/ p = preset
        BY <3>2
      <3> QED
        BY <2>1, <2>2, <2>3, <2>4, <3>1, <3>2, <3>3, ServedStays DEF ServedInv, Ending, Finalizing
    <2>5. CASE ~plan.gating
      <3>1. normal.test => code' = 1
        BY <1>13, <2>5 DEF TestsEnd
      <3>2. Played = {preset}
        BY <2>5 DEF Played, StageInv
      <3> QED
        BY <2>1, <2>2, <2>5, <3>1, <3>2, ServedAtTheEnd DEF Ending
    <2> QED
      BY <2>4, <2>5
  <1>14. ASSUME NEW ok \in BOOLEAN, Plot(ok)
         PROVE  ServedInv'
    <2>1. UNCHANGED <<plan, preset, failed, normal.idx, normal.test, scale.at, scale.ups, code, served>>
          /\ pc = "plot" /\ pc' = (IF Nested THEN "level" ELSE "repeat") /\ (scale.failed => scale'.failed)
      BY <1>14 DEF Plot, TypesInv
    <2>2. (scale.at = 0 \/ LevelsDone' = LevelsDone) /\ RunsDone' = RunsDone
      BY <2>1 DEF LevelsDone, RunsDone, Nested, TypesInv
    <2> QED
      BY <2>1, <2>2, ServedKept DEF Testing, Ending, Finalizing
  <1>15. CASE StartBurst
    <2>1. ~Nested
      BY <1>15 DEF StartBurst, ConfigInv
    <2> QED
      BY <1>15, <2>1, ServedKept DEF StartBurst, verdict, Testing, LevelsDone, RunsDone, Ending, Finalizing
  <1>16. CASE StartScaleup
    <2>1. UNCHANGED <<plan, preset, failed, normal, served, code>> /\ pc = "test" /\ pc' = "level" /\ ~scale'.failed
      BY <1>16 DEF StartScaleup, verdict, NoScale
    <2>2. 1 .. LevelsDone' = {} /\ RunsDone' = RunsDone /\ PresetsDone' = PresetsDone /\ Testing
      BY <1>16, <2>1 DEF StartScaleup, NoScale, LevelsDone, RunsDone, PresetsDone, Testing
    <2> QED
      BY <2>1, <2>2, ServedStays DEF ServedInv, Ending, Finalizing
  <1>17. CASE NextLevel
    <2>1. UNCHANGED <<plan, preset, failed, normal, served, code>> /\ pc = "level" /\ pc' = "prepare" /\ ~scale.failed
      BY <1>17 DEF NextLevel, MoreLevels, verdict
    <2>2. scale' = [scale EXCEPT !.at = scale.at + 1]
      BY <1>17 DEF NextLevel
    <2>3. scale'.at = scale.at + 1 /\ scale'.ups = scale.ups /\ scale'.failed = scale.failed
      BY <2>2 DEF TypesInv
    <2>4. LevelsDone' = LevelsDone /\ RunsDone' = RunsDone /\ PresetsDone' = PresetsDone /\ Testing
      BY <2>1, <2>3 DEF LevelsDone, RunsDone, PresetsDone, Testing, Nested, TypesInv
    <2> QED
      BY <2>1, <2>3, <2>4, ServedStays DEF ServedInv, Ending, Finalizing
  <1>18. CASE ScaleupEnds
    <2>1. UNCHANGED <<plan, preset, failed, normal.idx, served, code>> /\ pc = "level" /\ pc' = "plot"
          /\ normal'.test = scale.failed /\ scale'.at = 0
      BY <1>18 DEF ScaleupEnds, verdict, NoScale, TypesInv
    <2>2. Testing /\ Testing' /\ 1 .. LevelsDone' = {} /\ PresetsDone' = PresetsDone
          /\ RunsDone = normal.idx - 1 /\ RunsDone' = normal.idx /\ normal.idx \in Nat
      BY <2>1 DEF LevelsDone, RunsDone, PresetsDone, Testing, Nested, TypesInv
    <2>3. ~scale.failed /\ ~Repeated(preset) => RunServed(preset, normal.idx)
      <3> SUFFICES ASSUME ~scale.failed, ~Repeated(preset)
                   PROVE  RunServed(preset, normal.idx)
        OBVIOUS
      <3>1. ConfigOf(preset)["mode"] = "scaleup" /\ normal.idx <= ConfigOf(preset)["repeat"] /\ normal.idx >= 1
            /\ ConfigOf(preset)["repeat"] \in Nat
        BY <2>1, <2>2 DEF ConfigInv, StageInv, TypesInv
      <3>2. normal.idx = 1
        BY <2>2, <3>1 DEF Repeated
      <3>3. scale.ups = ConfigOf(preset)["ups"] /\ scale.at = Len(scale.ups)
        BY <1>18, <2>1, <3>2 DEF ScaleupEnds, MoreLevels, ConfigInv, StageInv, TypesInv
      <3> QED
        BY <2>1, <2>2, <3>1, <3>3 DEF ServedInv, LevelsDone, RunServed
    <2>4. \A r \in 1 .. normal.idx : r \in 1 .. (normal.idx - 1) \/ r = normal.idx
      BY <2>2
    <2>5. StageInv => ~normal.test
      BY <2>1, <2>2 DEF StageInv
    <2> QED
      BY <2>1, <2>2, <2>3, <2>4, <2>5, ServedStays DEF ServedInv, Ending, Finalizing
  <1>19. ASSUME NEW ok \in BOOLEAN, NEW dir, SimpleTest(ok, dir) \/ NotebookTest(ok) \/ BurstEnds(ok)
         PROVE  ServedInv'
    <2>1. Tested(ok) /\ pc \in {"test", "batch"} /\ UNCHANGED <<plan, preset, failed, code>>
      BY <1>19 DEF SimpleTest, NotebookTest, BurstEnds
    <2>2. served \subseteq served' /\ (ok => <<Dir, config["users"]>> \in served')
      <3>1. pc = "batch" /\ ~(usersIn < config["users"]) => usersIn = config["users"]
        BY DEF ConfigInv, TypesInv, IsConfig
      <3>2. BurstEnds(ok) /\ ok => usersIn = config["users"]
        BY <3>1 DEF BurstEnds, ConfigInv, TypesInv, IsConfig
      <3> QED
        BY <1>19, <3>2 DEF SimpleTest, NotebookTest, BurstEnds, Serve
    <2>3. Testing /\ pc' = "plot" /\ Testing' /\ UNCHANGED normal.idx /\ scale.at' = scale.at /\ ~normal.test
      <3>1. Testing /\ ~normal.test
        BY <2>1 DEF Testing, StageInv
      <3>2. pc' = "plot" /\ UNCHANGED normal.idx /\ Testing'
        BY <2>1 DEF Tested, TypesInv, Testing
      <3>3. scale.at' = scale.at
        BY <2>1 DEF Tested, TypesInv, Nested, NoScale
      <3> QED
        BY <3>1, <3>2, <3>3
    <2>4. PresetsDone' = PresetsDone /\ normal.idx \in Nat /\ normal.idx >= 1
      BY <2>1, <2>3 DEF PresetsDone, StageInv, TypesInv
    <2>5. CASE Nested
      <3>1. normal' = normal /\ scale'.ups = scale.ups /\ scale'.failed = ~ok
        BY <2>1, <2>5 DEF Tested, TypesInv, StageInv
      <3>2. RunsDone' = RunsDone /\ LevelsDone' = scale.at /\ LevelsDone = scale.at - 1 /\ scale.at \in Nat
        BY <2>1, <2>3, <2>5, <3>1 DEF RunsDone, LevelsDone, Nested, TypesInv
      <3>3. ok => <<<<preset, normal.idx, scale.at>>, scale.ups[scale.at]>> \in served'
        BY <2>1, <2>2, <2>5 DEF Dir, ConfigInv, StageInv
      <3>4. \A l \in 1 .. scale.at : l \in 1 .. (scale.at - 1) \/ l = scale.at
        BY <3>2
      <3>5. (Testing /\ ~scale.failed =>
               \A l \in 1 .. LevelsDone : <<<<preset, normal.idx, l>>, scale.ups[l]>> \in served)'
        BY <2>1, <2>2, <2>3, <3>1, <3>2, <3>3, <3>4 DEF ServedInv, StageInv
      <3>6. (Testing /\ ~normal.test /\ ~Repeated(preset) => \A r \in 1 .. RunsDone : RunServed(preset, r))'
        BY <2>1, <2>2, <2>3, <3>1, <3>2, ServedStays DEF ServedInv
      <3> QED
        BY <2>1, <2>2, <2>3, <2>4, <3>5, <3>6, ServedStays DEF ServedInv, Ending, Finalizing
    <2>6. CASE ~Nested
      <3>1. normal'.test = ~ok /\ scale' = NoScale
        BY <2>1, <2>6 DEF Tested, TypesInv
      <3>2. 1 .. LevelsDone' = {} /\ RunsDone' = normal.idx /\ RunsDone = normal.idx - 1
        BY <2>1, <2>3, <2>6, <3>1 DEF LevelsDone, RunsDone, Nested, NoScale
      <3>3. ok /\ ~Repeated(preset) => RunServed(preset, normal.idx)'
        <4> SUFFICES ASSUME ok, ~Repeated(preset)
                     PROVE  RunServed(preset, normal.idx)'
          OBVIOUS
        <4>1. ConfigOf(preset)["mode"] # "scaleup"
          <5> SUFFICES ASSUME ConfigOf(preset)["mode"] = "scaleup"
                       PROVE  FALSE
            OBVIOUS
          <5>1. normal.idx <= ConfigOf(preset)["repeat"] /\ ConfigOf(preset)["repeat"] \in Nat
            BY <2>3 DEF StageInv, TypesInv
          <5>2. normal.idx = 1
            BY <2>4, <5>1 DEF Repeated
          <5>3. Same(config, ConfigOf(preset))
            BY <2>1, <2>6, <5>2 DEF ConfigInv, Ending, Finalizing
          <5>4. config["mode"] = "scaleup"
            BY <5>3, SameKeys DEF TypesInv
          <5> QED
            BY <1>19, <5>4 DEF SimpleTest, NotebookTest, BurstEnds, ConfigInv
        <4>2. config["users"] = ConfigOf(preset)["users"]
          BY <2>1, <4>1, SameKeys DEF ConfigInv, TypesInv, Ending, Finalizing
        <4>3. scale.at = 0
          BY <2>6 DEF Nested, TypesInv
        <4>4. <<<<preset, normal.idx, 0>>, ConfigOf(preset)["users"]>> \in served'
          BY <2>2, <4>2, <4>3 DEF Dir
        <4> QED
          BY <2>1, <2>3, <4>1, <4>4, SameConfigOf DEF RunServed
      <3>4. \A r \in 1 .. normal.idx : r \in 1 .. (normal.idx - 1) \/ r = normal.idx
        BY <2>4
      <3>5. (Testing /\ ~normal.test /\ ~Repeated(preset) => \A r \in 1 .. RunsDone : RunServed(preset, r))'
        BY <2>1, <2>2, <2>3, <3>1, <3>2, <3>3, <3>4, ServedStays DEF ServedInv
      <3> QED
        BY <2>1, <2>2, <2>3, <2>4, <3>2, <3>5, ServedStays DEF ServedInv, Ending, Finalizing
    <2> QED
      BY <2>5, <2>6
  <1> QED
    BY <1>1, <1>2, <1>3, <1>4, <1>5, <1>6, <1>7, <1>8, <1>9, <1>10, <1>11, <1>12, <1>13, <1>14, <1>15,
       <1>16, <1>17, <1>18, <1>19 DEF Next, Terminated

-----------------------------------------------------------------------------
(* The failures. *)

LEMMA FailuresInit == Init => FailuresInv
  BY DEF Init, FailuresInv

\* A failure that was seen is still seen after the step.
LEMMA FailuresStay ==
    ASSUME FailuresInv, lostPlot' = lostPlot, cleanupFailed' = cleanupFailed,
           code' = code \/ code' = 1,
           pc \in Ending => pc' \in Ending,
           failed \/ normal.plot \/ normal.test \/ scale.failed =>
               IF pc' \in Ending THEN pc \in Ending \/ code' = 1
               ELSE failed' \/ normal'.plot \/ normal'.test \/ scale'.failed
    PROVE  FailuresInv'
  BY DEF FailuresInv

LEMMA FailuresStep ==
    ASSUME TypesInv, StageInv, CleanInv, FailuresInv, [Next]_vars
    PROVE  FailuresInv'
  <1>1. ASSUME NEW s, NEW ok, NEW c,
               \/ NextPreset \/ Prepare \/ ShellsAreDone \/ WaitShell(s) \/ StartBurst \/ Batch
               \/ ShellDeploys(s) \/ ShellEnds(s, ok) \/ JobEnds(c) \/ JobDeploys(c)
        PROVE  FailuresInv'
    <2>1. UNCHANGED <<failed, normal, scale, verdict, cleanupFailed>> /\ (pc' = pc \/ pc' \notin Ending)
          /\ (pc \in Ending => pc' = pc)
      BY <1>1 DEF NextPreset, Prepare, ShellsAreDone, WaitShell, StartBurst, Batch, ShellDeploys, ShellEnds,
         JobEnds, JobDeploys, clean, control, Ending, Finalizing
    <2> QED
      BY <2>1, FailuresStay DEF verdict
  <1>2. CASE AbortGating
    BY <1>2, FailuresStay DEF AbortGating, clean, Ending
  <1>3. CASE GatingEnds
    <2>1. normal = NoRun /\ scale = NoScale /\ ~cleanupFailed /\ pc \notin Ending
      BY <1>3 DEF GatingEnds, StageInv, CleanInv, Ending, Finalizing
    <2>2. lostPlot => failed
      BY <2>1 DEF FailuresInv, NoRun, NoScale
    <2> QED
      BY <1>3, <2>1, <2>2 DEF GatingEnds, FailuresInv, clean, Ending
  <1>4. CASE KillShells \/ Capture
    BY <1>4, FailuresStay DEF KillShells, Capture, verdict, clean, Ending, Finalizing
  <1>5. ASSUME NEW c \in Clusters, NEW ok \in BOOLEAN, Cleanup(c, ok)
        PROVE  FailuresInv'
    <2>1. pc \in Ending /\ pc' \in Ending /\ lostPlot' = lostPlot
          /\ cleanupFailed' = ~ok /\ code' = IF ok THEN code ELSE 1
      BY <1>5 DEF Cleanup, After, Clusters, Ending, Finalizing
    <2>2. (code' = 0 => code = 0) /\ (cleanupFailed' => code' # 0)
      <3>1. CASE ok
        BY <2>1, <3>1
      <3>2. CASE ~ok
        BY <2>1, <3>2
      <3> QED
        BY <3>1, <3>2
    <2> QED
      BY <2>1, <2>2 DEF FailuresInv
  <1>6. ASSUME NEW result \in Results, CleanPreset(result)
        PROVE  FailuresInv'
    <2>1. /\ pc \notin Ending /\ UNCHANGED <<normal, scale, lostPlot, cleanupFailed>> /\ (failed => failed')
          /\ code' = (IF result = "failed" THEN 1 ELSE code) /\ (pc' \in Ending => result = "failed")
      BY <1>6 DEF CleanPreset, clean, Ending, Finalizing
    <2> QED
      BY <2>1, FailuresStay
  <1>7. ASSUME NEW result \in Results, CleanLevel(result)
        PROVE  FailuresInv'
    BY <1>7, FailuresStay DEF CleanLevel, verdict, clean, Ending, Finalizing
  <1>8. ASSUME NEW ok \in BOOLEAN, SkipPrepare \/ Launch(ok)
        PROVE  FailuresInv'
    <2>1. Prepared(ok) \/ Prepared(TRUE)
      BY <1>8 DEF SkipPrepare, Launch
    <2>2. pc \in Preparing /\ UNCHANGED <<failed, normal, verdict, cleanupFailed>>
      BY <1>8 DEF SkipPrepare, Launch, Preparing, clean
    <2>3. pc' \notin Ending /\ pc \notin Ending /\ ~scale.failed
      BY <2>1, <2>2 DEF Prepared, StageInv, Preparing, Ending, Finalizing
    <2> QED
      BY <2>2, <2>3, FailuresStay DEF verdict
  <1>9. ASSUME NEW result \in Results, StartTests(result)
        PROVE  FailuresInv'
    <2>1. normal = NoRun /\ scale' = scale /\ scale = NoScale /\ failed' = failed /\ pc \notin Ending
          /\ UNCHANGED <<lostPlot, cleanupFailed>>
      BY <1>9 DEF StartTests, StageInv, clean, Ending, Finalizing
    <2>2. code' = code \/ code' = 1
      BY <1>9 DEF StartTests
    <2>3. pc' \in Ending => code' = 1
      BY <1>9 DEF StartTests, Ending, Finalizing
    <2>4. ~normal.plot /\ ~normal.test /\ ~scale.failed
      BY <2>1 DEF NoRun, NoScale
    <2> QED
      BY <2>1, <2>2, <2>3, <2>4, FailuresStay
  <1>10. CASE NextRun
    <2>1. UNCHANGED <<failed, normal.plot, normal.test, scale, verdict, cleanupFailed>>
          /\ pc \notin Ending /\ pc' \notin Ending
      BY <1>10 DEF NextRun, clean, TypesInv, Ending, Finalizing
    <2> QED
      BY <2>1, FailuresStay DEF verdict
  <1>11. CASE TestsEnd
    <2>1. pc = "repeat" /\ UNCHANGED <<lostPlot, cleanupFailed>> /\ pc' = IF plan.gating THEN "gating" ELSE "kill"
      BY <1>11 DEF TestsEnd, clean
    <2>2. pc \notin Ending /\ ~scale.failed
      BY <2>1 DEF StageInv, Ending, Finalizing, NoScale
    <2>3. CASE plan.gating
      <3>1. code' = code /\ (failed \/ normal.test \/ normal.plot => failed')
        BY <1>11, <2>3 DEF TestsEnd
      <3> QED
        BY <2>1, <2>2, <2>3, <3>1, FailuresStay DEF Ending, Finalizing
    <2>4. CASE ~plan.gating
      <3>1. ~failed /\ (code' = code \/ code' = 1) /\ (normal.test \/ normal.plot => code' = 1)
        BY <1>11, <2>4 DEF TestsEnd, StageInv
      <3> QED
        BY <2>1, <2>2, <2>4, <3>1, FailuresStay DEF Ending
    <2> QED
      BY <2>3, <2>4
  <1>12. ASSUME NEW ok \in BOOLEAN, Plot(ok)
         PROVE  FailuresInv'
    <2>1. pc \notin Ending /\ pc' \notin Ending /\ UNCHANGED <<failed, code, cleanupFailed>>
      BY <1>12 DEF Plot, clean, Ending, Finalizing
    <2>2. lostPlot' => lostPlot \/ ~ok
      BY <1>12 DEF Plot
    <2>3. normal.plot \/ normal.test \/ scale.failed \/ ~ok => normal'.plot \/ normal'.test \/ scale'.failed
      <3>1. CASE Nested
        BY <1>12, <3>1 DEF Plot, TypesInv
      <3>2. CASE ~Nested
        BY <1>12, <3>2 DEF Plot, TypesInv
      <3> QED
        BY <3>1, <3>2
    <2> QED
      BY <2>1, <2>2, <2>3 DEF FailuresInv
  <1>13. ASSUME NEW ok \in BOOLEAN, NEW dir, SimpleTest(ok, dir) \/ NotebookTest(ok) \/ BurstEnds(ok)
         PROVE  FailuresInv'
    <2>1. Tested(ok) /\ pc \in {"test", "batch"} /\ UNCHANGED <<failed, code, lostPlot, cleanupFailed>>
      BY <1>13 DEF SimpleTest, NotebookTest, BurstEnds, clean
    <2>2. pc \notin Ending /\ ~scale.failed /\ ~normal.test
      BY <2>1 DEF StageInv, Testing, Ending, Finalizing
    <2>3. pc' \notin Ending /\ normal'.plot = normal.plot
      BY <2>1 DEF Tested, TypesInv, Ending, Finalizing
    <2> QED
      BY <2>1, <2>2, <2>3, FailuresStay
  <1>14. CASE StartScaleup
    <2>1. UNCHANGED <<failed, normal, verdict, cleanupFailed>> /\ pc = "test" /\ pc' = "level"
      BY <1>14 DEF StartScaleup, clean
    <2>2. ~scale.failed
      BY <2>1 DEF StageInv
    <2> QED
      BY <2>1, <2>2, FailuresStay DEF verdict, Ending, Finalizing
  <1>15. CASE NextLevel
    <2>1. UNCHANGED <<failed, normal, verdict, cleanupFailed>> /\ pc = "level" /\ pc' = "prepare" /\ ~scale.failed
      BY <1>15 DEF NextLevel, MoreLevels, clean
    <2> QED
      BY <2>1, FailuresStay DEF verdict, Ending, Finalizing
  <1>16. CASE ScaleupEnds
    <2>1. UNCHANGED <<failed, verdict, cleanupFailed, normal.plot>> /\ pc = "level" /\ pc' = "plot"
          /\ normal'.test = scale.failed
      BY <1>16 DEF ScaleupEnds, clean, TypesInv
    <2>2. ~normal.test
      BY <2>1 DEF StageInv, Testing
    <2> QED
      BY <2>1, <2>2, FailuresStay DEF verdict, Ending, Finalizing
  <1>17. CASE UNCHANGED vars
    BY <1>17, FailuresStay DEF vars, control, clean, verdict
  <1> QED
    BY <1>1, <1>2, <1>3, <1>4, <1>5, <1>6, <1>7, <1>8, <1>9, <1>10, <1>11, <1>12, <1>13, <1>14, <1>15,
       <1>16, <1>17 DEF Next, Terminated

-----------------------------------------------------------------------------
(* The theorems. *)

\* The whole invariant.
TestInv ==
    /\ IInv /\ TypesInv /\ StageInv /\ ConfigInv /\ FreshInv /\ PlotsShowTheirTest
    /\ ServedInv /\ FailuresInv

LEMMA InvariantHolds == Spec => []TestInv
  <1>1. Init => TestInv
    BY InitInv, TypesInit, StageInit, ConfigInit, FreshInit, PlotsInit, ServedInit, FailuresInit DEF TestInv
  <1>2. TestInv /\ [Next]_vars => TestInv'
    BY StepInv, TypesStep, StageStep, ConfigStep, FreshStep, PlotsStep, ServedStep, FailuresStep
       DEF TestInv, IInv
  <1> QED
    BY <1>1, <1>2, PTL DEF Spec

\* Every test of every plan starts with the configuration of its preset and of its level, with no
\* workbench of an earlier test unless RHODS could not be cleaned, and with no shell of a preparation
\* behind it unless one has failed (scale_test_run_tests.sh:72, scale_test_ods_ci.sh:13,
\* process_ctrl.sh:45).
THEOREM TestsStartFromScratch == Spec => []TestStartsFresh
  <1>1. TestInv => TestStartsFresh
    BY DEF TestInv, StageInv, ConfigInv, FreshInv, TestStartsFresh, Preparing, Ending, Finalizing
  <1> QED
    BY InvariantHolds, <1>1, PTL

\* The plots are those of the test before them, or of the whole scale-up, unless that test failed
\* before it had a directory: the key matbench.test_directory is set again before each of them.
THEOREM PlotsAreOfTheirTest == Spec => []PlotsShowTheirTest
  <1>1. TestInv => PlotsShowTheirTest
    BY DEF TestInv
  <1> QED
    BY InvariantHolds, <1>1, PTL

\* A passing run of any plan has served every user of every repetition of every preset, lost no plot
\* and left no failed clean-up, whatever the order of the failures.
THEOREM PassesAreComplete == Spec => []PassIsComplete
  <1>1. TestInv => PassIsComplete
    BY DEF TestInv, ServedInv, FailuresInv, PassIsComplete, Ending, Finalizing
  <1> QED
    BY InvariantHolds, <1>1, PTL

\* However the tests end, both clusters are cleaned up and no shell is left, unless a command of
\* the clean-ups failed or they are skipped; a job left by a shell may deploy afterwards
\* (process_ctrl.sh:61, prepare_sutest.sh:304, prepare_driver.sh:96).
THEOREM BothClustersAreCleaned == Spec => []BothAreCleaned
  <1>1. IInv => BothAreCleaned
    BY DEF IInv, ShellsInv, CleanInv, BothAreCleaned, Finalizing
  <1> QED
    BY InitInv, StepInv, <1>1, PTL DEF Spec
=============================================================================
