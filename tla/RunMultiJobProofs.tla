-------------------------- MODULE RunMultiJobProofs --------------------------
(***************************************************************************)
(* What the play may conclude from a run, for any finite number of Pods    *)
(* and every failure the module knows.                                     *)
(***************************************************************************)
EXTENDS RunMultiJob, TLAPS

\* The barrier opens with every Pod there, and a test starts behind it.
BarrierInv ==
  /\ decision = "go" => arrived = Pods
  /\ Redis => \A p \in Pods : main[p] = "test" \/ result[p] # "none"
                              => arrived = Pods

\* Nothing runs before the Job, and the Job comes after the bucket is ready.
PhaseInv ==
  /\ driver \in {"prepare", "create"} => job = "absent"
  /\ job = "absent" => driver \in {"prepare", "create", "fail"}
  /\ job \in {"absent", "created"} =>
       \A p \in Pods : main[p] = "pending" /\ sidecar[p] = "off"
  /\ driver \in {"wait", "retrieve", "check", "count", "pass"}
       => job \in {"active", "complete", "failed"}

\* The files of a Pod follow its main container.
FilesInv ==
  /\ \A p \in Pods : main[p] \in {"pending", "setup", "barrier", "test"}
       => result[p] = "none" /\ exitFile[p] = "none" /\ code[p] = "none"
  /\ \A p \in Pods : exitFile[p] = "0" => result[p] = "ok"
  /\ \A p \in Pods : doneFile[p] => main[p] = "done"

\* A Pod ends in success only after its test, if failures abort the run; if
\* they do not, and safe_exit is there, it ends in failure only without an
\* outcome.
SuccessInv ==
  /\ \A p \in Pods : main[p] \in {"leaving", "done"} => code[p] # "none"
  /\ Redis /\ ~ AbortOnFailure =>
       \A p \in Pods :
         /\ code[p] # "127"
         /\ code[p] = "1" => exitFile[p] = "none"
  /\ AbortOnFailure => \A p \in Pods : code[p] = "0" => result[p] = "ok"
  /\ job = "complete" => \A p \in Pods : main[p] = "done" /\ code[p] = "0"

\* What the play knows of the Job once it looked at it.
DriverInv ==
  /\ driver \in {"retrieve", "check"} /\ ~ gaveUp
       => job \in {"complete", "failed"}
  /\ driver \in {"count", "pass"} /\ ~ gaveUp /\ ~ unread
       => job = "complete"
  /\ driver = "pass" => \E p \in Pods : local[p] = "0"

\* Once the bucket was emptied, there are the results of this run only in it,
\* and in what the play takes from it.
BucketInv ==
  /\ emptied => driver # "prepare"
  /\ driver = "prepare" => \A p \in Pods : local[p] = "none"
  /\ emptied => \A p \in Pods : bucket[p] = "0" => result[p] = "ok"
  /\ CountIsSound

IInv ==
  /\ TypeOK
  /\ BarrierInv
  /\ PhaseInv
  /\ FilesInv
  /\ ExportIsFinal
  /\ SuccessInv
  /\ DriverInv
  /\ BucketInv

-----------------------------------------------------------------------------
LEMMA InitIInv == Init => IInv
<1> SUFFICES ASSUME Init
             PROVE  IInv
  OBVIOUS
<1> USE DEF Init, Barrier!Init
<1>1. TypeOK
  <2>1. /\ doneFile \in [Pods -> BOOLEAN]
        /\ gaveUp \in BOOLEAN /\ unread \in BOOLEAN /\ emptied \in BOOLEAN
    OBVIOUS
  <2>2. bucket \in [Pods -> {"none", "0", "1"}]
    OBVIOUS
  <2>3. old \subseteq Pods
    OBVIOUS
  <2>4. QED BY <2>1, <2>2, <2>3 DEF TypeOK, Running, DriverStates
<1>2. BarrierInv /\ PhaseInv /\ FilesInv
  BY DEF BarrierInv, PhaseInv, FilesInv
<1>3. ExportIsFinal /\ SuccessInv /\ DriverInv
  BY DEF ExportIsFinal,
               SuccessInv, DriverInv
<1>4. BucketInv
  BY DEF BucketInv, CountIsSound
<1>5. QED BY <1>1, <1>2, <1>3, <1>4 DEF IInv

\* The main container writes its exit code and its files, then ends.
LEMMA MainStepIInv ==
  ASSUME IInv, NEW p \in Pods,
         \/ ScriptFails(p) \/ ReachBarrier(p) \/ SkipBarrier(p)
         \/ BarrierUnreachable(p) \/ PassBarrier(p) \/ TestSucceeds(p)
         \/ TestFails(p)
  PROVE  IInv'
<1> USE JobAssumption DEF IInv, Running, Redis, AbortOnFailure, Retrieve
<1> USE DEF ScriptFails, ReachBarrier, SkipBarrier, BarrierUnreachable,
        PassBarrier, TestSucceeds, TestFails, SafeExit, Leaving,
        Barrier!Arrive, Barrier!Leave, barrierVars, driverVars, given, podVars
<1>1. TypeOK'
  BY DEF TypeOK
<1>2. BarrierInv'
  BY DEF TypeOK, BarrierInv
<1>3. PhaseInv'
  BY DEF TypeOK, PhaseInv
<1>4. FilesInv'
  BY DEF TypeOK, FilesInv
<1>5. ExportIsFinal'
  BY DEF TypeOK, ExportIsFinal
<1>6. SuccessInv'
  BY DEF TypeOK, SuccessInv, FilesInv
<1>7. DriverInv'
  BY DEF DriverInv
<1>8. BucketInv'
  BY DEF TypeOK, BucketInv, FilesInv, CountIsSound
<1>9. QED BY <1>1, <1>2, <1>3, <1>4, <1>5, <1>6, <1>7, <1>8

\* A container starts, ends, is killed or removed.
LEMMA ContainerStepIInv ==
  ASSUME IInv, NEW p \in Pods,
         \/ StartPod(p) \/ ExitMain(p) \/ KillMain(p) \/ TerminateMain(p)
         \/ RemovePod(p)
  PROVE  IInv'
<1> USE JobAssumption DEF IInv, Running, Redis, AbortOnFailure, Retrieve
<1> USE DEF StartPod, ExitMain, KillMain, TerminateMain, RemovePod,
        barrierVars, driverVars, given
<1>1. TypeOK'
  <2>1. main' \in [Pods -> {"pending", "done"} \cup Running]
    BY DEF TypeOK
  <2>2. code' \in [Pods -> {"none", "0", "1", "127", "killed"}]
    BY DEF TypeOK
  <2>3. doneFile' \in [Pods -> BOOLEAN]
    BY DEF TypeOK
  <2>4. sidecar' \in [Pods -> {"off", "waiting", "done", "failed"}]
    BY DEF TypeOK
  <2>5. QED BY <2>1, <2>2, <2>3, <2>4 DEF TypeOK
<1>2. BarrierInv'
  BY DEF TypeOK, BarrierInv
<1>3. PhaseInv'
  BY DEF TypeOK, PhaseInv, PodOver
<1>4. FilesInv'
  BY DEF TypeOK, FilesInv, PodOver
<1>5. ExportIsFinal'
  BY DEF TypeOK, ExportIsFinal, PodOver
<1>6. SuccessInv'
  BY DEF TypeOK, SuccessInv, PodOver
<1>7. DriverInv'
  BY DEF DriverInv
<1>8. BucketInv'
  BY DEF TypeOK, BucketInv, CountIsSound
<1>9. QED BY <1>1, <1>2, <1>3, <1>4, <1>5, <1>6, <1>7, <1>8

\* A sidecar reads the files of its Pod and writes to the bucket.
LEMMA SidecarStepIInv ==
  ASSUME IInv, NEW p \in Pods, Export(p) \/ ExportFails(p)
  PROVE  IInv'
<1> USE DEF IInv, Redis, AbortOnFailure, Export, ExportFails, barrierVars,
        podVars, driverVars, given
<1>1. TypeOK'
  BY DEF TypeOK
<1>2. BarrierInv' /\ PhaseInv' /\ FilesInv' /\ SuccessInv' /\ DriverInv'
  BY DEF TypeOK, BarrierInv, PhaseInv, FilesInv, SuccessInv, DriverInv
<1>3. ExportIsFinal'
  BY DEF TypeOK, ExportIsFinal, FilesInv
<1>4. BucketInv'
  BY DEF TypeOK, BucketInv, CountIsSound, FilesInv
<1>5. QED BY <1>1, <1>2, <1>3, <1>4

\* The Job controller and the barrier touch no container and no file.
LEMMA ControlStepIInv ==
  ASSUME IInv, Decide \/ StartJob \/ JobCompletes \/ JobFails \/ Deadline
  PROVE  IInv'
<1> USE DEF IInv, Redis, AbortOnFailure, Decide, StartJob, JobCompletes,
        JobFails, Deadline, Running,
        Barrier!Go, Barrier!Abort, barrierVars, podVars, driverVars, given, Verdicts
<1>1. TypeOK'
  BY DEF TypeOK
<1>2. BarrierInv'
  BY DEF TypeOK, BarrierInv
<1>3. PhaseInv' /\ FilesInv' /\ ExportIsFinal'
  BY DEF TypeOK, PhaseInv, FilesInv, ExportIsFinal
<1>4. SuccessInv'
  BY DEF TypeOK, SuccessInv, PodOver, PodFailed
<1>5. DriverInv' /\ BucketInv'
  BY DEF TypeOK, DriverInv, BucketInv, CountIsSound
<1>6. QED BY <1>1, <1>2, <1>3, <1>4, <1>5

\* A Pod of an earlier Job touches the bucket only, which is then no longer
\* that of this run.
LEMMA OldPodIInv ==
  ASSUME IInv, NEW p \in Pods, OldPodExports(p)
  PROVE  IInv'
<1> USE DEF IInv, Redis, AbortOnFailure, OldPodExports, barrierVars, podVars
<1>1. TypeOK'
  BY DEF TypeOK
<1>2. BarrierInv' /\ PhaseInv' /\ FilesInv' /\ SuccessInv' /\ DriverInv'
  BY DEF BarrierInv, PhaseInv, FilesInv, SuccessInv, DriverInv, PodOver
<1>3. ExportIsFinal'
  BY DEF TypeOK, ExportIsFinal
<1>4. BucketInv'
  BY DEF BucketInv, CountIsSound
<1>5. QED BY <1>1, <1>2, <1>3, <1>4

\* The tasks of the play.
LEMMA DriverStepIInv ==
  ASSUME IInv, DriverStep
  PROVE  IInv'
<1> USE JobAssumption DEF IInv, Redis, AbortOnFailure, Retrieve, DriverStep,
        EmptyBucket, CreateJob, SeeStart,
        TaskFails, SeeEnd, GiveUp, RetrieveArtifacts, TestCrash, TestCount,
        barrierVars, podVars, driverVars, given
<1>1. TypeOK'
  <2>1. /\ driver' \in DriverStates
       /\ job' \in {"absent", "created", "active", "complete", "failed"}
    BY DEF TypeOK, DriverStates
  <2>2. gaveUp' \in BOOLEAN /\ unread' \in BOOLEAN /\ emptied' \in BOOLEAN
    BY DEF TypeOK
  <2>3. bucket' \in [Pods -> {"none", "0", "1"}]
    BY DEF TypeOK
  <2>4. local' \in [Pods -> {"none", "0", "1"}]
    BY DEF TypeOK
  <2>5. QED BY <2>1, <2>2, <2>3, <2>4 DEF TypeOK
<1>2. BarrierInv' /\ FilesInv'
  BY DEF TypeOK, BarrierInv, FilesInv
<1>3. PhaseInv'
  BY DEF TypeOK, PhaseInv
<1>4. ExportIsFinal'
  BY DEF TypeOK, PhaseInv, ExportIsFinal
<1>5. SuccessInv'
  BY DEF TypeOK, SuccessInv, PhaseInv
<1>6. DriverInv'
  BY DEF TypeOK, DriverInv, PhaseInv
<1>7. BucketInv'
  <2>1. CASE EmptyBucket
    BY <2>1 DEF TypeOK, BucketInv, CountIsSound
  <2>2. CASE UNCHANGED <<bucket, emptied, result>>
    BY <2>2 DEF BucketInv, CountIsSound
  <2>3. QED BY <2>1, <2>2
<1>8. QED BY <1>1, <1>2, <1>3, <1>4, <1>5, <1>6, <1>7

LEMMA NextIInv == IInv /\ [Next]_vars => IInv'
<1> SUFFICES ASSUME IInv, [Next]_vars
             PROVE  IInv'
  OBVIOUS
<1>1. CASE UNCHANGED vars
  BY <1>1 DEF vars, Redis, AbortOnFailure, barrierVars, podVars, driverVars, given,
              IInv, TypeOK, BarrierInv, PhaseInv, FilesInv, ExportIsFinal,
              SuccessInv, DriverInv, BucketInv, CountIsSound
<1>2. ASSUME NEW p \in Pods, PodStep(p)
      PROVE  IInv'
  BY <1>2, MainStepIInv, ContainerStepIInv, SidecarStepIInv DEF PodStep
<1>3. CASE JobStep
  BY <1>3, ControlStepIInv, ContainerStepIInv, OldPodIInv DEF JobStep
<1>4. QED
  BY <1>1, <1>2, <1>3, ControlStepIInv, DriverStepIInv DEF Next

LEMMA Invariance == Spec => []IInv
<1>1. QED BY InitIInv, NextIInv, PTL DEF Spec

-----------------------------------------------------------------------------
\* The state of the Pods, of the Job and of the play stays in its type.
THEOREM TypeCorrect == Spec => []TypeOK
<1>1. IInv => TypeOK
  BY DEF IInv
<1>2. QED BY <1>1, Invariance, PTL

\* With a Redis server no test starts before every Pod is ready.
THEOREM NoEarlyTest == Spec => []TestsStartTogether
<1>1. IInv => TestsStartTogether
  BY DEF IInv, BarrierInv, TestsStartTogether
<1>2. QED BY <1>1, Invariance, PTL

\* The sidecar copies the artifacts of a container that has ended.
THEOREM ExportsAreFinal == Spec => []ExportIsFinal
<1>1. IInv => ExportIsFinal
  BY DEF IInv
<1>2. QED BY <1>1, Invariance, PTL

\* If the bucket was emptied, the play counts successes of this run only.
THEOREM CountsAreSound == Spec => []CountIsSound
<1>1. IInv => CountIsSound
  BY DEF IInv, BucketInv
<1>2. QED BY <1>1, Invariance, PTL

\* A play that passes after the bucket was emptied had a success in this run;
\* one that waited for its Job and read how it ended passes on a complete Job
\* only, and without a failure that should have aborted it.
THEOREM PassesAreEarned == Spec => []PassIsEarned
<1>1. IInv => PassIsEarned
  BY DEF IInv, DriverInv, SuccessInv, BucketInv, CountIsSound,
           PassIsEarned
<1>2. QED BY <1>1, Invariance, PTL

\* An active Job with safe_exit and without abort_on_failure fails for a Pod
\* whose script failed before it wrote an outcome, that lost a container or
\* could not export, or by its deadline: never for failed tests.
THEOREM TestsFailAlone == Spec => FailuresStayLocal
<1>1. ASSUME IInv, Redis, ~ AbortOnFailure, NEW p \in Pods, PodFailed(p)
      PROVE  /\ PodOver(p)
             /\ \/ sidecar[p] = "failed"
                \/ code[p] = "killed"
                \/ code[p] = "1" /\ exitFile[p] = "none"
  <2>1. PodOver(p) /\ main[p] = "done" /\ (code[p] # "0" \/ sidecar[p] = "failed")
    BY <1>1 DEF PodFailed, PodOver
  <2>2. code[p] \in {"none", "0", "1", "127", "killed"}
    BY <1>1 DEF IInv, TypeOK
  <2>3. code[p] # "none" /\ code[p] # "127"
    BY <1>1, <2>1 DEF IInv, SuccessInv
  <2>4. code[p] = "1" => exitFile[p] = "none"
    BY <1>1 DEF IInv, SuccessInv
  <2>5. QED BY <2>1, <2>2, <2>3, <2>4
<1>2. ASSUME [Next]_vars, job = "active", job' = "failed"
      PROVE  JobFails \/ Deadline
  BY <1>2 DEF Next, vars, PodStep, JobStep, DriverStep, StartPod, ScriptFails, ReachBarrier, SkipBarrier,
              BarrierUnreachable, PassBarrier, TestSucceeds, TestFails, ExitMain, KillMain, Export,
              ExportFails, TerminateMain, RemovePod, OldPodExports, Decide, StartJob, JobCompletes,
              EmptyBucket, CreateJob, SeeStart, TaskFails, SeeEnd, GiveUp, RetrieveArtifacts,
              TestCrash, TestCount
<1>3. IInv /\ [Next]_vars =>
        [Redis /\ ~ AbortOnFailure /\ job = "active" /\ job' = "failed" =>
           \/ \E p \in Pods : /\ PodOver(p)
                             /\ \/ sidecar[p] = "failed"
                                \/ code[p] = "killed"
                                \/ code[p] = "1" /\ exitFile[p] = "none"
           \/ driver \in {"retrieve", "check", "count"} \cup Verdicts]_vars
  BY <1>1, <1>2 DEF JobFails, Deadline
<1>4. QED BY <1>3, Invariance, PTL DEF Spec, FailuresStayLocal

==============================================================================
