-------------------------- MODULE OdsCiScaleTestProofs --------------------------
(***************************************************************************)
(* What a play of the ODS-CI scale test may conclude, and what may end its *)
(* Job, for any finite number of users and every failure the module knows. *)
(***************************************************************************)
EXTENDS OdsCiScaleTest, TLAPS

\* Nothing runs before the Job, which comes after the bucket was emptied.
PhaseInv ==
  /\ driver \in {"prepare", "create"} => job = "absent"
  /\ job = "absent" => driver \in {"prepare", "create", "fail"}
  /\ job = "created" => driver \in {"start", "fail"}
  /\ job \in {"absent", "created"} =>
       \A p \in Pods : main[p] = "pending" /\ sidecar[p] = "off"
  /\ driver = "prepare" => \A p \in Pods : local[p] = "none"

\* The code, the result, the file and the sidecar of a Pod follow its main container: the file is
\* written once.
FilesInv ==
  /\ \A p \in Pods : main[p] \in {"pending", "setup", "barrier", "test"}
       => result[p] = "none" /\ exitFile[p] = "none" /\ code[p] = "none"
  /\ \A p \in Pods : main[p] = "leaving" => code[p] \in {"0", "1"}
  /\ \A p \in Pods : main[p] = "done" => code[p] # "none"
  /\ \A p \in Pods : code[p] = "1" => p \in broken
  /\ \A p \in Pods : exitFile[p] = "0" <=> result[p] = "ok"
  /\ \A p \in Pods : main[p] = "pending" => sidecar[p] = "off"
  /\ \A p \in Pods : main[p] # "pending" /\ sidecar[p] = "off" => code[p] = "killed"

\* After it was emptied the bucket has what the sidecars of this run put there.
BucketInv ==
  emptied =>
    /\ driver # "prepare"
    /\ \A p \in Pods : bucket[p] # "none" => sidecar[p] = "done" /\ bucket[p] = exitFile[p]
    /\ \A p \in Pods : sidecar[p] = "done" /\ options.collected
                       => bucket[p] = exitFile[p] /\ exitFile[p] # "none"

\* A complete Job has nothing left that could change.
CompleteInv ==
  job = "complete" => \A p \in Pods : main[p] = "done" /\ code[p] = "0" /\ sidecar[p] = "done"

\* What the play knows of the Job once it has looked at it.
DriverInv ==
  /\ driver \in {"stop notebooks", "retrieve", "check", "count", "pass"} /\ ~ gaveUp
       => job \in {"complete", "failed"}
  /\ driver \in {"count", "pass"} /\ ~ gaveUp /\ ~ unread => job = "complete"
  /\ driver = "pass" => \E p \in Pods : local[p] = "0"

\* What the play has copied is what the bucket had, and still has when the Job is complete.
CopyInv ==
  /\ \A p \in Pods : local[p] = "0" => options.collected /\ (emptied => result[p] = "ok")
  /\ driver \in {"check", "count", "pass"} /\ ~ gaveUp /\ job = "complete" /\ copied /\ options.collected
       => \A p \in Pods : local[p] = bucket[p]

IInv ==
  TypeOK /\ PhaseInv /\ FilesInv /\ BucketInv /\ CompleteInv /\ DriverInv /\ CopyInv

-----------------------------------------------------------------------------
LEMMA InitIInv == Init => IInv
<1> SUFFICES ASSUME Init
             PROVE  IInv
  OBVIOUS
<1> USE OdsCiAssumption DEF Init, Barrier!Init
<1>1. TypeOK
  <2>1. bucket \in [Pods -> {"none", "empty", "0", "1"}]
    OBVIOUS
  <2>2. old \subseteq Pods
    OBVIOUS
  <2>3. QED BY <2>1, <2>2 DEF TypeOK, Running, Tasks
<1>2. PhaseInv /\ FilesInv /\ BucketInv
  BY DEF PhaseInv, FilesInv, BucketInv
<1>3. CompleteInv /\ DriverInv /\ CopyInv
  BY DEF CompleteInv, DriverInv, CopyInv
<1>4. QED BY <1>1, <1>2, <1>3 DEF IInv

\* The script of a main container writes its file, then ends.
LEMMA ScriptIInv ==
  ASSUME IInv, NEW p \in Pods,
         \/ ScriptFails(p) \/ ReachBarrier(p) \/ WaitOnSpot(p) \/ BarrierUnreachable(p)
         \/ PassBarrier(p) \/ (\E r \in {"ok", "ko"} : TestEnds(p, r)) \/ ExitMain(p)
  PROVE  IInv'
<1> USE DEF IInv
<1>1. UNCHANGED <<sidecar, bucket, job, driver, gaveUp, unread, emptied, local, copied, options, old>>
  BY DEF ScriptFails, ReachBarrier, WaitOnSpot, BarrierUnreachable, PassBarrier, TestEnds, ExitMain,
         driverVars, given
<1>2. /\ main \in [Pods -> {"pending", "done"} \cup Running]
      /\ exitFile \in [Pods -> {"none", "empty", "0", "1"}]
      /\ result \in [Pods -> {"none", "ok", "ko"}]
  BY DEF TypeOK
<1>3. \A q \in Pods : exitFile[q] # "none" => exitFile'[q] = exitFile[q]
  BY <1>2 DEF FilesInv, ScriptFails, ReachBarrier, WaitOnSpot, BarrierUnreachable, PassBarrier, TestEnds,
              ExitMain, BarrierFailed, Leaving, Touched
<1>4. \A q \in Pods : result[q] = "ok" => result'[q] = "ok"
  BY <1>2 DEF FilesInv, ScriptFails, ReachBarrier, WaitOnSpot, BarrierUnreachable, PassBarrier, TestEnds,
              ExitMain
<1>5. TypeOK' /\ PhaseInv' /\ FilesInv' /\ CompleteInv'
  <2> USE DEF Running, ScriptFails, ReachBarrier, WaitOnSpot, BarrierUnreachable, PassBarrier, TestEnds,
              ExitMain, BarrierFailed, Leaving, ExitCode, Touched, Barrier!Arrive, Barrier!Leave,
              barrierVars, driverVars, given
  <2>1. TypeOK'
    <3>1. main' \in [Pods -> {"pending", "done"} \cup Running]
      BY DEF TypeOK
    <3>2. code' \in [Pods -> {"none", "0", "1", "killed"}] /\ broken' \subseteq Pods
      BY DEF TypeOK
    <3>3. result' \in [Pods -> {"none", "ok", "ko"}]
      BY DEF TypeOK
    <3>4. exitFile' \in [Pods -> {"none", "empty", "0", "1"}]
      BY DEF TypeOK
    <3>5. arrived' \subseteq Pods /\ verdict' \in [Pods -> {"none", "go", "abort"}] /\ decision' = decision
      BY DEF TypeOK
    <3> HIDE DEF ScriptFails, ReachBarrier, WaitOnSpot, BarrierUnreachable, PassBarrier, TestEnds, ExitMain
    <3>6. QED BY <1>1, <3>1, <3>2, <3>3, <3>4, <3>5 DEF TypeOK
  <2>2. PhaseInv'
    BY DEF TypeOK, PhaseInv
  <2>3. FilesInv'
    <3>1. CASE ScriptFails(p)
      <4>1. /\ main[p] \in {"setup", "test", "leaving"}
            /\ main' = [main EXCEPT ![p] = "leaving"] /\ code' = [code EXCEPT ![p] = "1"]
            /\ broken' = broken \cup {p} /\ UNCHANGED <<result, sidecar>>
        BY <3>1
      <4>2. exitFile' = exitFile
        BY <3>1 DEF TypeOK, FilesInv
      <4>3. main \in [Pods -> {"pending", "done"} \cup Running]
            /\ code \in [Pods -> {"none", "0", "1", "killed"}]
        BY DEF TypeOK
      <4> HIDE DEF ScriptFails, Running
      <4>4. QED BY <4>1, <4>2, <4>3 DEF FilesInv
    <3>2. CASE PassBarrier(p) \/ BarrierUnreachable(p) \/ ReachBarrier(p) \/ WaitOnSpot(p)
      BY <3>2 DEF TypeOK, FilesInv
    <3>3. CASE (\E r \in {"ok", "ko"} : TestEnds(p, r)) \/ ExitMain(p)
      BY <3>3 DEF TypeOK, FilesInv
    <3>4. QED BY <3>1, <3>2, <3>3
  <2>4. CompleteInv'
    BY DEF TypeOK, CompleteInv
  <2>5. QED BY <2>1, <2>2, <2>3, <2>4
<1>6. BucketInv'
  BY <1>1, <1>3 DEF BucketInv
<1>7. DriverInv'
  BY <1>1 DEF DriverInv
<1>8. CopyInv'
  BY <1>1, <1>4 DEF CopyInv
<1>9. QED BY <1>5, <1>6, <1>7, <1>8

\* A Pod starts, loses its main container, or is removed.
LEMMA PodIInv ==
  ASSUME IInv, NEW p \in Pods, StartPod(p) \/ KillMain(p) \/ RemovePod(p)
  PROVE  IInv'
<1> USE DEF IInv
<1>1. UNCHANGED <<result, exitFile, broken, bucket, job, driver, gaveUp, unread, emptied, local, copied, options, old>>
  BY DEF StartPod, KillMain, RemovePod, podVars, driverVars, given
<1>2. sidecar \in [Pods -> {"off", "waiting", "done", "failed"}]
  BY DEF TypeOK
<1>3. /\ \A q \in Pods : sidecar[q] = "done" => sidecar'[q] = "done"
      /\ options.collected => \A q \in Pods : sidecar'[q] = "done" => sidecar[q] = "done"
  BY <1>2 DEF PhaseInv, FilesInv, BucketInv, StartPod, KillMain, RemovePod, PodOver
<1>4. TypeOK' /\ PhaseInv' /\ FilesInv' /\ CompleteInv'
  <2> USE DEF Running, StartPod, KillMain, RemovePod, barrierVars, driverVars, given
  <2>1. TypeOK'
    BY DEF TypeOK
  <2>2. PhaseInv'
    BY DEF TypeOK, PhaseInv, PodOver
  <2>3. FilesInv'
    BY DEF TypeOK, FilesInv, PodOver
  <2>4. CompleteInv'
    BY DEF TypeOK, CompleteInv, PodOver
  <2>5. QED BY <2>1, <2>2, <2>3, <2>4
<1>5. BucketInv'
  BY <1>1, <1>3 DEF BucketInv
<1>6. DriverInv'
  BY <1>1 DEF DriverInv
<1>7. CopyInv'
  BY <1>1 DEF CopyInv
<1>8. QED BY <1>4, <1>5, <1>6, <1>7

\* A sidecar copies the file of its Pod, which does not change any more, to the bucket.
LEMMA SidecarIInv ==
  ASSUME IInv, NEW p \in Pods, Export(p) \/ ExportFails(p)
  PROVE  IInv'
<1> USE DEF IInv
<1>1. UNCHANGED <<main, code, result, exitFile, broken, job, driver, gaveUp, unread, emptied, local, copied, options, old>>
  BY DEF Export, ExportFails, podVars, driverVars, given
<1>2. /\ sidecar[p] = "waiting" /\ exitFile[p] # "none"
      /\ \/ sidecar' = [sidecar EXCEPT ![p] = "done"] /\ bucket' = [bucket EXCEPT ![p] = exitFile[p]]
         \/ sidecar' = [sidecar EXCEPT ![p] = "failed"] /\ bucket' = bucket
  BY DEF Export, ExportFails
<1>3. /\ sidecar \in [Pods -> {"off", "waiting", "done", "failed"}]
      /\ bucket \in [Pods -> {"none", "empty", "0", "1"}]
  BY DEF TypeOK
<1>4. TypeOK' /\ PhaseInv' /\ FilesInv' /\ CompleteInv'
  <2> USE DEF Running, Export, ExportFails, barrierVars, podVars, driverVars, given
  <2>1. TypeOK'
    BY DEF TypeOK
  <2>2. PhaseInv' /\ FilesInv'
    BY DEF TypeOK, PhaseInv, FilesInv
  <2>3. CompleteInv'
    BY DEF TypeOK, CompleteInv
  <2>4. QED BY <2>1, <2>2, <2>3
<1>5. BucketInv'
  BY <1>1, <1>2, <1>3 DEF BucketInv
<1>6. DriverInv'
  BY <1>1 DEF DriverInv
<1>7. CopyInv'
  BY <1>1, <1>2 DEF CopyInv, CompleteInv
<1>8. QED BY <1>4, <1>5, <1>6, <1>7

\* A Pod of an earlier play writes to the bucket, which is then no longer that of this play; it
\* finds no Pod to do this to in a complete Job.
LEMMA OldPodIInv ==
  ASSUME IInv, NEW p \in Pods, OldPodExports(p)
  PROVE  IInv'
<1> USE DEF IInv, Running, OldPodExports, barrierVars, podVars
<1>1. TypeOK'
  BY DEF TypeOK
<1>2. PhaseInv' /\ FilesInv' /\ BucketInv'
  BY DEF PhaseInv, FilesInv, BucketInv
<1>3. CompleteInv'
  BY DEF CompleteInv
<1>4. DriverInv' /\ CopyInv'
  BY DEF TypeOK, DriverInv, CopyInv, CompleteInv
<1>5. QED BY <1>1, <1>2, <1>3, <1>4

\* The barrier and the Job controller touch no container and no file.
LEMMA ControllerIInv ==
  ASSUME IInv, Decide \/ StartJob \/ JobCompletes \/ JobFails \/ Deadline
  PROVE  IInv'
<1> USE DEF IInv
<1>1. UNCHANGED <<main, code, result, exitFile, broken, sidecar, bucket, driver, gaveUp, unread, emptied, local, copied,
                  options, old>>
  BY DEF Decide, StartJob, JobCompletes, JobFails, Deadline, podVars, driverVars, given
<1>2. job' = job \/ job \in {"created", "active"}
  BY DEF Decide, StartJob, JobCompletes, JobFails, Deadline
<1>3. TypeOK' /\ PhaseInv' /\ FilesInv' /\ BucketInv' /\ CompleteInv'
  <2> USE DEF Running, Decide, StartJob, JobCompletes, JobFails, Deadline, Barrier!Go, Barrier!Abort,
              barrierVars, podVars, driverVars, given
  <2>1. TypeOK'
    BY DEF TypeOK
  <2>2. PhaseInv' /\ FilesInv' /\ BucketInv'
    BY DEF TypeOK, PhaseInv, FilesInv, BucketInv
  <2>3. CompleteInv'
    BY DEF TypeOK, CompleteInv, FilesInv, PodOver, PodFailed
  <2>4. QED BY <2>1, <2>2, <2>3
<1>4. DriverInv'
  BY <1>1, <1>2 DEF DriverInv
<1>5. CopyInv'
  BY <1>1, <1>2 DEF CopyInv, DriverInv
<1>6. QED BY <1>3, <1>4, <1>5

\* The tasks of the play.
LEMMA PlayIInv ==
  ASSUME IInv, PlayStep
  PROVE  IInv'
<1> USE DEF IInv, Running, PlayStep, TaskFails, EmptyBucket, CreateJob, SeeStart, StopWaiting, StopNotebooks,
            Retrieve, TestCrash, Conclude, barrierVars, podVars, driverVars, given
<1>1. TypeOK'
  <2>1. bucket' \in [Pods -> {"none", "empty", "0", "1"}]
    BY DEF TypeOK
  <2>2. local' \in [Pods -> {"none", "empty", "0", "1"}]
    BY DEF TypeOK
  <2>3. driver' \in Tasks \cup Verdicts
    BY DEF TypeOK, Tasks, Verdicts
  <2>4. gaveUp' \in BOOLEAN
    <3>1. gaveUp' = gaveUp \/ gaveUp' = (job = "active")
      OBVIOUS
    <3>2. QED BY <3>1 DEF TypeOK
  <2>5. unread' \in BOOLEAN /\ emptied' \in BOOLEAN /\ copied' \in BOOLEAN
    <3>1. emptied' = emptied \/ emptied' = TRUE
      OBVIOUS
    <3>2. copied' = copied \/ \E there \in SUBSET Pods : copied' = (there = Pods)
      OBVIOUS
    <3>3. unread' = unread \/ unread' = TRUE
      OBVIOUS
    <3>4. QED BY <3>1, <3>2, <3>3 DEF TypeOK
  <2>6. job' \in {"absent", "created", "active", "complete", "failed"}
    BY DEF TypeOK
  <2>7. UNCHANGED <<arrived, decision, verdict, main, code, result, exitFile, broken, sidecar, options, old>>
    OBVIOUS
  <2> HIDE DEF PlayStep
  <2>8. QED BY <2>1, <2>2, <2>3, <2>4, <2>5, <2>6, <2>7 DEF TypeOK
<1>2. PhaseInv'
  BY DEF PhaseInv
<1>3. FilesInv'
  BY DEF FilesInv
<1>4. BucketInv'
  BY DEF BucketInv, PhaseInv
<1>5. CompleteInv'
  BY DEF CompleteInv
<1>6. DriverInv'
  <2>1. CASE EmptyBucket \/ TaskFails \/ CreateJob \/ SeeStart
    BY <2>1 DEF DriverInv
  <2>2. CASE StopWaiting
    BY <2>2 DEF TypeOK, DriverInv, PhaseInv
  <2>3. CASE StopNotebooks \/ (\E there \in SUBSET Pods : Retrieve(there)) \/ TestCrash
    BY <2>3 DEF DriverInv
  <2>4. CASE Conclude
    BY <2>4 DEF DriverInv, Successes
  <2>5. QED BY <2>1, <2>2, <2>3, <2>4
<1>7. CopyInv'
  <2>1. CASE EmptyBucket
    BY <2>1 DEF TypeOK, CopyInv, PhaseInv
  <2>2. CASE \E there \in SUBSET Pods : Retrieve(there)
    BY <2>2 DEF TypeOK, CopyInv, BucketInv, FilesInv
  <2>3. CASE UNCHANGED <<bucket, emptied, local, copied>>
    BY <2>3 DEF CopyInv
  <2>4. QED BY <2>1, <2>2, <2>3
<1>8. QED BY <1>1, <1>2, <1>3, <1>4, <1>5, <1>6, <1>7

LEMMA NextIInv == IInv /\ [Next]_vars => IInv'
<1> SUFFICES ASSUME IInv, [Next]_vars
             PROVE  IInv'
  OBVIOUS
<1>1. CASE UNCHANGED vars
  <2> USE <1>1 DEF vars, barrierVars, podVars, driverVars, given, IInv
  <2>1. TypeOK'
    BY DEF TypeOK, Running
  <2>2. PhaseInv' /\ FilesInv'
    BY DEF PhaseInv, FilesInv
  <2>3. BucketInv' /\ CompleteInv'
    BY DEF BucketInv, CompleteInv
  <2>4. DriverInv'
    BY DEF DriverInv
  <2>5. CopyInv'
    BY DEF CopyInv
  <2>6. QED BY <2>1, <2>2, <2>3, <2>4, <2>5
<1>2. ASSUME NEW p \in Pods, PodStep(p)
      PROVE  IInv'
  BY <1>2, ScriptIInv, PodIInv, SidecarIInv DEF PodStep
<1>3. ASSUME NEW p \in Pods, KillMain(p) \/ RemovePod(p) \/ OldPodExports(p)
      PROVE  IInv'
  BY <1>3, PodIInv, OldPodIInv
<1>4. QED BY <1>1, <1>2, <1>3, PlayIInv, ControllerIInv DEF Next

LEMMA Invariance == Spec => []IInv
<1>1. QED BY InitIInv, NextIInv, PTL DEF Spec

-----------------------------------------------------------------------------
\* The state of the Pods, of the Job and of the play stays in its type.
THEOREM TypeCorrect == Spec => []TypeOK
<1>1. IInv => TypeOK
  BY DEF IInv
<1>2. QED BY <1>1, Invariance, PTL

\* A passing play counts successes of this run only, if the bucket was emptied; on a Job in which
\* every Pod has come to its end, if it did not give up and could read how the Job ended; and then
\* all of them, if its copy did not fail.
THEOREM CountsAreExact == Spec => []CountIsExact
<1>1. IInv => CountIsExact
  <2> SUFFICES ASSUME IInv, driver = "pass"
               PROVE  CountIsExact
    BY DEF CountIsExact
  <2> USE DEF IInv
  <2>1. emptied => \A p \in Successes : result[p] = "ok"
    BY DEF CopyInv, Successes
  <2>2. ~ gaveUp /\ ~ unread => job = "complete" /\ \A p \in Pods : code[p] = "0"
    BY DEF DriverInv, CompleteInv
  <2>3. ASSUME ~ gaveUp, ~ unread, emptied, copied, NEW p \in Pods, result[p] = "ok"
        PROVE  p \in Successes
    <3>1. options.collected
      BY DEF DriverInv, CopyInv
    <3>2. local[p] = bucket[p]
      BY <2>3, <3>1 DEF DriverInv, CopyInv
    <3>3. bucket[p] = exitFile[p]
      BY <2>2, <2>3, <3>1 DEF BucketInv, CompleteInv
    <3>4. QED BY <2>3, <3>2, <3>3 DEF FilesInv, Successes
  <2>4. QED BY <2>1, <2>2, <2>3 DEF CountIsExact
<1>2. QED BY <1>1, Invariance, PTL

\* A Job that was active fails by its deadline, or for a Pod whose script had a command fail,
\* that lost a container or could not upload: never for a failed test or a barrier that gave up.
THEOREM TestsFailAlone == Spec => FailuresStayLocal
<1> DEFINE Infrastructure(p) ==
             PodOver(p) /\ (\/ sidecar[p] = "failed" \/ code[p] = "killed"
                            \/ p \in broken)
<1>1. ASSUME IInv, NEW p \in Pods, PodFailed(p)
      PROVE  Infrastructure(p)
  BY <1>1 DEF IInv, TypeOK, FilesInv, PodFailed, PodOver
<1>2. ASSUME [Next]_vars, job = "active", job' = "failed"
      PROVE  JobFails \/ Deadline
  BY <1>2 DEF Next, vars, PodStep, PlayStep, StartPod, ScriptFails, ReachBarrier, WaitOnSpot,
              BarrierUnreachable, PassBarrier, TestEnds, ExitMain, Export, ExportFails, KillMain,
              RemovePod, OldPodExports, Decide, StartJob, JobCompletes, TaskFails, EmptyBucket,
              CreateJob, SeeStart, StopWaiting, StopNotebooks, Retrieve, TestCrash, Conclude
<1>3. IInv /\ [Next]_vars =>
        [job = "active" /\ job' = "failed" =>
           \/ Unwatched /\ ~ \E p \in Pods : PodFailed(p)
           \/ \E p \in Pods : /\ PodOver(p)
                              /\ \/ sidecar[p] = "failed"
                                 \/ code[p] = "killed"
                                 \/ p \in broken]_vars
  BY <1>1, <1>2 DEF JobFails, Deadline
<1>4. QED BY <1>3, Invariance, PTL DEF Spec, FailuresStayLocal

==============================================================================
