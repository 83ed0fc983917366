----------------------------- MODULE RunMultiJob -----------------------------
(***************************************************************************)
(* The role local_ci_run_multi: an Ansible play (the driver) runs a        *)
(* Kubernetes Job of one Pod per user, the Pods gather at the StateSignal  *)
(* barrier, run their test and export their artifacts to an S3 bucket, and *)
(* the driver counts the results it finds there.  The main container and   *)
(* the artifacts-exporter container of a Pod run side by side.             *)
(*   roles/local_ci/local_ci_run_multi/templates/job.yaml.j2  (the Pods)   *)
(*   roles/local_ci/local_ci_run_multi/tasks/main.yml         (the driver) *)
(* The barrier is the one StateSignalBarrier implements.  The Job          *)
(* controller and the kubelet are external.                                *)
(***************************************************************************)
EXTENDS Integers, FiniteSets

CONSTANTS
  Pods,     \* the Pods of the Job
  Leader,   \* the Pod with JOB_COMPLETION_INDEX 0
  Options   \* the parameters the role may be given, whether containers may be
            \* killed and commands may fail (faults), and what an earlier run
            \* left: nothing, its results (done), or also a Job it gave up on
            \* and whose Pods still run (stalled)

ASSUME JobAssumption ==
  /\ IsFiniteSet(Pods)
  /\ Leader \in Pods
  /\ Options \subseteq [redis : BOOLEAN, abort : BOOLEAN, retrieve : BOOLEAN,
                        faults : BOOLEAN,
                        earlier : {"none", "done", "stalled"}]

VARIABLES
  arrived, decision, verdict,  \* the barrier
  main,      \* the control state of each main container
  code,      \* its exit code
  result,    \* the outcome of testing/run in it, that the script knows
  exitFile,  \* the content of test.exit_code in its artifacts
  doneFile,  \* whether .local_ci_done is there
  sidecar,   \* the control state of each artifacts-exporter container
  bucket,    \* the test.exit_code of each Pod in the S3 bucket
  job,       \* the state of the Job
  driver,    \* the control state of the play
  gaveUp,    \* the play stopped waiting for a Job that runs
  unread,    \* the play failed to read whether the Job crashed
  emptied,   \* the play emptied the bucket, where no earlier Pod wrote since
  local,     \* the test.exit_code of each Pod in the artifacts of the play
  options,   \* the parameters of this run
  old        \* the Pods of an earlier Job that may still export

barrierVars == <<arrived, decision, verdict>>
podVars == <<main, code, result, exitFile, doneFile>>
driverVars == <<driver, gaveUp, unread, emptied, local>>
given == <<options, old>>
vars == <<barrierVars, podVars, sidecar, bucket, job, driverVars, given>>

Barrier == INSTANCE StartBarrier

Redis == options.redis            \* state_signal_redis_server is set
AbortOnFailure == options.abort   \* abort_on_failure
Retrieve == options.retrieve      \* retrieve_artifacts
InfraMayFail == options.faults

Running == {"setup", "barrier", "test", "leaving"}
DriverStates == {"prepare", "create", "start", "wait", "retrieve", "check",
                 "count", "pass", "fail", "none_succeeded"}
Verdicts == {"pass", "fail", "none_succeeded"}

TypeOK ==
  /\ arrived \subseteq Pods
  /\ decision \in {"none", "go", "abort"}
  /\ verdict \in [Pods -> {"none", "go", "abort"}]
  /\ main \in [Pods -> {"pending", "done"} \cup Running]
  /\ code \in [Pods -> {"none", "0", "1", "127", "killed"}]
  /\ result \in [Pods -> {"none", "ok", "ko"}]
  /\ exitFile \in [Pods -> {"none", "0", "1"}]
  /\ doneFile \in [Pods -> BOOLEAN]
  /\ sidecar \in [Pods -> {"off", "waiting", "done", "failed"}]
  /\ bucket \in [Pods -> {"none", "0", "1"}]
  /\ job \in {"absent", "created", "active", "complete", "failed"}
  /\ driver \in DriverStates
  /\ gaveUp \in BOOLEAN
  /\ unread \in BOOLEAN
  /\ emptied \in BOOLEAN
  /\ local \in [Pods -> {"none", "0", "1"}]
  /\ options \in Options
  /\ old \subseteq Pods

\* The bucket may hold the results of an earlier run.
Init ==
  /\ options \in Options
  /\ Barrier!Init
  /\ main = [p \in Pods |-> "pending"]
  /\ code = [p \in Pods |-> "none"]
  /\ result = [p \in Pods |-> "none"]
  /\ exitFile = [p \in Pods |-> "none"]
  /\ doneFile = [p \in Pods |-> FALSE]
  /\ sidecar = [p \in Pods |-> "off"]
  /\ bucket = [p \in Pods |-> IF options.earlier = "none" THEN "none" ELSE "0"]
  /\ job = "absent"
  /\ driver = "prepare"
  /\ gaveUp = FALSE
  /\ unread = FALSE
  /\ emptied = FALSE
  /\ local = [p \in Pods |-> "none"]
  /\ old = IF options.earlier = "stalled" THEN Pods ELSE {}

-----------------------------------------------------------------------------
(* The main container.                                                     *)

\* The script is about to end with exit code c, test.exit_code holding f.
Leaving(p, c, f) ==
  /\ main' = [main EXCEPT ![p] = "leaving"]
  /\ code' = [code EXCEPT ![p] = c]
  /\ exitFile' = [exitFile EXCEPT ![p] = f]
  /\ UNCHANGED doneFile

\* Mutant: safe_exit ignores ABORT_ON_FAILURE.
SafeExitAborting(p) == Leaving(p, "1", "1")

\* safe_exit: the failure is recorded, the exit code follows abort_on_failure.
\* Without a Redis server the function does not exist: "command not found".
SafeExit(p) ==
  IF Redis THEN Leaving(p, IF AbortOnFailure THEN "1" ELSE "0", "1")
           ELSE Leaving(p, "127", exitFile[p])

\* The kubelet starts the containers of a Pod of the Job.
StartPod(p) ==
  /\ job = "active"
  /\ main[p] = "pending"
  /\ main' = [main EXCEPT ![p] = "setup"]
  /\ sidecar' = [sidecar EXCEPT ![p] = IF Retrieve THEN "waiting" ELSE "off"]
  /\ UNCHANGED <<barrierVars, code, result, exitFile, doneFile, bucket,
                 job, driverVars, given>>

\* A command of the script fails and errexit ends it without a test.exit_code:
\* in the setup (git fetch, cp), behind the barrier (the delay of the start) or
\* when the outcome of the test is written, which is then lost.
ScriptFails(p) ==
  /\ InfraMayFail
  /\ main[p] \in {"setup", "test"}
  /\ Leaving(p, "1", "none")
  /\ UNCHANGED <<barrierVars, result, sidecar, bucket, job, driverVars,
                given>>

\* The setup is done: the Pod goes to the barrier if there is one.
ReachBarrier(p) ==
  /\ Redis
  /\ main[p] = "setup"
  /\ main' = [main EXCEPT ![p] = "barrier"]
  /\ Barrier!Arrive(p)
  /\ UNCHANGED <<code, result, exitFile, doneFile, sidecar, bucket,
                 job, driverVars, given>>

SkipBarrier(p) ==
  /\ ~ Redis
  /\ main[p] = "setup"
  /\ main' = [main EXCEPT ![p] = "test"]
  /\ UNCHANGED <<barrierVars, code, result, exitFile, doneFile, sidecar,
                 bucket, job, driverVars, given>>

\* The responder cannot reach the Redis server, or loses it while it waits.
BarrierUnreachable(p) ==
  /\ Redis /\ InfraMayFail
  /\ main[p] \in {"setup", "barrier"}
  /\ SafeExit(p)
  /\ UNCHANGED <<barrierVars, result, sidecar, bucket, job, driverVars,
                given>>

\* The exporter, in the main container of pod 0, gives the verdict.
Decide ==
  /\ main[Leader] \in Running
  /\ Barrier!Go \/ (InfraMayFail /\ Barrier!Abort)
  /\ UNCHANGED <<podVars, sidecar, bucket, job, driverVars, given>>

\* Mutant: the exit code of the responder is not looked at.
PassBarrierUnchecked(p) ==
  /\ main[p] = "barrier"
  /\ Barrier!Leave(p)
  /\ main' = [main EXCEPT ![p] = "test"]
  /\ UNCHANGED <<code, result, exitFile, doneFile, sidecar, bucket,
                 job, driverVars, given>>

\* The responder returned: 0 starts the test, 1 is a failure.
PassBarrier(p) ==
  /\ main[p] = "barrier"
  /\ Barrier!Leave(p)
  /\ \/ /\ decision = "go"
        /\ main' = [main EXCEPT ![p] = "test"]
        /\ UNCHANGED <<code, exitFile, doneFile>>
     \/ /\ decision = "abort"
        /\ SafeExit(p)
  /\ UNCHANGED <<result, sidecar, bucket, job, driverVars, given>>

TestSucceeds(p) ==
  /\ main[p] = "test"
  /\ result' = [result EXCEPT ![p] = "ok"]
  /\ Leaving(p, "0", "0")
  /\ UNCHANGED <<barrierVars, sidecar, bucket, job, driverVars, given>>

TestFails(p) ==
  /\ main[p] = "test"
  /\ result' = [result EXCEPT ![p] = "ko"]
  /\ SafeExit(p)
  /\ UNCHANGED <<barrierVars, sidecar, bucket, job, driverVars, given>>

\* The EXIT trap creates .local_ci_done and the container ends.
ExitMain(p) ==
  /\ main[p] = "leaving"
  /\ main' = [main EXCEPT ![p] = "done"]
  /\ doneFile' = [doneFile EXCEPT ![p] = TRUE]
  /\ UNCHANGED <<barrierVars, code, result, exitFile, sidecar, bucket,
                 job, driverVars, given>>

\* The container is killed: the EXIT trap does not run.
KillMain(p) ==
  /\ InfraMayFail
  /\ main[p] \in Running
  /\ main' = [main EXCEPT ![p] = "done"]
  /\ code' = [code EXCEPT ![p] = "killed"]
  /\ UNCHANGED <<barrierVars, result, exitFile, doneFile, sidecar,
                 bucket, job, driverVars, given>>

-----------------------------------------------------------------------------
(* The artifacts-exporter container.                                       *)

\* Mutant: the exporter looks for test.exit_code instead of .local_ci_done.
ExportEarly(p) ==
  /\ sidecar[p] = "waiting"
  /\ main[p] # "pending"
  /\ sidecar' = [sidecar EXCEPT ![p] = "done"]
  /\ bucket' = [bucket EXCEPT ![p] = IF exitFile[p] = "none" THEN @
                                                       ELSE exitFile[p]]
  /\ UNCHANGED <<barrierVars, podVars, job, driverVars, given>>

\* Once .local_ci_done is there, the files of the Pod are copied to the
\* bucket; a file the Pod does not have is not removed from the bucket.
Export(p) ==
  /\ sidecar[p] = "waiting"
  /\ doneFile[p]
  /\ sidecar' = [sidecar EXCEPT ![p] = "done"]
  /\ bucket' = [bucket EXCEPT ![p] = IF exitFile[p] = "none" THEN @
                                                       ELSE exitFile[p]]
  /\ UNCHANGED <<barrierVars, podVars, job, driverVars, given>>

\* The upload fails: errexit ends the container with an error.
ExportFails(p) ==
  /\ InfraMayFail
  /\ sidecar[p] = "waiting"
  /\ doneFile[p]
  /\ sidecar' = [sidecar EXCEPT ![p] = "failed"]
  /\ UNCHANGED <<barrierVars, podVars, bucket, job, driverVars, given>>

-----------------------------------------------------------------------------
(* The Job: backoffLimit 0, restartPolicy Never, activeDeadlineSeconds.    *)

\* A Pod is over when all its containers are.
PodOver(p) == main[p] = "done" /\ sidecar[p] # "waiting"
PodFailed(p) == PodOver(p) /\ (code[p] # "0" \/ sidecar[p] = "failed")

StartJob ==
  /\ job = "created"
  /\ job' = "active"
  /\ UNCHANGED <<barrierVars, podVars, sidecar, bucket, driverVars, given>>

JobCompletes ==
  /\ job = "active"
  /\ \A p \in Pods : PodOver(p) /\ ~ PodFailed(p)
  /\ job' = "complete"
  /\ UNCHANGED <<barrierVars, podVars, sidecar, bucket, driverVars, given>>

\* backoffLimit 0: the first failed Pod fails the Job.
JobFails ==
  /\ job = "active"
  /\ \E p \in Pods : PodFailed(p)
  /\ job' = "failed"
  /\ UNCHANGED <<barrierVars, podVars, sidecar, bucket, driverVars, given>>

\* Mutant: the deadline stops the Job only while the driver waits for it.
DeadlineWhileWaiting ==
  /\ job = "active"
  /\ driver = "wait"
  /\ job' = "failed"
  /\ UNCHANGED <<barrierVars, podVars, sidecar, bucket, driverVars, given>>

\* activeDeadlineSeconds (5h) comes after the last poll of the driver (1h).
Deadline ==
  /\ job = "active"
  /\ driver \in {"retrieve", "check", "count"} \cup Verdicts
  /\ job' = "failed"
  /\ UNCHANGED <<barrierVars, podVars, sidecar, bucket, driverVars, given>>

\* The Pods of a failed Job are deleted: SIGTERM lets the EXIT trap run ...
TerminateMain(p) ==
  /\ job = "failed"
  /\ main[p] \in Running
  /\ main' = [main EXCEPT ![p] = "done"]
  /\ code' = [code EXCEPT ![p] = "killed"]
  /\ doneFile' = [doneFile EXCEPT ![p] = TRUE]
  /\ UNCHANGED <<barrierVars, result, exitFile, sidecar, bucket, job,
                driverVars, given>>

\* ... and SIGKILL ends what is left at the end of the grace period.
RemovePod(p) ==
  /\ job = "failed"
  /\ ~ PodOver(p)
  /\ main' = [main EXCEPT ![p] = "done"]
  /\ code' = [code EXCEPT ![p] = IF main[p] = "done" THEN @ ELSE "killed"]
  /\ sidecar' = [sidecar EXCEPT ![p] = IF @ = "waiting" THEN "failed" ELSE @]
  /\ UNCHANGED <<barrierVars, result, exitFile, doneFile, bucket, job,
                driverVars, given>>

\* The bucket is emptied before the Job of an earlier run is deleted, and its
\* Pods have a grace period: one may still export a success, under the name of
\* the new Pod of its index.  It is taken to end before that one exports.
OldPodExports(p) ==
  /\ p \in old
  /\ sidecar[p] \in {"off", "waiting"}
  /\ old' = old \ {p}
  /\ bucket' = [bucket EXCEPT ![p] = "0"]
  /\ emptied' = FALSE
  /\ UNCHANGED <<barrierVars, podVars, sidecar, job, driver, gaveUp, unread,
                 local, options>>

-----------------------------------------------------------------------------
(* The driver: tasks/main.yml.                                             *)

\* "Empty the Minio S3 bucket", failed_when: false.
EmptyBucket ==
  /\ driver = "prepare"
  /\ driver' = "create"
  /\ \/ /\ Retrieve
        /\ bucket' = [p \in Pods |-> "none"]
        /\ emptied' = TRUE
     \/ /\ ~ Retrieve \/ InfraMayFail
        /\ UNCHANGED <<bucket, emptied>>
  /\ UNCHANGED <<barrierVars, podVars, sidecar, job, gaveUp, unread, local,
                 given>>

\* "Delete any stalled CI execution Pod", then "Create the CI Job".
CreateJob ==
  /\ driver = "create"
  /\ driver' = "start"
  /\ job' = "created"
  /\ UNCHANGED <<barrierVars, podVars, sidecar, bucket, gaveUp, unread,
                 emptied, local, given>>

\* "Wait for the CI Job to start", 12 times 5 seconds.
SeeStart ==
  /\ driver = "start"
  /\ job # "created"
  /\ driver' = "wait"
  /\ UNCHANGED <<barrierVars, podVars, sidecar, bucket, job, gaveUp, unread,
                 emptied, local, given>>

\* A task fails before the wait, or the Job is not seen to start in time.
TaskFails ==
  /\ InfraMayFail
  /\ driver \in {"prepare", "create", "start"}
  /\ driver' = "fail"
  /\ UNCHANGED <<barrierVars, podVars, sidecar, bucket, job, gaveUp, unread,
                 emptied, local, given>>

\* "Wait for the CI Job to terminate": status.active is empty ...
SeeEnd ==
  /\ driver = "wait"
  /\ job # "active"
  /\ driver' = "retrieve"
  /\ UNCHANGED <<barrierVars, podVars, sidecar, bucket, job, gaveUp, unread,
                 emptied, local, given>>

\* ... or, 180 times 20 seconds later, failed_when: false.  An oc get that
\* fails prints nothing and ends the wait as well.
GiveUp ==
  /\ driver = "wait"
  /\ job = "active"
  /\ driver' = "retrieve"
  /\ gaveUp' = TRUE
  /\ UNCHANGED <<barrierVars, podVars, sidecar, bucket, job, unread, emptied,
                 local, given>>

\* "Export the data out of the S3 bucket" and "Extract the test artifacts",
\* ignore_errors: yes.  They do not depend on retrieve_artifacts, without which
\* there may be no Minio Pod.  A copy that fails may have taken some files.
RetrieveArtifacts ==
  /\ driver = "retrieve"
  /\ driver' = "check"
  /\ \E there \in SUBSET Pods :
       /\ there = Pods \/ ~ Retrieve \/ InfraMayFail
       /\ local' = [p \in Pods |-> IF p \in there THEN bucket[p] ELSE "none"]
  /\ UNCHANGED <<barrierVars, podVars, sidecar, bucket, job, gaveUp, unread,
                emptied, given>>

\* Mutant: the state of the Job is not looked at.
TestCrashSkipped ==
  /\ driver = "check"
  /\ driver' = "count"
  /\ UNCHANGED <<barrierVars, podVars, sidecar, bucket, job, gaveUp, unread,
                 emptied, local, given>>

\* "Test if the CI job crashed": status.failed of the Job is not empty, which
\* is all failed_when looks at: the output of a command that fails is empty.
TestCrash ==
  /\ driver = "check"
  /\ \/ /\ driver' = IF job = "failed" THEN "fail" ELSE "count"
        /\ UNCHANGED unread
     \/ /\ InfraMayFail
        /\ driver' = "count"
        /\ unread' = TRUE
  /\ UNCHANGED <<barrierVars, podVars, sidecar, bucket, job, gaveUp, emptied,
                local, given>>

\* "Count how many Pods succeeded", "Fail if none of the Pods succeeded".
TestCount ==
  /\ driver = "count"
  /\ driver' = IF \E p \in Pods : local[p] = "0" THEN "pass"
                                                 ELSE "none_succeeded"
  /\ UNCHANGED <<barrierVars, podVars, sidecar, bucket, job, gaveUp, unread,
                 emptied, local, given>>

-----------------------------------------------------------------------------
PodStep(p) ==
  \/ StartPod(p)
  \/ ReachBarrier(p) \/ SkipBarrier(p) \/ BarrierUnreachable(p)
  \/ PassBarrier(p) \/ ScriptFails(p)
  \/ TestSucceeds(p) \/ TestFails(p)
  \/ ExitMain(p) \/ KillMain(p)
  \/ Export(p) \/ ExportFails(p)

JobStep ==
  \/ StartJob \/ JobCompletes \/ JobFails \/ Deadline
  \/ \E p \in Pods : TerminateMain(p) \/ RemovePod(p) \/ OldPodExports(p)

DriverStep ==
  \/ EmptyBucket \/ CreateJob
  \/ SeeStart \/ TaskFails
  \/ SeeEnd \/ GiveUp
  \/ RetrieveArtifacts \/ TestCrash \/ TestCount

Next == Decide \/ (\E p \in Pods : PodStep(p)) \/ JobStep \/ DriverStep

Spec == Init /\ [][Next]_vars

\* The play goes on, each of its tasks has a bounded number of retries, and
\* the Job controller acts on what it sees.  Nothing is assumed of the Pods.
FairSpec ==
  /\ Spec
  /\ WF_vars(DriverStep)
  /\ WF_vars(StartJob) /\ WF_vars(JobFails) /\ WF_vars(JobCompletes)

\* The deadline of the Job comes one day, and its Pods are removed.
DeadlineIsKept ==
  WF_vars(Deadline) /\ \A p \in Pods : WF_vars(RemovePod(p))

\* The containers run, the exporter decides and the tests end.
PodsGoOn ==
  WF_vars(Decide) /\ \A p \in Pods : WF_vars(PodStep(p))

-----------------------------------------------------------------------------
\* With a Redis server, no test starts before every Pod of the Job is ready,
\* whatever the failures (job.yaml.j2:60-107).
TestsStartTogether ==
  Redis => \A p \in Pods : main[p] = "test" \/ result[p] # "none"
                             => arrived = Pods

\* What a sidecar has exported is final: the main container has written its
\* last word before the copy (job.yaml.j2:35,111,179-201).
ExportIsFinal ==
  \A p \in Pods : sidecar[p] = "done" =>
     /\ main[p] = "done"
     /\ exitFile[p] # "none" => bucket[p] = exitFile[p]

\* When the bucket could be emptied, every success the play counts is the
\* success of a test of this run ("Count how many Pods succeeded",
\* main.yml:207-213).
CountIsSound ==
  emptied => \A p \in Pods : local[p] = "0" => result[p] = "ok"

\* A play that passes after the bucket was emptied had a test succeed in this
\* run.  If it waited for the end of the Job and could read how it ended, the
\* Job is complete, and all the tests succeeded if the first failure was to
\* abort the run (main.yml:79-87,207-231).
PassIsEarned ==
  driver = "pass" =>
    /\ emptied => \E p \in Pods : result[p] = "ok"
    /\ ~ gaveUp /\ ~ unread =>
         /\ job = "complete"
         /\ AbortOnFailure => \A p \in Pods : result[p] = "ok"

\* With safe_exit and without abort_on_failure, it takes more than failed tests
\* to fail the Job: a container that was killed, a script that failed before it
\* wrote an outcome, an export that failed, or the deadline
\* (job.yaml.j2:27,70-86; toolbox/local_ci.py:116).
FailuresStayLocal ==
  [][Redis /\ ~ AbortOnFailure /\ job = "active" /\ job' = "failed" =>
       \/ \E p \in Pods : /\ PodOver(p)
                         /\ \/ sidecar[p] = "failed"
                            \/ code[p] = "killed"
                            \/ code[p] = "1" /\ exitFile[p] = "none"
       \/ driver \in {"retrieve", "check", "count"} \cup Verdicts]_vars

\* The play ends, and so does every container of a Job it created, even if a
\* test hangs or a Pod is lost (main.yml:70-87, job.yaml.j2:12).  If nothing
\* breaks and the tests end, failed or not, the Job ends without the help of
\* its deadline (job.yaml.j2:35,179).
EverythingStops ==
  /\ DeadlineIsKept =>
       <>[](/\ driver \in Verdicts
            /\ job # "absent" => \A p \in Pods : PodOver(p))
  /\ PodsGoOn /\ [](~ InfraMayFail)
       => (job = "active" ~> job \in {"complete", "failed"})

=============================================================================
