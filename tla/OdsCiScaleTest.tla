---------------------------- MODULE OdsCiScaleTest ----------------------------
(***************************************************************************)
(* The role rhods_notebook_ods_ci_scale_test: a play runs a Job of one Pod *)
(* per user, each drives a notebook with ODS-CI and exports its results to *)
(* a bucket, where the play finds and counts them.                         *)
(*   files/entrypoint.sh             (the main container of a Pod)         *)
(*   files/s3-artifacts-exporter.sh  (its sidecar)                         *)
(*   tasks/main.yml, tasks/artifacts_driver.yml   (the play)               *)
(* The Pods meet at the StateSignal barrier, except on spot instances.     *)
(* Contrary to those of local_ci_run_multi they signal their end by the    *)
(* file of their result, and never fail because their test has.            *)
(***************************************************************************)
EXTENDS FiniteSets

CONSTANTS
  Pods,     \* the Pods of the Job
  Leader,   \* the Pod with JOB_COMPLETION_INDEX 0
  Options   \* spot: the driver runs on spot instances; collected: artifacts_collected
            \* is not "none"; earlier: what an earlier play left in the bucket,
            \* nothing, its results (done), or also Pods that still run (stalled);
            \* faults: whether commands may fail, containers (that of Redis
            \* included) may be lost

ASSUME OdsCiAssumption ==
  /\ IsFiniteSet(Pods)
  /\ Leader \in Pods
  /\ Options \subseteq [spot : BOOLEAN, collected : BOOLEAN,
                        earlier : {"none", "done", "stalled"},
                        faults : SUBSET {"commands", "containers"}]

VARIABLES
  arrived, decision, verdict,  \* the barrier
  main,      \* the control state of each main container
  code,      \* its exit code
  result,    \* the outcome of its ODS-CI test, that the script has recorded
  exitFile,  \* test.exit_code: absent, empty, or the code of the test
  broken,    \* the Pods where a command of the script has failed
  sidecar,   \* the control state of each artifacts-exporter
  bucket,    \* the test.exit_code of each Pod in the bucket
  job,       \* the state of the Job
  driver,    \* the task the play is at
  gaveUp,    \* it stopped waiting for a Job that runs
  unread,    \* it failed to read whether the Job crashed
  emptied,   \* it emptied the bucket, where no earlier Pod wrote since
  local,     \* the test.exit_code of each Pod among its artifacts
  copied,    \* it could copy the whole bucket there
  options,
  old        \* the Pods of an earlier Job that may still export

barrierVars == <<arrived, decision, verdict>>
podVars == <<main, code, result, exitFile, broken>>
driverVars == <<driver, gaveUp, unread, emptied, local, copied>>
given == <<options, old>>
vars == <<barrierVars, podVars, sidecar, bucket, job, driverVars, given>>

Barrier == INSTANCE StartBarrier

CommandsMayFail == "commands" \in options.faults
ContainersMayDie == "containers" \in options.faults
Running == {"setup", "barrier", "test", "leaving"}
Tasks == {"prepare", "create", "start", "wait", "stop notebooks", "retrieve", "check", "count"}
Verdicts == {"pass", "crashed", "none succeeded", "restarted", "fail"}

Init ==
  /\ options \in Options
  /\ Barrier!Init
  /\ main = [p \in Pods |-> "pending"]
  /\ code = [p \in Pods |-> "none"]
  /\ result = [p \in Pods |-> "none"]
  /\ exitFile = [p \in Pods |-> "none"]
  /\ broken = {}
  /\ sidecar = [p \in Pods |-> "off"]
  /\ bucket = [p \in Pods |-> IF options.earlier = "none" THEN "none" ELSE "0"]
  /\ job = "absent"
  /\ driver = "prepare"
  /\ gaveUp = FALSE /\ unread = FALSE /\ emptied = FALSE /\ copied = FALSE
  /\ local = [p \in Pods |-> "none"]
  /\ old = IF options.earlier = "stalled" THEN Pods ELSE {}

-----------------------------------------------------------------------------
(* The main container: entrypoint.sh. *)

\* The script is about to end with exit code c, test.exit_code holding f.
Leaving(p, c, f) ==
  /\ main' = [main EXCEPT ![p] = "leaving"]
  /\ code' = [code EXCEPT ![p] = c]
  /\ exitFile' = [exitFile EXCEPT ![p] = f]

StartPod(p) ==
  /\ job = "active" /\ main[p] = "pending"
  /\ main' = [main EXCEPT ![p] = "setup"]
  /\ sidecar' = [sidecar EXCEPT ![p] = IF options.collected THEN "waiting" ELSE "done"]
  /\ UNCHANGED <<barrierVars, code, result, exitFile, broken, bucket, job, driverVars, given>>

\* errexit: a command fails before the test (pip, sed), behind the barrier (the progress stamps,
\* the delay of the start) or with the outcome of the test, which is then lost; or after this
\* outcome was written (the last stamp).
ScriptFails(p) ==
  /\ CommandsMayFail /\ p \notin broken
  /\ \/ main[p] \in {"setup", "test"} /\ Leaving(p, "1", "none")
     \/ main[p] = "leaving" /\ result[p] # "none" /\ Leaving(p, "1", exitFile[p])
  /\ broken' = broken \cup {p}
  /\ UNCHANGED <<barrierVars, result, sidecar, bucket, job, driverVars, given>>

ReachBarrier(p) ==
  /\ ~ options.spot /\ main[p] = "setup"
  /\ main' = [main EXCEPT ![p] = "barrier"]
  /\ Barrier!Arrive(p)
  /\ UNCHANGED <<code, result, exitFile, broken, sidecar, bucket, job, driverVars, given>>

\* On spot instances a Pod waits until one minute after the creation of the Job.
WaitOnSpot(p) ==
  /\ options.spot /\ main[p] = "setup"
  /\ main' = [main EXCEPT ![p] = "test"]
  /\ UNCHANGED <<barrierVars, code, result, exitFile, broken, sidecar, bucket, job, driverVars,
                 given>>

\* "exit the Pod successfully, so that all the Pod logs are retrieved".
AbortingBarrierFailed(p) == Leaving(p, "1", "1")
BarrierFailed(p) == Leaving(p, "0", "1")

\* The Redis server is not there, or is lost while the Pod waits.
BarrierUnreachable(p) ==
  /\ ContainersMayDie /\ ~ options.spot /\ main[p] \in {"setup", "barrier"}
  /\ BarrierFailed(p)
  /\ UNCHANGED <<barrierVars, result, broken, sidecar, bucket, job, driverVars, given>>

\* The exporter, in the main container of pod 0, waits without a delay (-1) for the Pods.
Decide ==
  /\ main[Leader] \in Running
  /\ Barrier!Go \/ (CommandsMayFail /\ arrived = Pods /\ Barrier!Abort)
  /\ UNCHANGED <<podVars, sidecar, bucket, job, driverVars, given>>

PassBarrier(p) ==
  /\ main[p] = "barrier"
  /\ Barrier!Leave(p)
  /\ IF decision = "go"
     THEN main' = [main EXCEPT ![p] = "test"] /\ UNCHANGED <<code, exitFile>>
     ELSE BarrierFailed(p)
  /\ UNCHANGED <<result, broken, sidecar, bucket, job, driverVars, given>>

\* The code of the pipe, with pipefail.  The file triggers the export; the script
\* goes on for a while and always exits with 0.
CodeOfTee(r) == "0"
ExitCode(r) == IF r = "ok" THEN "0" ELSE "1"

TestEnds(p, r) ==
  /\ main[p] = "test"
  /\ result' = [result EXCEPT ![p] = r]
  /\ Leaving(p, "0", ExitCode(r))
  /\ UNCHANGED <<barrierVars, broken, sidecar, bucket, job, driverVars, given>>

\* The EXIT trap touches test.exit_code.
NoTrap(f) == f
Touched(f) == IF f = "none" THEN "empty" ELSE f

ExitMain(p) ==
  /\ main[p] = "leaving"
  /\ main' = [main EXCEPT ![p] = "done"]
  /\ exitFile' = [exitFile EXCEPT ![p] = Touched(@)]
  /\ UNCHANGED <<barrierVars, code, result, broken, sidecar, bucket, job, driverVars, given>>

\* Out of memory: no trap runs, and the sidecar goes on.
KillMain(p) ==
  /\ ContainersMayDie /\ main[p] \in Running
  /\ main' = [main EXCEPT ![p] = "done"]
  /\ code' = [code EXCEPT ![p] = "killed"]
  /\ UNCHANGED <<barrierVars, result, exitFile, broken, sidecar, bucket, job, driverVars, given>>

-----------------------------------------------------------------------------
(* The sidecar: s3-artifacts-exporter.sh. *)

\* What it uploads replaces what the bucket has of a Pod of this index.
Export(p) ==
  /\ sidecar[p] = "waiting" /\ exitFile[p] # "none"
  /\ sidecar' = [sidecar EXCEPT ![p] = "done"]
  /\ bucket' = [bucket EXCEPT ![p] = exitFile[p]]
  /\ UNCHANGED <<barrierVars, podVars, job, driverVars, given>>

ExportFails(p) ==
  /\ CommandsMayFail
  /\ sidecar[p] = "waiting" /\ exitFile[p] # "none"
  /\ sidecar' = [sidecar EXCEPT ![p] = "failed"]
  /\ UNCHANGED <<barrierVars, podVars, bucket, job, driverVars, given>>

-----------------------------------------------------------------------------
(* The Job: backoffLimit 0, restartPolicy Never, activeDeadlineSeconds. *)

PodOver(p) == main[p] = "done" /\ sidecar[p] # "waiting"
PodFailed(p) == PodOver(p) /\ (code[p] # "0" \/ sidecar[p] = "failed")

StartJob ==
  /\ job = "created" /\ job' = "active"
  /\ UNCHANGED <<barrierVars, podVars, sidecar, bucket, driverVars, given>>

JobCompletes ==
  /\ job = "active"
  /\ \A p \in Pods : PodOver(p) /\ ~ PodFailed(p)
  /\ job' = "complete"
  /\ UNCHANGED <<barrierVars, podVars, sidecar, bucket, driverVars, given>>

JobFails ==
  /\ job = "active"
  /\ \E p \in Pods : PodFailed(p)
  /\ job' = "failed"
  /\ UNCHANGED <<barrierVars, podVars, sidecar, bucket, driverVars, given>>

\* The deadline of five hours comes after the three hours of the play, if it lasts so long.
Unwatched == driver \notin {"start", "wait"}
Deadline ==
  /\ job = "active" /\ Unwatched
  /\ job' = "failed"
  /\ UNCHANGED <<barrierVars, podVars, sidecar, bucket, driverVars, given>>

\* The Pods of a failed Job are removed; so is one whose spot instance is taken back.
RemovePod(p) ==
  /\ job = "failed" \/ (ContainersMayDie /\ options.spot /\ main[p] # "pending")
  /\ ~ PodOver(p)
  /\ main' = [main EXCEPT ![p] = "done"]
  /\ code' = [code EXCEPT ![p] = IF main[p] = "done" THEN @ ELSE "killed"]
  /\ sidecar' = [sidecar EXCEPT ![p] = IF @ = "waiting" THEN "failed" ELSE @]
  /\ UNCHANGED <<barrierVars, result, exitFile, broken, bucket, job, driverVars, given>>

\* The bucket is emptied before the earlier Job is deleted, whose Pods have the same
\* names and a grace period, taken to be shorter than the new Pod lasts.
OldPodExports(p) ==
  /\ p \in old /\ sidecar[p] \in {"off", "waiting"}
  /\ old' = old \ {p}
  /\ bucket' = [bucket EXCEPT ![p] = "0"]
  /\ emptied' = FALSE
  /\ UNCHANGED <<barrierVars, podVars, sidecar, job, driver, gaveUp, unread, local, copied, options>>

-----------------------------------------------------------------------------
(* The play: tasks/main.yml. *)

\* A task without failed_when or ignore_errors fails.
TaskFails ==
  /\ CommandsMayFail /\ driver \in {"prepare", "create", "start", "stop notebooks"}
  /\ driver' = "fail"
  /\ UNCHANGED <<barrierVars, podVars, sidecar, bucket, job, gaveUp, unread, emptied, local, copied,
                 given>>

\* failed_when: false.
EmptyBucket ==
  /\ driver = "prepare" /\ driver' = "create"
  /\ \/ bucket' = [p \in Pods |-> "none"] /\ emptied' = TRUE
     \/ CommandsMayFail /\ UNCHANGED <<bucket, emptied>>
  /\ UNCHANGED <<barrierVars, podVars, sidecar, job, gaveUp, unread, local, copied, given>>

\* The Job of an earlier run is deleted first.
CreateJob ==
  /\ driver = "create" /\ driver' = "start"
  /\ job' = "created"
  /\ UNCHANGED <<barrierVars, podVars, sidecar, bucket, gaveUp, unread, emptied, local, copied,
                 given>>

SeeStart ==
  /\ driver = "start" /\ job # "created"
  /\ driver' = "wait"
  /\ UNCHANGED <<barrierVars, podVars, sidecar, bucket, job, gaveUp, unread, emptied, local, copied,
                 given>>

\* "Wait for the RHODS tester job to terminate": failed_when: false, after 180 minutes, or
\* when the command prints nothing because it fails.
StopWaiting ==
  /\ driver = "wait" /\ driver' = "stop notebooks"
  /\ gaveUp' = (job = "active")
  /\ UNCHANGED <<barrierVars, podVars, sidecar, bucket, job, unread, emptied, local, copied, given>>

\* The captures of the sutest cluster stop the notebooks, which is not in ignore_errors.
StopNotebooks ==
  /\ driver = "stop notebooks" /\ driver' = "retrieve"
  /\ UNCHANGED <<barrierVars, podVars, sidecar, bucket, job, gaveUp, unread, emptied, local, copied,
                 given>>

\* ignore_errors: a copy that fails may be partial.
Retrieve(there) ==
  /\ driver = "retrieve" /\ driver' = "check"
  /\ there = Pods \/ CommandsMayFail
  /\ local' = [p \in Pods |-> IF options.collected /\ p \in there THEN bucket[p] ELSE "none"]
  /\ copied' = (there = Pods)
  /\ UNCHANGED <<barrierVars, podVars, sidecar, bucket, job, gaveUp, unread, emptied, given>>

\* "Test if the RHODS test job crashed": status.failed is not empty, which is all failed_when
\* looks at: the output of a command that fails is empty.
TestCrash ==
  /\ driver = "check"
  /\ \/ driver' = (IF job = "failed" THEN "crashed" ELSE "count") /\ UNCHANGED unread
     \/ CommandsMayFail /\ driver' = "count" /\ unread' = TRUE
  /\ UNCHANGED <<barrierVars, podVars, sidecar, bucket, job, gaveUp, emptied, local, copied, given>>

\* "Count how many jobs succeeded, fail in none succeeded"; then "if the notebooks Pods had to
\* restart", by a count taken after the wait, or if this count could not be made.
Successes == {p \in Pods : local[p] = "0"}
Conclude ==
  /\ driver = "count"
  /\ driver' \in IF Successes = {} THEN {"none succeeded"} ELSE {"restarted", "pass"}
  /\ UNCHANGED <<barrierVars, podVars, sidecar, bucket, job, gaveUp, unread, emptied, local, copied,
                 given>>

-----------------------------------------------------------------------------
PodStep(p) ==
  \/ StartPod(p) \/ ScriptFails(p) \/ ReachBarrier(p) \/ WaitOnSpot(p)
  \/ BarrierUnreachable(p) \/ PassBarrier(p)
  \/ \E r \in {"ok", "ko"} : TestEnds(p, r)
  \/ ExitMain(p)
  \/ Export(p) \/ ExportFails(p)

PlayStep ==
  \/ TaskFails \/ EmptyBucket \/ CreateJob \/ SeeStart \/ StopWaiting \/ StopNotebooks
  \/ \E there \in SUBSET Pods : Retrieve(there)
  \/ TestCrash \/ Conclude

Next ==
  \/ PlayStep \/ Decide
  \/ \E p \in Pods : PodStep(p) \/ KillMain(p) \/ RemovePod(p) \/ OldPodExports(p)
  \/ StartJob \/ JobCompletes \/ JobFails \/ Deadline

Spec == Init /\ [][Next]_vars

\* The tasks have bounded retries, and the Job controller acts on what it sees.
FairSpec ==
  /\ Spec
  /\ WF_vars(PlayStep)
  /\ WF_vars(StartJob) /\ WF_vars(JobFails) /\ WF_vars(JobCompletes)

DeadlineIsKept == WF_vars(Deadline) /\ \A p \in Pods : WF_vars(job = "failed" /\ RemovePod(p))
PodsGoOn == WF_vars(Decide) /\ \A p \in Pods : WF_vars(PodStep(p))

-----------------------------------------------------------------------------
(* Properties. *)

TypeOK ==
  /\ arrived \subseteq Pods /\ decision \in {"none", "go", "abort"}
  /\ verdict \in [Pods -> {"none", "go", "abort"}]
  /\ main \in [Pods -> {"pending", "done"} \cup Running]
  /\ code \in [Pods -> {"none", "0", "1", "killed"}]
  /\ result \in [Pods -> {"none", "ok", "ko"}]
  /\ exitFile \in [Pods -> {"none", "empty", "0", "1"}]
  /\ broken \subseteq Pods
  /\ sidecar \in [Pods -> {"off", "waiting", "done", "failed"}]
  /\ bucket \in [Pods -> {"none", "empty", "0", "1"}]
  /\ local \in [Pods -> {"none", "empty", "0", "1"}]
  /\ job \in {"absent", "created", "active", "complete", "failed"}
  /\ driver \in Tasks \cup Verdicts
  /\ gaveUp \in BOOLEAN /\ unread \in BOOLEAN /\ emptied \in BOOLEAN /\ copied \in BOOLEAN
  /\ options \in Options /\ old \subseteq Pods

\* What a passing play says of its users is right, although results go through two containers, a
\* bucket and two copies, and the play stops waiting and misses a crash in silence
\* (main.yml:256-302): successes are successes of this run, if the bucket has nothing else; when
\* the play did not give up and could read how the Job ended, each Pod has come to its end, and the
\* users it counts are all those who have succeeded, if the copy has not failed.
CountIsExact ==
  driver = "pass" =>
    /\ emptied => \A p \in Successes : result[p] = "ok"
    /\ ~ gaveUp /\ ~ unread =>
         /\ job = "complete" /\ \A p \in Pods : code[p] = "0"
         /\ emptied /\ copied => \A p \in Pods : result[p] = "ok" => p \in Successes

\* "always exit 0, we'll decide later if this is a success or a failure" (entrypoint.sh:128): neither
\* a failed test nor a barrier that gives up fails the Job, which would take down the other users
\* (backoffLimit 0).  It takes a command of the script itself that failed (errexit), a container
\* that was lost, an upload that failed, or the deadline.
FailuresStayLocal ==
  [][job = "active" /\ job' = "failed" =>
       \/ Unwatched /\ ~ \E p \in Pods : PodFailed(p)
       \/ \E p \in Pods :
            /\ PodOver(p)
            /\ \/ sidecar[p] = "failed"
               \/ code[p] = "killed"
               \/ p \in broken]_vars

\* The play ends, and when it has left its Job so does every container, even if a test hangs or a
\* Pod is lost: at worst by the deadline.  When no container is lost and the tests end, the Job ends
\* by itself: a script that fails anywhere leaves the file its sidecar waits for (entrypoint.sh:20).
EverythingStops ==
  /\ <>(driver \in Verdicts)
  /\ DeadlineIsKept => ((job = "active" /\ Unwatched) ~> \A p \in Pods : PodOver(p))
  /\ PodsGoOn /\ [](~ ContainersMayDie) => (job = "active" ~> job \in {"complete", "failed"})
=============================================================================
