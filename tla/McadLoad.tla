------------------------------ MODULE McadLoad ------------------------------
(***************************************************************************)
(* The MCAD load tests, one after the other:                               *)
(*   testing/codeflare/test_mcad.py              (test, _run_test)         *)
(*   roles/codeflare/codeflare_generate_mcad_load                          *)
(*   roles/codeflare/codeflare_cleanup_appwrappers                         *)
(*   subprojects/mcad-workload-generator         (generator.py)            *)
(* on the cluster of Mcad.  The generator starts an `oc create` in the     *)
(* background for each AppWrapper, at the times of scheduler.py; they      *)
(* outlive it when it exits.  The AppWrappers are numbered in the order    *)
(* of their creation, the distributions being arbitrary.                   *)
(***************************************************************************)
EXTENDS Naturals, FiniteSets, Mcad

CONSTANTS
  NTests,   \* the length of tests.mcad.tests_to_run
  MaxCount, \* no test creates more AppWrappers
  Canary,   \* the AppWrapper of codeflare_cleanup_appwrappers
  Options   \* aw_count, distribution, job_mode, tests.mcad.stop_on_error and
            \* whether calls may fail

Tests == 1 .. NTests
Index == 1 .. MaxCount
Loads == Tests \X Index

\* Python's round: to the even one.
RoundHalf(n) == IF n % 4 = 1 THEN n \div 2 ELSE (n + 1) \div 2

\* The number of creation times a distribution yields.
Instances(o) ==
  IF o.distribution = "bimodal" THEN 2 * RoundHalf(o.count) ELSE o.count

ASSUME OptionsAssumption ==
  /\ NTests \in Nat \ {0}
  /\ MaxCount \in Nat
  /\ Canary \notin Loads
  /\ Objects = Loads \cup {Canary}
  /\ \A o \in Options :
       /\ o \in [count : Nat \ {0}, distribution : {"poisson", "bimodal"},
                 jobMode : BOOLEAN, stopOnError : BOOLEAN, faults : BOOLEAN]
       /\ Instances(o) <= MaxCount

VARIABLES
  options,
  test,        \* the test that runs
  pc,          \* the task that runs
  phase,       \* which cleanup_appwrappers: before the load or after
  ok,          \* no task of the block has failed
  failed,      \* the variable of _run_test
  launched,    \* the processes of the generator: how many were started
  joined,      \* and how many waited for
  oc,          \* the state of each `oc create`
  exitCode,    \* the file exit_code of each test
  failedTests  \* failed_tests

harness == <<test, phase, failed, exitCode, failedTests>>
generator == <<launched, joined, oc>>
vars == <<options, harness, pc, ok, generator, cluster>>

CleanupTasks == {"delete_jobs", "delete_appwrappers", "create_canary"}
CanaryTasks == {"canary_seen", "canary_scheduled"}
ResetTasks == {"clean_appwrappers", "reset_controller", "controller_ready",
               "clean_jobs"}
LoadTasks == {"generate", "wait_appwrappers", "wait_jobs"}

TypeOK ==
  /\ options \in Options
  /\ test \in Tests
  /\ pc \in CleanupTasks \cup CanaryTasks \cup ResetTasks \cup LoadTasks
            \cup {"end_cleanup", "end_load", "capture", "over"}
  /\ phase \in {"before", "after"}
  /\ ok \in BOOLEAN
  /\ failed \in BOOLEAN
  /\ launched \in 0 .. Instances(options)
  /\ joined \in 0 .. launched
  /\ oc \in [Loads -> {"none", "running", "done", "failed"}]
  /\ exitCode \in [Tests -> {"none", "0", "1"}]
  /\ failedTests \subseteq Tests
  /\ ClusterTypeOK

Init ==
  /\ options \in Options
  /\ test = 1
  /\ pc = "delete_jobs"
  /\ phase = "before"
  /\ ok = TRUE
  /\ failed = FALSE
  /\ launched = 0
  /\ joined = 0
  /\ oc = [a \in Loads |-> "none"]
  /\ exitCode = [t \in Tests |-> "none"]
  /\ failedTests = {}
  /\ ClusterInit

\* The next task of the role.
Task(from, to) ==
  /\ pc = from
  /\ pc' = to
  /\ UNCHANGED <<options, harness, ok>>

-----------------------------------------------------------------------------
(* What follows a role, in test_mcad.py.                                   *)

\* Mutant: stop_on_error looks at the tests before this one.
EndTestStopsLate(bad) ==
  /\ failedTests' = IF bad THEN failedTests \cup {test} ELSE failedTests
  /\ IF test = NTests \/ (failedTests # {} /\ options.stopOnError)
     THEN /\ pc' = "over"
          /\ UNCHANGED <<test, phase, ok, failed, launched, joined>>
     ELSE /\ pc' = "delete_jobs"
          /\ test' = test + 1
          /\ phase' = "before"
          /\ ok' = TRUE
          /\ failed' = FALSE
          /\ launched' = 0
          /\ joined' = 0

\* The loop of test().
EndTest(bad) ==
  /\ failedTests' = IF bad THEN failedTests \cup {test} ELSE failedTests
  /\ IF test = NTests \/ (failedTests' # {} /\ options.stopOnError)
     THEN /\ pc' = "over"
          /\ UNCHANGED <<test, phase, ok, failed, launched, joined>>
     ELSE /\ pc' = "delete_jobs"
          /\ test' = test + 1
          /\ phase' = "before"
          /\ ok' = TRUE
          /\ failed' = FALSE
          /\ launched' = 0
          /\ joined' = 0

\* The end of cleanup_appwrappers.  A failure of the first one is an exception.
CleanupReturns(success) ==
  /\ UNCHANGED <<options, oc, exitCode>>
  /\ \/ /\ phase = "before"
        /\ success
        /\ pc' = "clean_appwrappers"
        /\ ok' = TRUE
        /\ UNCHANGED <<test, phase, failed, failedTests, launched, joined>>
     \/ /\ phase = "before"
        /\ ~ success
        /\ EndTest(TRUE)
     \/ /\ phase = "after"
        /\ pc' = "capture"
        /\ failed' = (failed \/ ~ success)
        /\ UNCHANGED <<test, phase, ok, failedTests, launched, joined>>

\* The end of generate_mcad_load.
LoadReturns(success) ==
  /\ failed' = ~ success
  /\ exitCode' = [exitCode EXCEPT ![test] = IF success THEN "0" ELSE "1"]
  /\ phase' = "after"
  /\ pc' = "delete_jobs"
  /\ ok' = TRUE
  /\ UNCHANGED <<options, test, failedTests, generator>>

\* dump_prometheus_db and capture_environment.
Capture ==
  /\ pc = "capture"
  /\ \E raises \in BOOLEAN :
        /\ raises => options.faults
        /\ EndTest(failed \/ raises)
  /\ UNCHANGED <<options, oc, exitCode, cluster>>

\* A task before the block of its role fails.
TaskFails ==
  /\ options.faults
  /\ \/ pc \in CleanupTasks /\ CleanupReturns(FALSE)
     \/ pc \in ResetTasks /\ LoadReturns(FALSE)
  /\ UNCHANGED cluster

\* A task of the block fails: on to those of `always`.
BlockFails(from, to) ==
  /\ pc = from
  /\ pc' = to
  /\ ok' = FALSE
  /\ UNCHANGED <<options, harness, generator, cluster>>

-----------------------------------------------------------------------------
(* codeflare_cleanup_appwrappers                                           *)

DeleteJobs ==
  /\ \/ Task("delete_jobs", "delete_appwrappers")
     \/ Task("clean_jobs", "generate")
  /\ NoJob
  /\ UNCHANGED <<generator, awState, deployment>>

\* oc delete returns when they are gone.
DeleteAppWrappers ==
  /\ \/ Task("delete_appwrappers", "create_canary")
     \/ Task("clean_appwrappers", "reset_controller")
  /\ NoAppWrapper
  /\ UNCHANGED <<generator, jobState, deployment>>

CreateCanary ==
  /\ Task("create_canary", "canary_seen")
  /\ NewAppWrapper(Canary)
  /\ UNCHANGED <<generator, jobState, deployment>>

CanarySeen ==
  /\ Task("canary_seen", "canary_scheduled")
  /\ awState[Canary] # "new"
  /\ UNCHANGED <<generator, cluster>>

CanaryScheduled ==
  /\ Task("canary_scheduled", "end_cleanup")
  /\ awState[Canary] = "Completed"
  /\ UNCHANGED <<generator, cluster>>

\* After 200 retries, or a call that fails.
CanaryTimeout == \E task \in CanaryTasks : BlockFails(task, "end_cleanup")

\* always
EndCleanup ==
  /\ pc = "end_cleanup"
  /\ \/ /\ awState' = [awState EXCEPT ![Canary] = "none"]
        /\ CleanupReturns(ok)
     \/ /\ options.faults
        /\ UNCHANGED awState
        /\ CleanupReturns(FALSE)
  /\ UNCHANGED <<jobState, deployment>>

-----------------------------------------------------------------------------
(* codeflare_generate_mcad_load                                            *)

\* oc delete returns when the Pod is gone.
ResetController ==
  /\ Task("reset_controller", "controller_ready")
  /\ controller' = FALSE
  /\ UNCHANGED <<generator, awState, jobState, reported>>

\* The Deployment may not have seen the end of the Pod yet.
ControllerReady ==
  /\ Task("controller_ready", "clean_jobs")
  /\ reported
  /\ UNCHANGED <<generator, cluster>>

ControllerTimeout ==
  /\ pc = "controller_ready"
  /\ LoadReturns(FALSE)
  /\ UNCHANGED cluster

\* generator.py: the maximum of no creation time is an exception.
GeneratorRaises ==
  /\ options.faults \/ Instances(options) = 0
  /\ launched = 0
  /\ BlockFails("generate", "end_load")

\* Mutant: one too many.
LaunchCreate ==
  /\ pc = "generate"
  /\ launched < Instances(options)
  /\ launched' = launched + 1
  /\ oc' = [oc EXCEPT ![<<test, launched'>>] = "running"]
  /\ UNCHANGED <<options, harness, pc, ok, joined, cluster>>

JoinCreate ==
  /\ pc = "generate"
  /\ launched = Instances(options)
  /\ joined < launched
  /\ oc[<<test, joined + 1>>] = "done"
  /\ joined' = joined + 1
  /\ UNCHANGED <<options, harness, pc, ok, launched, oc, cluster>>

\* sys.exit(1), without waiting for the next ones.
GeneratorExits ==
  /\ launched = Instances(options)
  /\ joined < launched
  /\ oc[<<test, joined + 1>>] = "failed"
  /\ BlockFails("generate", "end_load")

\* Mutant: the processes are not waited for.
GeneratorEndsEarly ==
  /\ Task("generate", "wait_appwrappers")
  /\ launched = Instances(options)
  /\ launched > 0
  /\ UNCHANGED <<generator, cluster>>

GeneratorEnds ==
  /\ Task("generate", "wait_appwrappers")
  /\ launched = Instances(options)
  /\ joined = launched
  /\ launched > 0
  /\ UNCHANGED <<generator, cluster>>

\* Mutant: the task does not fail when its retries are over.
AppWrappersAwaited ==
  /\ Task("wait_appwrappers",
          IF options.jobMode THEN "wait_jobs" ELSE "end_load")
  /\ UNCHANGED <<generator, cluster>>

\* Compares the numbers of AppWrappers there are.
AppWrappersCompleted ==
  /\ Task("wait_appwrappers",
          IF options.jobMode THEN "wait_jobs" ELSE "end_load")
  /\ \A a \in AppWrappers : awState[a] = "Completed"
  /\ UNCHANGED <<generator, cluster>>

\* No Job has failed, none is active.
JobsCompleted ==
  /\ Task("wait_jobs", "end_load")
  /\ \A j \in Jobs : jobState[j] \notin {"active", "failed"}
  /\ UNCHANGED <<generator, cluster>>

\* Mutant: retries for ever.
WaitSeesFailure ==
  \/ /\ \E a \in AppWrappers : awState[a] = "Failed"
     /\ BlockFails("wait_appwrappers", "end_load")
  \/ /\ \E j \in Jobs : jobState[j] = "failed"
     /\ BlockFails("wait_jobs", "end_load")

\* An AppWrapper, or a Job, has failed; the retries are over; a call fails.
WaitFails ==
  \E task \in {"wait_appwrappers", "wait_jobs"} : BlockFails(task, "end_load")

\* always
EndLoad ==
  /\ pc = "end_load"
  /\ \/ LoadReturns(ok)
     \/ options.faults /\ LoadReturns(FALSE)
  /\ UNCHANGED cluster

-----------------------------------------------------------------------------
\* `oc create`, in the background.
CreateEnds(a) ==
  /\ oc[a] = "running"
  /\ oc' = [oc EXCEPT ![a] = "done"]
  /\ IF options.jobMode
     THEN NewJob(a) /\ UNCHANGED awState
     ELSE NewAppWrapper(a) /\ UNCHANGED jobState
  /\ UNCHANGED <<options, harness, pc, ok, launched, joined, deployment>>

\* The answer may be lost.
CreateFails(a) ==
  /\ options.faults
  /\ oc[a] = "running"
  /\ oc' = [oc EXCEPT ![a] = "failed"]
  /\ \/ UNCHANGED <<awState, jobState>>
     \/ options.jobMode /\ NewJob(a) /\ UNCHANGED awState
     \/ ~ options.jobMode /\ NewAppWrapper(a) /\ UNCHANGED jobState
  /\ UNCHANGED <<options, harness, pc, ok, launched, joined, deployment>>

\* Nothing is left to do.
Over ==
  /\ pc = "over"
  /\ \A a \in Loads : oc[a] # "running"
  /\ UNCHANGED vars

HarnessStep ==
  \/ DeleteJobs \/ DeleteAppWrappers \/ CreateCanary
  \/ CanarySeen \/ CanaryScheduled \/ CanaryTimeout \/ EndCleanup
  \/ ResetController \/ ControllerReady \/ ControllerTimeout
  \/ GeneratorRaises \/ LaunchCreate \/ JoinCreate
  \/ GeneratorExits \/ GeneratorEnds
  \/ AppWrappersCompleted \/ JobsCompleted \/ WaitFails \/ EndLoad
  \/ Capture \/ TaskFails

CreateStep == \E a \in Loads : CreateEnds(a) \/ CreateFails(a)

Wrapped == {Canary} \cup (IF options.jobMode THEN {} ELSE Loads)
McadStep ==
  ClusterStep(Wrapped) /\ UNCHANGED <<options, harness, pc, ok, generator>>

Next == HarnessStep \/ CreateStep \/ McadStep \/ Over

Spec == Init /\ [][Next]_vars

\* The roles and the tests go on, and every `oc create` ends.
FairSpec == Spec /\ WF_vars(HarnessStep) /\ WF_vars(CreateStep)

-----------------------------------------------------------------------------
(* Properties                                                              *)

Created(t) == {<<t, i>> : i \in 1 .. Instances(options)}

\* The generator of an earlier test has exited at the failure of an `oc
\* create`: it did not wait for the others.
Abandoned(t) == \E i \in Index : oc[<<t, i>>] = "failed"

\* "Ensure that there are no AppWrappers in the namespace", "no Jobs": from
\* the first `oc create` to the verdict, what the tasks of the role count
\* belongs to this test, or was created late by a process that the generator
\* of an earlier test has abandoned.
CleanSlate ==
  pc \in LoadTasks =>
    \A a \in AppWrappers \cup Jobs :
      a # Canary /\ (a[1] = test \/ (a[1] < test /\ Abandoned(a[1])))

\* The exit_code of a test is 0 only if every object it had to create was
\* created and, when these are AppWrappers, each has completed.
PassIsEarned ==
  [][\A t \in Tests :
       exitCode'[t] = "0" /\ exitCode[t] # "0" =>
         \A a \in Created(t) :
           oc[a] = "done" /\ (options.jobMode \/ awState[a] = "Completed")]_vars

\* test() reports a failure exactly when one of the tests it had to run did
\* not pass, and with stop_on_error starts none after it.
VerdictIsSound ==
  /\ pc = "over" /\ failedTests = {} => \A t \in Tests : exitCode[t] = "0"
  /\ \A t \in Tests :
       exitCode[t] = "1" /\ (t < test \/ pc = "over") => t \in failedTests
  /\ options.stopOnError =>
       \A t \in failedTests, a \in Loads : a[1] > t => oc[a] = "none"

\* Whatever becomes of the AppWrappers and of the controller, test() returns.
TestsEnd == <>(pc = "over")
=============================================================================
