--------------------------- MODULE McadLoadProofs ---------------------------
(***************************************************************************)
(* What the load tests guarantee, for any number of tests and of           *)
(* AppWrappers, any set of configurations, whatever fails and whatever the *)
(* controller does.                                                        *)
(***************************************************************************)
EXTENDS McadLoad, ResultsStore, WellFoundedInduction, SequenceTheorems, TLAPS

Waits == {"wait_appwrappers", "wait_jobs"}

\* The processes of the generator.  None of this test is started before the
\* load, none of a later test at all.
GeneratorInv ==
  /\ \A a \in Loads : a[1] > test => oc[a] = "none"
  /\ \A a \in Loads : a[1] = test /\ a[2] > launched => oc[a] = "none"
  /\ \A a \in Loads : a[1] = test /\ a[2] <= joined => oc[a] = "done"
  /\ phase = "before" /\ pc \notin LoadTasks \cup {"end_load"} => launched = 0
  /\ pc \in Waits \/ (pc = "end_load" /\ ok) => joined = Instances(options)
  /\ pc \in ResetTasks \cup LoadTasks => phase = "before" /\ ok
  /\ pc = "end_load" => phase = "before"
  /\ pc = "capture" => phase = "after"
  /\ pc = "wait_jobs" => options.jobMode

\* What they have created is still there when it is waited for.
ObjectInv ==
  /\ \A a \in Loads :
       awState[a] # "none" \/ jobState[a] # "none" =>
         oc[a] \in {"done", "failed"}
  /\ pc \in LoadTasks \cup {"end_load"} /\ ~ options.jobMode =>
       \A a \in Loads : a[1] = test /\ oc[a] = "done" => awState[a] # "none"
  /\ pc = "end_load" /\ ok /\ ~ options.jobMode =>
       \A a \in Loads :
         a[1] = test /\ oc[a] = "done" => awState[a] = "Completed"

\* A test leaves no process behind, but those its generator has abandoned.
Settled(t) ==
  Abandoned(t) \/ \A a \in Loads : a[1] = t => oc[a] # "running"

SettledInv ==
  /\ phase = "after" \/ pc \in Waits \cup {"end_load"} => Settled(test)
  /\ \A t \in Tests : t < test => Settled(t)

Expected(a) ==
  a # Canary /\ (a[1] = test \/ (a[1] < test /\ Abandoned(a[1])))

CleanInv ==
  /\ pc \in
         LoadTasks \cup {"reset_controller", "controller_ready", "clean_jobs"}
       => \A a \in Objects : awState[a] # "none" => Expected(a)
  /\ pc \in LoadTasks => \A a \in Objects : jobState[a] # "none" => Expected(a)

\* A test has a code once its load is over; when it has ended it has failed, or its code is 0; and
\* with stop_on_error the first that failed was the last.
VerdictInv ==
  /\ \A t \in Tests :
       t > test \/ (t = test /\ phase = "before") => exitCode[t] = "none"
  /\ phase = "after" => exitCode[test] = "0" \/ (exitCode[test] = "1" /\ failed)
  /\ \A t \in Tests :
       t < test \/ (t = test /\ pc = "over") => t \in failedTests \/ exitCode[t] = "0"
  /\ \A t \in failedTests : t < test \/ (t = test /\ pc = "over")
  /\ pc = "over" => test = NTests \/ failedTests # {}
  /\ options.stopOnError =>
       failedTests = {} \/ (pc = "over" /\ failedTests = {test})

IInv ==
  TypeOK /\ GeneratorInv /\ ObjectInv /\ SettledInv /\ CleanInv /\ VerdictInv

-----------------------------------------------------------------------------
LEMMA InstancesAreCounted ==
  \A o \in Options : Instances(o) \in Nat /\ Instances(o) <= MaxCount
<1> TAKE o \in Options
<1>1. o.count \in Nat /\ Instances(o) <= MaxCount
  BY OptionsAssumption
<1>2. RoundHalf(o.count) \in Nat
  BY <1>1 DEF RoundHalf
<1>3. QED BY <1>1, <1>2 DEF Instances

LEMMA LoadPairs ==
  /\ \A a \in Loads : a[1] \in Tests /\ a[2] \in Index /\ a = <<a[1], a[2]>>
  /\ \A t \in Tests, i \in Index : <<t, i>> \in Loads
BY DEF Loads

LEMMA LoadObjects ==
  /\ Objects = Loads \cup {Canary}
  /\ Canary \notin Loads
BY OptionsAssumption

LEMMA TestNumbers ==
  /\ NTests \in Nat /\ MaxCount \in Nat
  /\ \A t \in Tests : t \in Nat /\ 1 <= t /\ t <= NTests
  /\ \A i \in Index : i \in Nat /\ 1 <= i /\ i <= MaxCount
  /\ 1 \in Tests
BY OptionsAssumption DEF Tests, Index

LEMMA InitIInv == Init => IInv
<1> SUFFICES ASSUME Init PROVE IInv
  OBVIOUS
<1> USE LoadPairs, LoadObjects, TestNumbers, InstancesAreCounted
    DEF Init, ClusterInit
<1>1. TypeOK
  <2>1. ClusterTypeOK
    BY Zenon DEF ClusterTypeOK
  <2>2. launched \in 0 .. Instances(options) /\ joined \in 0 .. launched
    OBVIOUS
  <2>3. QED BY <2>1, <2>2 DEF TypeOK, CleanupTasks
<1>2. GeneratorInv
  BY DEF GeneratorInv, LoadTasks, ResetTasks, Waits
<1>3. ObjectInv
  BY DEF ObjectInv, LoadTasks
<1>4. SettledInv
  BY DEF SettledInv, Settled, Waits
<1>5. CleanInv
  BY DEF CleanInv, LoadTasks
<1>6. VerdictInv
  BY DEF VerdictInv
<1>7. QED BY <1>1, <1>2, <1>3, <1>4, <1>5, <1>6 DEF IInv

-----------------------------------------------------------------------------
\* An `oc create` that has ended is not started again.
LEMMA SameProcesses ==
  ASSUME UNCHANGED oc
  PROVE  \A t : /\ Abandoned(t)' <=> Abandoned(t)
                /\ Settled(t)' <=> Settled(t)
BY DEF Settled, Abandoned

LEMMA SameExpected ==
  ASSUME UNCHANGED <<test, oc>>
  PROVE  \A a : Expected(a)' <=> Expected(a)
BY SameProcesses DEF Expected

\* Nothing was started, or everything was waited for.
LEMMA QuietIsSettled ==
  ASSUME TypeOK, GeneratorInv, launched = 0 \/ joined = Instances(options)
  PROVE  Settled(test)
<1> SUFFICES ASSUME NEW a \in Loads, a[1] = test
             PROVE  oc[a] # "running"
  BY DEF Settled
<1> QED BY LoadPairs, TestNumbers, InstancesAreCounted DEF TypeOK, GeneratorInv

LEMMA EndTestTypes ==
  ASSUME TypeOK, NEW bad, EndTest(bad), UNCHANGED options
  PROVE  /\ test' \in Tests
         /\ pc' \in {"over", "delete_jobs"}
         /\ phase' \in {"before", "after"}
         /\ ok' \in BOOLEAN
         /\ failed' \in BOOLEAN
         /\ launched' \in 0 .. Instances(options')
         /\ joined' \in 0 .. launched'
         /\ failedTests' \subseteq Tests
<1>1. failedTests' \subseteq Tests
  BY DEF EndTest, TypeOK
<1>2. CASE /\ pc' = "over"
           /\ UNCHANGED <<test, phase, ok, failed, launched, joined>>
  BY <1>1, <1>2 DEF TypeOK
<1>3. CASE /\ test # NTests
           /\ pc' = "delete_jobs" /\ test' = test + 1 /\ phase' = "before"
           /\ ok' = TRUE /\ failed' = FALSE /\ launched' = 0 /\ joined' = 0
  <2>1. test' \in Tests
    BY <1>3, TestNumbers DEF TypeOK, Tests
  <2>2. launched' \in 0 .. Instances(options') /\ joined' \in 0 .. launched'
    BY <1>3, InstancesAreCounted DEF TypeOK
  <2>3. QED BY <1>1, <1>3, <2>1, <2>2
<1>4. QED BY <1>2, <1>3 DEF EndTest

\* The variables keep their types.
LEMMA TypeOKStep ==
  ASSUME IInv, [Next]_vars
  PROVE  TypeOK'
<1> USE LoadPairs, LoadObjects, TestNumbers, InstancesAreCounted
    DEF IInv, harness, generator, cluster, deployment, TypeOK, ClusterTypeOK,
        CleanupTasks, CanaryTasks, ResetTasks, LoadTasks
<1>1. CASE DeleteJobs \/ DeleteAppWrappers \/ CreateCanary
  BY <1>1 DEF DeleteJobs, Task, NoJob, DeleteAppWrappers, NoAppWrapper,
         CreateCanary, NewAppWrapper
<1>2. CASE CanarySeen \/ CanaryScheduled \/ CanaryTimeout
  BY <1>2 DEF CanarySeen, Task, CanaryScheduled, CanaryTimeout, BlockFails
<1>3. CASE ResetController \/ ControllerReady
  BY <1>3 DEF ResetController, Task, ControllerReady
<1>4. CASE EndCleanup
  <2>1. ASSUME NEW success, CleanupReturns(success)
        PROVE  phase = "before" /\ ~ success => EndTest(TRUE)
    BY <2>1 DEF CleanupReturns
  <2>2. QED BY <1>4, EndTestTypes DEF EndCleanup, CleanupReturns
<1>5. CASE ControllerTimeout \/ EndLoad
  BY <1>5 DEF ControllerTimeout, LoadReturns, EndLoad
<1>6. CASE Capture
  BY <1>6, EndTestTypes DEF Capture
<1>7. CASE TaskFails
  BY <1>7, EndTestTypes DEF TaskFails, CleanupReturns, LoadReturns
<1>8. CASE LaunchCreate
  <2>1. launched' \in 0 .. Instances(options) /\ joined \in 0 .. launched'
    BY <1>8 DEF LaunchCreate
  <2>2. QED BY <1>8, <2>1 DEF LaunchCreate
<1>9. CASE JoinCreate
  BY <1>9 DEF JoinCreate
<1>10. CASE GeneratorEnds
  BY <1>10 DEF GeneratorEnds, Task
<1>11. CASE AppWrappersCompleted \/ JobsCompleted
  BY <1>11 DEF AppWrappersCompleted, Task, AppWrappers, JobsCompleted
<1>12. CASE GeneratorRaises \/ GeneratorExits \/ WaitFails
  BY <1>12 DEF GeneratorRaises, BlockFails, GeneratorExits, WaitFails
<1>13. CASE CreateStep
  BY <1>13 DEF CreateStep, CreateEnds, CreateFails, NewJob, NewAppWrapper
<1>14. CASE McadStep
  <2>1. awState' \in
          [Objects -> {"none", "new", "running", "Completed", "Failed"}]
    BY <1>14 DEF McadStep, ClusterStep, Dispatch, Finish, Collect, JobStarts,
             JobEnds, ControllerStarts, ReportDeployment
  <2>2. jobState' \in
          [Objects -> {"none", "new", "active", "complete", "failed"}]
    BY <1>14 DEF McadStep, ClusterStep, Dispatch, Finish, Collect, JobStarts,
             JobEnds, ControllerStarts, ReportDeployment, NewJob
  <2>3. controller' \in BOOLEAN /\ reported' \in BOOLEAN
    BY <1>14 DEF McadStep, ClusterStep, Dispatch, Finish, Collect, JobStarts,
             JobEnds, ControllerStarts, ReportDeployment
  <2>4. QED BY <1>14, <2>1, <2>2, <2>3 DEF McadStep
<1>15. CASE Over \/ UNCHANGED vars
  BY <1>15 DEF Over, vars
<1>16. QED
  BY <1>1, <1>2, <1>3, <1>4, <1>5, <1>6, <1>7, <1>8, <1>9, <1>10, <1>11,
         <1>12, <1>13, <1>14, <1>15 DEF Next, HarnessStep

\* The processes are started and waited for in turn.
LEMMA GeneratorInvStep ==
  ASSUME IInv, [Next]_vars
  PROVE  GeneratorInv'
<1> USE LoadPairs, LoadObjects, TestNumbers, InstancesAreCounted
    DEF IInv, harness, generator, cluster, deployment, TypeOK, GeneratorInv,
        LoadTasks, ResetTasks, Waits
<1>1. CASE DeleteJobs \/ DeleteAppWrappers \/ CreateCanary
  BY <1>1 DEF DeleteJobs, Task, NoJob, DeleteAppWrappers, NoAppWrapper,
         CreateCanary, NewAppWrapper
<1>2. CASE CanarySeen \/ CanaryScheduled \/ CanaryTimeout
  BY <1>2 DEF CanarySeen, Task, CanaryScheduled, CanaryTimeout, BlockFails,
         CanaryTasks
<1>3. CASE ResetController \/ ControllerReady
  BY <1>3 DEF ResetController, Task, ControllerReady
<1>4. CASE EndCleanup
  BY <1>4 DEF EndCleanup, CleanupReturns, EndTest
<1>5. CASE ControllerTimeout \/ EndLoad
  BY <1>5 DEF ControllerTimeout, LoadReturns, EndLoad
<1>6. CASE Capture
  BY <1>6 DEF Capture, EndTest
<1>7. CASE TaskFails
  BY <1>7 DEF TaskFails, CleanupReturns, LoadReturns, EndTest, CleanupTasks
<1>8. CASE LaunchCreate
  BY <1>8 DEF LaunchCreate
<1>9. CASE JoinCreate
  BY <1>9 DEF JoinCreate
<1>10. CASE GeneratorEnds
  BY <1>10 DEF GeneratorEnds, Task
<1>11. CASE AppWrappersCompleted \/ JobsCompleted
  BY <1>11 DEF AppWrappersCompleted, Task, AppWrappers, JobsCompleted
<1>12. CASE GeneratorRaises \/ GeneratorExits \/ WaitFails
  BY <1>12 DEF GeneratorRaises, BlockFails, GeneratorExits, WaitFails
<1>13. CASE CreateStep
  BY <1>13 DEF CreateStep, CreateEnds, CreateFails, NewJob, NewAppWrapper
<1>14. CASE McadStep
  BY <1>14 DEF McadStep, ClusterStep, Dispatch, Finish, Collect, JobStarts,
         JobEnds, ControllerStarts, ReportDeployment, NewJob, Wrapped
<1>15. CASE Over \/ UNCHANGED vars
  BY <1>15 DEF Over, vars
<1>16. QED
  BY <1>1, <1>2, <1>3, <1>4, <1>5, <1>6, <1>7, <1>8, <1>9, <1>10, <1>11,
         <1>12, <1>13, <1>14, <1>15 DEF Next, HarnessStep

\* Nothing removes what the generator creates before the load is over.
LEMMA ObjectInvStep ==
  ASSUME IInv, [Next]_vars
  PROVE  ObjectInv'
<1> USE LoadPairs, LoadObjects, TestNumbers, InstancesAreCounted
    DEF IInv, harness, generator, cluster, deployment, TypeOK, ClusterTypeOK,
        ObjectInv, GeneratorInv, LoadTasks, ResetTasks, Waits
<1>1. CASE DeleteJobs \/ DeleteAppWrappers \/ CreateCanary
  BY <1>1 DEF DeleteJobs, Task, NoJob, DeleteAppWrappers, NoAppWrapper,
         CreateCanary, NewAppWrapper
<1>2. CASE CanarySeen \/ CanaryScheduled \/ CanaryTimeout
  BY <1>2 DEF CanarySeen, Task, CanaryScheduled, CanaryTimeout, BlockFails,
         CanaryTasks
<1>3. CASE ResetController \/ ControllerReady
  BY <1>3 DEF ResetController, Task, ControllerReady
<1>4. CASE EndCleanup
  BY <1>4 DEF EndCleanup, CleanupReturns, EndTest
<1>5. CASE ControllerTimeout \/ EndLoad
  BY <1>5 DEF ControllerTimeout, LoadReturns, EndLoad
<1>6. CASE Capture
  BY <1>6 DEF Capture, EndTest
<1>7. CASE TaskFails
  BY <1>7 DEF TaskFails, CleanupReturns, LoadReturns, EndTest, CleanupTasks
<1>8. CASE LaunchCreate
  BY <1>8 DEF LaunchCreate
<1>9. CASE JoinCreate
  BY <1>9 DEF JoinCreate
<1>10. CASE GeneratorEnds
  BY <1>10 DEF GeneratorEnds, Task
<1>11. CASE AppWrappersCompleted \/ JobsCompleted
  BY <1>11 DEF AppWrappersCompleted, Task, AppWrappers, JobsCompleted
<1>12. CASE GeneratorRaises \/ GeneratorExits \/ WaitFails
  BY <1>12 DEF GeneratorRaises, BlockFails, GeneratorExits, WaitFails
<1>13. CASE CreateStep
  BY <1>13 DEF CreateStep, CreateEnds, CreateFails, NewJob, NewAppWrapper
<1>14. CASE McadStep
  BY <1>14 DEF McadStep, ClusterStep, Dispatch, Finish, Collect, JobStarts,
         JobEnds, ControllerStarts, ReportDeployment, NewJob, Wrapped
<1>15. CASE Over \/ UNCHANGED vars
  BY <1>15 DEF Over, vars
<1>16. QED
  BY <1>1, <1>2, <1>3, <1>4, <1>5, <1>6, <1>7, <1>8, <1>9, <1>10, <1>11,
         <1>12, <1>13, <1>14, <1>15 DEF Next, HarnessStep

\* Only a generator that exits at a failure leaves processes behind.
LEMMA SettledInvStep ==
  ASSUME IInv, [Next]_vars
  PROVE  SettledInv'
<1> USE LoadPairs, LoadObjects, TestNumbers, InstancesAreCounted
    DEF IInv, harness, generator, cluster, deployment, TypeOK, GeneratorInv,
        SettledInv, LoadTasks, ResetTasks, Waits
<1>1. CASE DeleteJobs \/ DeleteAppWrappers \/ CreateCanary
  BY <1>1, SameProcesses DEF DeleteJobs, DeleteAppWrappers, CreateCanary, Task
<1>2. CASE CanarySeen \/ CanaryScheduled \/ CanaryTimeout
  BY <1>2, SameProcesses 
     DEF CanarySeen, CanaryScheduled, CanaryTimeout, Task, BlockFails,
         CanaryTasks
<1>3. CASE ResetController \/ ControllerReady
  BY <1>3, SameProcesses DEF ResetController, ControllerReady, Task
<1>4. CASE EndCleanup
  BY <1>4, SameProcesses, QuietIsSettled
  DEF EndCleanup, CleanupReturns, EndTest
<1>5. CASE ControllerTimeout \/ EndLoad
  BY <1>5, SameProcesses, QuietIsSettled
  DEF ControllerTimeout, EndLoad, LoadReturns
<1>6. CASE Capture
  BY <1>6, SameProcesses, QuietIsSettled DEF Capture, EndTest
<1>7. CASE TaskFails
  BY <1>7, SameProcesses, QuietIsSettled
  DEF TaskFails, CleanupReturns, LoadReturns, EndTest, CleanupTasks
<1>8. CASE LaunchCreate
  BY <1>8 DEF LaunchCreate, Settled, Abandoned
<1>9. CASE JoinCreate
  BY <1>9, SameProcesses DEF JoinCreate
<1>10. CASE GeneratorEnds
  BY <1>10, SameProcesses, QuietIsSettled DEF GeneratorEnds, Task
<1>11. CASE AppWrappersCompleted \/ JobsCompleted
  BY <1>11, SameProcesses DEF AppWrappersCompleted, JobsCompleted, Task
<1>12. CASE GeneratorRaises \/ GeneratorExits \/ WaitFails
  <2>1. CASE GeneratorRaises
    BY <2>1, SameProcesses, QuietIsSettled DEF GeneratorRaises, BlockFails
  <2>2. CASE GeneratorExits
    <3>1. joined + 1 \in Index
      BY <2>2 DEF GeneratorExits, Index
    <3>2. Abandoned(test)
      BY <2>2, <3>1 DEF GeneratorExits, Abandoned
    <3>3. QED BY <2>2, <3>2, SameProcesses
              DEF GeneratorExits, BlockFails, Settled
  <2>3. CASE WaitFails
    BY <2>3, SameProcesses DEF WaitFails, BlockFails
  <2>4. QED BY <1>12, <2>1, <2>2, <2>3
<1>13. CASE CreateStep
  <2>1. PICK a \in Loads : CreateEnds(a) \/ CreateFails(a)
    BY <1>13 DEF CreateStep
  <2>2. \A t \in Tests : Settled(t) => Settled(t)'
    BY <2>1 DEF CreateEnds, CreateFails, Settled, Abandoned
  <2>3. QED BY <2>1, <2>2 DEF CreateEnds, CreateFails
<1>14. CASE McadStep
  BY <1>14, SameProcesses DEF McadStep
<1>15. CASE Over \/ UNCHANGED vars
  BY <1>15, SameProcesses DEF Over, vars
<1>16. QED
  BY <1>1, <1>2, <1>3, <1>4, <1>5, <1>6, <1>7, <1>8, <1>9, <1>10, <1>11,
         <1>12, <1>13, <1>14, <1>15 DEF Next, HarnessStep

\* What was there before the load is gone.
LEMMA CleanInvStep ==
  ASSUME IInv, [Next]_vars
  PROVE  CleanInv'
<1> USE LoadPairs, LoadObjects, TestNumbers, InstancesAreCounted
    DEF IInv, harness, generator, cluster, deployment, TypeOK, ClusterTypeOK,
        CleanInv, GeneratorInv, ObjectInv, SettledInv, LoadTasks,
        ResetTasks, Waits
<1>1. CASE DeleteJobs \/ DeleteAppWrappers \/ CreateCanary
  BY <1>1, SameExpected
  DEF DeleteJobs, DeleteAppWrappers, CreateCanary, Task, NoJob, NoAppWrapper
<1>2. CASE CanarySeen \/ CanaryScheduled \/ CanaryTimeout
  BY <1>2 DEF CanarySeen, CanaryScheduled, CanaryTimeout, Task, BlockFails,
               CanaryTasks
<1>3. CASE ResetController \/ ControllerReady
  BY <1>3, SameExpected DEF ResetController, ControllerReady, Task
<1>4. CASE EndCleanup
  BY <1>4 DEF EndCleanup, CleanupReturns, EndTest
<1>5. CASE ControllerTimeout \/ EndLoad
  BY <1>5 DEF ControllerTimeout, EndLoad, LoadReturns
<1>6. CASE Capture
  BY <1>6 DEF Capture, EndTest
<1>7. CASE TaskFails
  BY <1>7 DEF TaskFails, CleanupReturns, LoadReturns, EndTest
<1>8. CASE LaunchCreate
  BY <1>8 DEF LaunchCreate, Expected, Abandoned
<1>9. CASE JoinCreate
  BY <1>9, SameExpected DEF JoinCreate
<1>10. CASE GeneratorEnds
  BY <1>10, SameExpected DEF GeneratorEnds, Task
<1>11. CASE AppWrappersCompleted \/ JobsCompleted
  BY <1>11, SameExpected DEF AppWrappersCompleted, JobsCompleted, Task
<1>12. CASE GeneratorRaises \/ GeneratorExits \/ WaitFails
  BY <1>12 DEF GeneratorRaises, GeneratorExits, WaitFails, BlockFails
<1>13. CASE CreateStep
  <2>1. PICK a \in Loads : CreateEnds(a) \/ CreateFails(a)
    BY <1>13 DEF CreateStep
  <2>2. oc[a] = "running" /\ UNCHANGED <<test, pc>>
    BY <2>1 DEF CreateEnds, CreateFails
  <2>3. \A t \in Tests : Abandoned(t) => Abandoned(t)'
    BY <2>1 DEF CreateEnds, CreateFails, Abandoned
  <2>4. \A b \in Objects : Expected(b) => Expected(b)'
    BY <2>2, <2>3 DEF Expected
  <2>5. Expected(a)
    BY <2>2 DEF Expected, Settled
  <2>6. \A b \in Objects \ {a} :
          awState'[b] = awState[b] /\ jobState'[b] = jobState[b]
    BY <2>1 DEF CreateEnds, CreateFails, NewJob, NewAppWrapper
  <2>7. QED BY <2>2, <2>4, <2>5, <2>6
<1>14. CASE McadStep
  <2>1. \A a : Expected(a)' <=> Expected(a)
    BY <1>14, SameExpected DEF McadStep
  <2>2. \A a \in Objects : awState'[a] # "none" => awState[a] # "none"
    BY <1>14 DEF McadStep, ClusterStep, Dispatch, Finish, Collect, JobStarts,
             JobEnds, ControllerStarts, ReportDeployment
  <2>3. \A a \in Objects :
          jobState'[a] # "none" => jobState[a] # "none" \/ awState[a] # "none"
    BY <1>14 DEF McadStep, ClusterStep, Dispatch, Finish, Collect, JobStarts,
             JobEnds, ControllerStarts, ReportDeployment, NewJob
  <2>4. QED BY <1>14, <2>1, <2>2, <2>3 DEF McadStep
<1>15. CASE Over \/ UNCHANGED vars
  BY <1>15, SameExpected DEF Over, vars
<1>16. QED
  BY <1>1, <1>2, <1>3, <1>4, <1>5, <1>6, <1>7, <1>8, <1>9, <1>10, <1>11,
         <1>12, <1>13, <1>14, <1>15 DEF Next, HarnessStep

\* The end of a test records its failure and, if there is a next test, starts it.
LEMMA EndTestVerdict ==
  ASSUME TypeOK, VerdictInv, NEW bad \in BOOLEAN, EndTest(bad),
         pc # "over", UNCHANGED <<options, exitCode>>,
         bad \/ exitCode[test] = "0"
  PROVE  VerdictInv'
<1> USE TestNumbers DEF TypeOK, VerdictInv
<1>1. failedTests' = IF bad THEN failedTests \cup {test} ELSE failedTests
  BY DEF EndTest
<1>2. \A t \in failedTests : t < test
  OBVIOUS
<1>3. CASE test = NTests \/ (failedTests' # {} /\ options.stopOnError)
  BY <1>1, <1>2, <1>3 DEF EndTest
<1>4. CASE ~ (test = NTests \/ (failedTests' # {} /\ options.stopOnError))
  <2>1. /\ pc' = "delete_jobs" /\ test' = test + 1 /\ phase' = "before"
    BY <1>4 DEF EndTest
  <2>2. options.stopOnError => failedTests' = {}
    BY <1>4
  <2>3. QED BY <1>1, <1>2, <2>1, <2>2
<1>5. QED BY <1>3, <1>4

\* Most steps record nothing about the tests.
LEMMA NothingRecorded ==
  ASSUME VerdictInv, pc # "over", pc' # "over",
         UNCHANGED <<options, test, phase, failed, exitCode, failedTests>>
  PROVE  VerdictInv'
BY DEF VerdictInv

LEMMA CleanupVerdict ==
  ASSUME TypeOK, VerdictInv, pc # "over", NEW success \in BOOLEAN, CleanupReturns(success)
  PROVE  VerdictInv'
<1>1. CASE phase = "before" /\ ~ success
  <2>1. EndTest(TRUE) /\ UNCHANGED <<options, exitCode>>
    BY <1>1 DEF CleanupReturns
  <2>2. QED BY <2>1, EndTestVerdict
<1>2. CASE phase = "after" \/ success
  BY <1>2 DEF CleanupReturns, VerdictInv
<1>3. QED BY <1>1, <1>2 DEF TypeOK

LEMMA LoadVerdict ==
  ASSUME TypeOK, VerdictInv, pc # "over", phase = "before",
         NEW success \in BOOLEAN, LoadReturns(success)
  PROVE  VerdictInv'
<1>1. /\ \A t \in Tests : t # test => exitCode'[t] = exitCode[t]
      /\ exitCode'[test] = IF success THEN "0" ELSE "1"
      /\ phase' = "after" /\ pc' = "delete_jobs"
      /\ UNCHANGED <<options, test, failedTests>>
  BY DEF LoadReturns, TypeOK
<1>2. exitCode'[test] = "0" \/ (exitCode'[test] = "1" /\ failed')
  <2>1. CASE success
    BY <1>1, <2>1
  <2>2. CASE ~ success
    <3>1. failed'
      BY <2>2 DEF LoadReturns
    <3>2. QED BY <1>1, <2>2, <3>1
  <2>3. QED BY <2>1, <2>2
<1>3. \A t \in failedTests : t < test
  BY DEF VerdictInv
<1>4. test \in Tests /\ failedTests \subseteq Tests
  BY DEF TypeOK
<1>5. QED BY <1>1, <1>2, <1>3, <1>4, TestNumbers DEF VerdictInv

\* The code of a test and the list of the failed ones agree.
LEMMA VerdictInvStep ==
  ASSUME IInv, [Next]_vars
  PROVE  VerdictInv'
<1>0. TypeOK /\ VerdictInv
  BY DEF IInv
<1> USE DEF harness, generator, cluster
<1>1. CASE DeleteJobs \/ DeleteAppWrappers \/ CreateCanary
  BY <1>0, <1>1, NothingRecorded DEF DeleteJobs, DeleteAppWrappers, CreateCanary, Task
<1>2. CASE CanarySeen \/ CanaryScheduled \/ CanaryTimeout
  BY <1>0, <1>2, NothingRecorded
     DEF CanarySeen, CanaryScheduled, CanaryTimeout, Task, BlockFails, CanaryTasks
<1>3. CASE ResetController \/ ControllerReady
  BY <1>0, <1>3, NothingRecorded DEF ResetController, ControllerReady, Task
<1>4. CASE EndCleanup
  <2>1. pc # "over" /\ (CleanupReturns(ok) \/ CleanupReturns(FALSE))
    BY <1>4 DEF EndCleanup
  <2>2. ok \in BOOLEAN
    BY <1>0 DEF TypeOK
  <2>3. QED BY <1>0, <2>1, <2>2, CleanupVerdict
<1>5. CASE ControllerTimeout \/ EndLoad
  <2>1. pc # "over" /\ phase = "before" /\ (LoadReturns(ok) \/ LoadReturns(FALSE))
    BY <1>5 DEF ControllerTimeout, EndLoad, IInv, GeneratorInv, ResetTasks
  <2>2. ok \in BOOLEAN
    BY <1>0 DEF TypeOK
  <2>3. QED BY <1>0, <2>1, <2>2, LoadVerdict
<1>6. CASE Capture
  <2>1. PICK raises \in BOOLEAN : EndTest(failed \/ raises)
    BY <1>6 DEF Capture
  <2>2. phase = "after" /\ pc # "over" /\ UNCHANGED <<options, exitCode>>
    BY <1>6 DEF Capture, IInv, GeneratorInv
  <2>3. (failed \/ raises) \/ exitCode[test] = "0"
    BY <1>0, <2>2 DEF VerdictInv
  <2>4. (failed \/ raises) \in BOOLEAN
    OBVIOUS
  <2>5. QED BY <1>0, <2>1, <2>2, <2>3, <2>4, EndTestVerdict
<1>7. CASE TaskFails
  <2>1. CASE pc \in CleanupTasks /\ CleanupReturns(FALSE)
    BY <1>0, <2>1, CleanupVerdict DEF CleanupTasks
  <2>2. CASE pc \in ResetTasks /\ LoadReturns(FALSE)
    BY <1>0, <2>2, LoadVerdict DEF ResetTasks, IInv, GeneratorInv
  <2>3. QED BY <1>7, <2>1, <2>2 DEF TaskFails
<1>8. CASE LaunchCreate \/ JoinCreate \/ GeneratorEnds
  BY <1>0, <1>8, NothingRecorded DEF LaunchCreate, JoinCreate, GeneratorEnds, Task
<1>9. CASE AppWrappersCompleted \/ JobsCompleted
  BY <1>0, <1>9, NothingRecorded DEF AppWrappersCompleted, JobsCompleted, Task
<1>10. CASE GeneratorRaises \/ GeneratorExits \/ WaitFails
  BY <1>0, <1>10, NothingRecorded DEF GeneratorRaises, GeneratorExits, WaitFails, BlockFails
<1>11. CASE UNCHANGED <<options, harness, pc>>
  BY <1>0, <1>11 DEF VerdictInv
<1>12. CreateStep \/ McadStep \/ Over \/ UNCHANGED vars => UNCHANGED <<options, harness, pc>>
  BY DEF CreateStep, CreateEnds, CreateFails, McadStep, Over, vars
<1>13. QED
  BY <1>1, <1>2, <1>3, <1>4, <1>5, <1>6, <1>7, <1>8, <1>9, <1>10, <1>11, <1>12
     DEF Next, HarnessStep

LEMMA StepIInv == IInv /\ [Next]_vars => IInv'
BY TypeOKStep, GeneratorInvStep, ObjectInvStep, SettledInvStep, CleanInvStep, VerdictInvStep
   DEF IInv

LEMMA Invariance == Spec => []IInv
<1>1. Init => IInv
  BY InitIInv
<1>2. IInv /\ [Next]_vars => IInv'
  BY StepIInv
<1>3. QED BY <1>1, <1>2, PTL DEF Spec

-----------------------------------------------------------------------------
\* Every variable keeps its type.
THEOREM TypeCorrect == Spec => []TypeOK
<1>1. IInv => TypeOK
  BY DEF IInv
<1>2. QED BY <1>1, Invariance, PTL

\* What a test counts is its own, or comes from a process that the generator
\* of an earlier test has abandoned.
THEOREM NothingIsLeft == Spec => []CleanSlate
<1>1. IInv => CleanSlate
  BY LoadObjects
     DEF IInv, CleanInv, CleanSlate, Expected, AppWrappers, Jobs
<1>2. QED BY <1>1, Invariance, PTL

\* The exit_code of a test is 0 only if all it had to create was created and
\* its AppWrappers have completed.
THEOREM PassesAreEarned == Spec => PassIsEarned
<1>1. IInv /\ [Next]_vars =>
        [\A t \in Tests :
           exitCode'[t] = "0" /\ exitCode[t] # "0" =>
             \A a \in Created(t) :
               oc[a] = "done" /\
               (options.jobMode \/ awState[a] = "Completed")]_vars
  <2> SUFFICES ASSUME IInv, [Next]_vars, NEW t \in Tests,
                      exitCode'[t] = "0", exitCode[t] # "0",
                      NEW a \in Created(t)
               PROVE  /\ oc[a] = "done"
                      /\ options.jobMode \/ awState[a] = "Completed"
    OBVIOUS
  <2>1. CASE EndLoad
    <3>1. t = test /\ ok /\ pc = "end_load"
      BY <2>1 DEF EndLoad, LoadReturns, IInv, TypeOK
    <3>2. joined = Instances(options)
      BY <3>1 DEF IInv, GeneratorInv
    <3>3. a \in Loads /\ a[1] = test /\ a[2] <= joined
      BY <3>1, <3>2, LoadPairs, TestNumbers, InstancesAreCounted
         DEF Created, IInv, TypeOK, Loads, Index
    <3>4. QED BY <3>1, <3>3 DEF IInv, GeneratorInv, ObjectInv
  <2>2. CASE ~ EndLoad
    BY <2>2 DEF Next, HarnessStep, CreateStep, McadStep, Over, vars, harness,
       DeleteJobs, DeleteAppWrappers, CreateCanary, CanarySeen,
       CanaryScheduled, CanaryTimeout, EndCleanup, ResetController,
       ControllerReady, ControllerTimeout, GeneratorRaises, LaunchCreate,
       JoinCreate, GeneratorExits, GeneratorEnds, AppWrappersCompleted,
       JobsCompleted, WaitFails, Capture, TaskFails, CreateEnds, CreateFails,
       Task, BlockFails, CleanupReturns, LoadReturns, EndTest, IInv, TypeOK
  <2>3. QED BY <2>1, <2>2
<1>2. QED BY <1>1, Invariance, PTL DEF Spec, PassIsEarned

\* test() reports a failure exactly when a test it had to run did not pass, and starts none after it
\* when it has to stop on errors.
THEOREM VerdictsAreSound == Spec => []VerdictIsSound
<1>1. IInv => VerdictIsSound
  <2> SUFFICES ASSUME IInv PROVE VerdictIsSound
    OBVIOUS
  <2> USE TestNumbers DEF IInv, TypeOK
  <2>1. pc = "over" /\ failedTests = {} => \A t \in Tests : exitCode[t] = "0"
    BY DEF VerdictInv
  <2>2. \A t \in Tests :
          exitCode[t] = "1" /\ (t < test \/ pc = "over") => t \in failedTests
    BY DEF VerdictInv
  <2>3. options.stopOnError =>
          \A t \in failedTests, a \in Loads : a[1] > t => oc[a] = "none"
    BY LoadPairs DEF VerdictInv, GeneratorInv
  <2>4. QED BY <2>1, <2>2, <2>3 DEF VerdictIsSound
<1>2. QED BY <1>1, Invariance, PTL

(***************************************************************************)
(* What the reports of a test can be relied upon for, whatever the plan of *)
(* the driver, the artifacts that are there, the state of the cache, and   *)
(* the time the driver is killed at. The only thing the proof asks of the  *)
(* table of the parsers is that each list of steps is Sound.               *)
(***************************************************************************)

\* A set of numbers has a least one.
LEMMA LeastOf ==
  ASSUME NEW T, T \subseteq Nat, T # {}
  PROVE  \E x \in T : \A y \in T : x <= y
<1>1. PICK x \in T : \A y \in T : <<y, x>> \notin OpToRel(<, Nat)
  BY NatLessThanWellFounded, WFMin
<1>2. \A y \in T : x \in Nat /\ y \in Nat /\ ~(y < x)
  BY <1>1 DEF OpToRel
<1>3. QED BY <1>2

-----------------------------------------------------------------------------
(* Parse is a recursive function: what it is after each of its steps. *)

Begin(fields) == [ok |-> TRUE, fields |-> fields]
UpTo(g, steps, files_, fields, n) ==
  g = [i \in 0 .. n |-> IF i = 0 THEN Begin(fields) ELSE Advance(g[i - 1], steps[i], files_)]

\* There is a function that parses the first n steps, for every n.
LEMMA UpToExists ==
  ASSUME NEW steps, NEW f, NEW x
  PROVE  \A n \in Nat : \E g : UpTo(g, steps, f, x, n)
<1> DEFINE T == {n \in Nat : ~\E g : UpTo(g, steps, f, x, n)}
<1>1. SUFFICES ASSUME T # {} PROVE FALSE
  OBVIOUS
<1>2. PICK n \in T : \A m \in T : n <= m
  BY <1>1, LeastOf
<1>3. n \in Nat /\ ~\E g : UpTo(g, steps, f, x, n)
  BY <1>2
<1>4. n # 0
  <2>1. UpTo([i \in 0 .. 0 |-> Begin(x)], steps, f, x, 0)
    BY DEF UpTo
  <2>2. QED BY <1>3, <2>1
<1>5. n - 1 \in Nat /\ ~(n <= n - 1)
  BY <1>3, <1>4
<1>6. PICK g : UpTo(g, steps, f, x, n - 1)
  BY <1>2, <1>5
<1> DEFINE h == [i \in 0 .. n |-> IF i = n THEN Advance(g[n - 1], steps[n], f) ELSE g[i]]
<1>7. \A i \in 0 .. n - 1 :
        g[i] = IF i = 0 THEN Begin(x) ELSE Advance(g[i - 1], steps[i], f)
  BY <1>6 DEF UpTo
<1>8. ASSUME NEW i \in 0 .. n
      PROVE  h[i] = IF i = 0 THEN Begin(x) ELSE Advance(h[i - 1], steps[i], f)
  <2>1. CASE i = n
    <3>1. h[n] = Advance(g[n - 1], steps[n], f) /\ h[n - 1] = g[n - 1]
      BY <1>3, <1>4
    <3>2. QED BY <1>4, <2>1, <3>1
  <2>2. CASE i # n
    <3>1. i \in 0 .. n - 1 /\ h[i] = g[i] /\ (i # 0 => h[i - 1] = g[i - 1])
      BY <1>3, <2>2
    <3>2. QED BY <1>7, <3>1
  <2>3. QED BY <2>1, <2>2
<1>9. UpTo(h, steps, f, x, n)
  <2> DEFINE k == [i \in 0 .. n |-> IF i = 0 THEN Begin(x) ELSE Advance(h[i - 1], steps[i], f)]
  <2>1. \A i \in 0 .. n : h[i] = k[i]
    BY <1>8
  <2>2. h = k
    BY <2>1
  <2>3. QED BY <2>2 DEF UpTo
<1>10. QED BY <1>3, <1>9

\* Parsing goes from one step to the next one.
LEMMA ParseSteps ==
  ASSUME NEW steps, Len(steps) \in Nat, NEW f, NEW x
  PROVE  \E g : /\ g[0] = Begin(x)
                /\ \A i \in 1 .. Len(steps) : g[i] = Advance(g[i - 1], steps[i], f)
                /\ Parse(steps, f, x) = g[Len(steps)]
<1> DEFINE g == CHOOSE h : UpTo(h, steps, f, x, Len(steps))
<1>1. UpTo(g, steps, f, x, Len(steps))
  BY UpToExists
<1>2. Parse(steps, f, x) = g[Len(steps)]
  BY DEF Parse, UpTo, Begin
<1> HIDE DEF g
<1>3. g[0] = Begin(x) /\ \A i \in 1 .. Len(steps) : g[i] = Advance(g[i - 1], steps[i], f)
  BY <1>1 DEF UpTo
<1>4. QED BY <1>2, <1>3

\* What holds at first, and after a step when it held before it, holds at last.
LEMMA ParseInduction ==
  ASSUME NEW steps, Len(steps) \in Nat, NEW f, NEW x, NEW Q, Begin(x) \in Q[0],
         \A i \in 1 .. Len(steps) : \A p \in Q[i - 1] : Advance(p, steps[i], f) \in Q[i]
  PROVE  Parse(steps, f, x) \in Q[Len(steps)]
<1>1. PICK g : /\ g[0] = Begin(x)
               /\ \A i \in 1 .. Len(steps) : g[i] = Advance(g[i - 1], steps[i], f)
               /\ Parse(steps, f, x) = g[Len(steps)]
  BY ParseSteps
<1> DEFINE T == {i \in 0 .. Len(steps) : g[i] \notin Q[i]}
<1>2. SUFFICES ASSUME T # {} PROVE FALSE
  BY <1>1
<1>a. T \subseteq Nat
  OBVIOUS
<1>3. PICK n \in T : \A m \in T : n <= m
  BY <1>2, <1>a, LeastOf
<1>4. n \in 1 .. Len(steps) /\ n - 1 \in 0 .. Len(steps) /\ ~(n <= n - 1)
  BY <1>1, <1>3
<1>5. g[n - 1] \in Q[n - 1]
  BY <1>3, <1>4
<1>6. QED BY <1>1, <1>3, <1>4, <1>5

-----------------------------------------------------------------------------
(* The table of the parsers. *)

\* The fields other steps need, and the one the matrix needs; those of the
\* steps that are always parsed.
KeyNames == {"nodes_info", "test_config", "user_count", "test_case_config", "thresholds",
             "user_data"}
AlwaysNames == {"from_local_env", "test_config", "thresholds", "check_thresholds"}

\* A step that others need the fields of loses them only for an artifact that
\* is mandatory, or cannot be parsed; and so for a step that raises.
SoundStep(w, s) ==
  /\ s.nodir \in Levels \cup {"raise"} /\ s.absent \in Levels \cup {"raise"}
  /\ s.bad \in Levels \cup {"raise"}
  /\ s.nodir = "raise" => s.dir \in Mandatory[w]
  /\ s.absent = "raise" => s.files \subseteq Mandatory[w]
  /\ s.from \subseteq s.needs /\ \A f \in s.needs : f \in KeyNames
  /\ \A f \in s.fields : f \notin AlwaysNames
  /\ \A f \in s.fields : f \in KeyNames =>
       /\ s.from = {}
       /\ s.joins \/ /\ s.nodir = "none" => s.dir \in {""} \cup Mandatory[w]
                     /\ s.absent = "none" => s.files \subseteq Mandatory[w]

\* What a step needs, or completes, was given before it.
Ready(have, s, i) ==
  \A f \in KeyNames \cup s[i].needs :
    f \in s[i].needs \/ (s[i].joins /\ f \in s[i].fields) =>
      f \in have \/ \E j \in 1 .. i - 1 : f \in s[j].fields

Fine(w, have, s, i) == SoundStep(w, s[i]) /\ Ready(have, s, i)
Sound(w, have, s) ==
  /\ \E S : s \in Seq(S)
  /\ \A i \in 1 .. Len(s) : Fine(w, have, s, i)

Plain(w, s) == SoundStep(w, s) /\ s.needs = {} /\ ~ s.joins
Needing(w, s, fields) == SoundStep(w, s) /\ s.needs = fields /\ ~ s.joins
Joining(w, s, fields) == SoundStep(w, s) /\ s.needs = {} /\ s.fields = fields

LEMMA TuplesAreSequences ==
  /\ \A a : Len(<<a>>) = 1 /\ <<a>> \in Seq({a})
  /\ \A a, b : Len(<<a, b>>) = 2 /\ <<a, b>> \in Seq({a, b})
  /\ \A a, b, c : Len(<<a, b, c>>) = 3 /\ <<a, b, c>> \in Seq({a, b, c})
  /\ \A a, b, c, d : Len(<<a, b, c, d>>) = 4 /\ <<a, b, c, d>> \in Seq({a, b, c, d})
  /\ \A a, b, c, d, e :
       Len(<<a, b, c, d, e>>) = 5 /\ <<a, b, c, d, e>> \in Seq({a, b, c, d, e})
  /\ \A a, b, c, d, e, f :
       Len(<<a, b, c, d, e, f>>) = 6 /\ <<a, b, c, d, e, f>> \in Seq({a, b, c, d, e, f})
  /\ \A a, b, c, d, e, f, g :
       Len(<<a, b, c, d, e, f, g>>) = 7 /\ <<a, b, c, d, e, f, g>> \in Seq({a, b, c, d, e, f, g})
OBVIOUS

LEMMA PlainReady ==
  \A w, have, s, i : Plain(w, s[i]) => Fine(w, have, s, i)
BY DEF Plain, Ready, Fine

LEMMA NeedingReady ==
  \A w, have, s, i, f :
    /\ Needing(w, s[i], {f})
    /\ f \in have \/ \E j \in 1 .. i - 1 : f \in s[j].fields
    => Fine(w, have, s, i)
BY DEF Needing, Ready, Fine

LEMMA JoiningReady ==
  \A w, have, s, i, f :
    /\ Joining(w, s[i], {f})
    /\ f \in have \/ f \notin KeyNames \/ \E j \in 1 .. i - 1 : f \in s[j].fields
    => Fine(w, have, s, i)
BY DEF Joining, Ready, Fine

LEMMA MandatoryArtifacts ==
  /\ Mandatory["codeflare"] = {"config.yaml", "generate_mcad_load", "cleanup_appwrappers",
                               "test_case_config.yaml"}
  /\ Mandatory["load-aware"] = {"config.yaml", "scale_test", "capture_environment"}
  /\ Mandatory["skeleton"] = {"config.yaml", "_ansible.log"}
  /\ Mandatory["rhods-notebooks-performance"] = {"config.yaml", "_ansible.log"}
  /\ Mandatory["rhods-pipelines"] = {"config.yaml", "ci-pod", "progress_ts.yaml"}
  /\ Mandatory["rhods-notebooks"] = {"config.yaml"}
BY DEF Mandatory, Workloads

LEMMA CodeflareClusterSound == Sound("codeflare", {"test_config"}, CodeflareCluster)
<1> USE MandatoryArtifacts DEF CodeflareCluster, Step, OrEmpty, In, Derived
<1>1. Plain("codeflare", CodeflareCluster[1]) /\ "nodes_info" \in CodeflareCluster[1].fields
  BY DEF Plain, SoundStep, KeyNames, AlwaysNames, Levels
<1>2. Needing("codeflare", CodeflareCluster[2], {"nodes_info"})
  BY DEF Needing, SoundStep, KeyNames, AlwaysNames, Levels
<1>3. Plain("codeflare", CodeflareCluster[3])
  BY DEF Plain, SoundStep, KeyNames, AlwaysNames, Levels
<1>4. Plain("codeflare", CodeflareCluster[4])
  BY DEF Plain, SoundStep, KeyNames, AlwaysNames, Levels
<1> HIDE MandatoryArtifacts DEF CodeflareCluster, Step, OrEmpty, In, Derived
<1>5. Fine("codeflare", {"test_config"}, CodeflareCluster, 2)
  <2>1. 1 \in 1 .. 2 - 1
    OBVIOUS
  <2>2. QED BY <1>1, <1>2, <2>1, NeedingReady
<1>6. Len(CodeflareCluster) = 4 /\ \E S : CodeflareCluster \in Seq(S)
  BY TuplesAreSequences, Zenon DEF CodeflareCluster
<1>7. QED
  BY <1>1, <1>5, <1>3, <1>4, <1>6, PlainReady DEF Sound

LEMMA CodeflareLoadSound == Sound("codeflare", {"test_config"}, CodeflareLoad)
<1> USE MandatoryArtifacts DEF CodeflareLoad, Step, Tolerant, In, OrEmpty
<1>1. Plain("codeflare", CodeflareLoad[1])
  BY DEF Plain, SoundStep, KeyNames, AlwaysNames, Levels
<1>2. Plain("codeflare", CodeflareLoad[2])
  BY DEF Plain, SoundStep, KeyNames, AlwaysNames, Levels
<1> HIDE MandatoryArtifacts DEF CodeflareLoad, Step, Tolerant, In, OrEmpty
<1>3. Len(CodeflareLoad) = 2 /\ \E S : CodeflareLoad \in Seq(S)
  BY TuplesAreSequences, Zenon DEF CodeflareLoad
<1>4. QED
  BY <1>1, <1>2, <1>3, PlainReady DEF Sound

LEMMA CodeflareTimesSound == Sound("codeflare", {"test_config"}, CodeflareTimes)
<1> USE MandatoryArtifacts DEF CodeflareTimes, Step, In
<1>1. Plain("codeflare", CodeflareTimes[1])
  BY DEF Plain, SoundStep, KeyNames, AlwaysNames, Levels
<1>2. Plain("codeflare", CodeflareTimes[2])
  BY DEF Plain, SoundStep, KeyNames, AlwaysNames, Levels
<1> HIDE MandatoryArtifacts DEF CodeflareTimes, Step, In
<1>3. Len(CodeflareTimes) = 2 /\ \E S : CodeflareTimes \in Seq(S)
  BY TuplesAreSequences, Zenon DEF CodeflareTimes
<1>4. QED
  BY <1>1, <1>2, <1>3, PlainReady DEF Sound

LEMMA CodeflareCaseSound == Sound("codeflare", {"test_config"}, CodeflareCase)
<1> USE MandatoryArtifacts DEF CodeflareCase, Step, Tolerant, In, Needs
<1>1. Plain("codeflare", CodeflareCase[1])
  BY DEF Plain, SoundStep, KeyNames, AlwaysNames, Levels
<1>2. Plain("codeflare", CodeflareCase[2]) /\ "test_case_config" \in CodeflareCase[2].fields
  BY DEF Plain, SoundStep, KeyNames, AlwaysNames, Levels
<1>3. Needing("codeflare", CodeflareCase[3], {"test_case_config"})
  BY DEF Needing, SoundStep, KeyNames, AlwaysNames, Levels
<1>4. Plain("codeflare", CodeflareCase[4])
  BY DEF Plain, SoundStep, KeyNames, AlwaysNames, Levels
<1> HIDE MandatoryArtifacts DEF CodeflareCase, Step, Tolerant, In, Needs
<1>5. Fine("codeflare", {"test_config"}, CodeflareCase, 3)
  <2>1. 2 \in 1 .. 3 - 1
    OBVIOUS
  <2>2. QED BY <1>2, <1>3, <2>1, NeedingReady
<1>6. Len(CodeflareCase) = 4 /\ \E S : CodeflareCase \in Seq(S)
  BY TuplesAreSequences, Zenon DEF CodeflareCase
<1>7. QED
  BY <1>1, <1>2, <1>5, <1>4, <1>6, PlainReady DEF Sound

LEMMA LoadAwarePodsSound == Sound("load-aware", {"test_config"}, LoadAwarePods)
<1> USE MandatoryArtifacts DEF LoadAwarePods, Step, Tolerant, OrEmpty, In
<1>1. Plain("load-aware", LoadAwarePods[1])
  BY DEF Plain, SoundStep, KeyNames, AlwaysNames, Levels
<1> HIDE MandatoryArtifacts DEF LoadAwarePods, Step, Tolerant, OrEmpty, In
<1>2. Len(LoadAwarePods) = 1 /\ \E S : LoadAwarePods \in Seq(S)
  BY TuplesAreSequences, Zenon DEF LoadAwarePods
<1>3. QED
  BY <1>1, <1>2, PlainReady DEF Sound

LEMMA LoadAwareClusterSound == Sound("load-aware", {"test_config"}, LoadAwareCluster)
<1> USE MandatoryArtifacts DEF LoadAwareCluster, Step, OrEmpty, In, Derived
<1>1. Plain("load-aware", LoadAwareCluster[1]) /\ "nodes_info" \in LoadAwareCluster[1].fields
  BY DEF Plain, SoundStep, KeyNames, AlwaysNames, Levels
<1>2. Needing("load-aware", LoadAwareCluster[2], {"nodes_info"})
  BY DEF Needing, SoundStep, KeyNames, AlwaysNames, Levels
<1>3. Plain("load-aware", LoadAwareCluster[3])
  BY DEF Plain, SoundStep, KeyNames, AlwaysNames, Levels
<1>4. Plain("load-aware", LoadAwareCluster[4])
  BY DEF Plain, SoundStep, KeyNames, AlwaysNames, Levels
<1>5. Plain("load-aware", LoadAwareCluster[5])
  BY DEF Plain, SoundStep, KeyNames, AlwaysNames, Levels
<1> HIDE MandatoryArtifacts DEF LoadAwareCluster, Step, OrEmpty, In, Derived
<1>6. Fine("load-aware", {"test_config"}, LoadAwareCluster, 2)
  <2>1. 1 \in 1 .. 2 - 1
    OBVIOUS
  <2>2. QED BY <1>1, <1>2, <2>1, NeedingReady
<1>7. Len(LoadAwareCluster) = 5 /\ \E S : LoadAwareCluster \in Seq(S)
  BY TuplesAreSequences, Zenon DEF LoadAwareCluster
<1>8. QED
  BY <1>1, <1>6, <1>3, <1>4, <1>5, <1>7, PlainReady DEF Sound

LEMMA SkeletonOnceSound == Sound("skeleton", {"test_config"}, SkeletonOnce)
<1> USE MandatoryArtifacts DEF SkeletonOnce, Step, OrEmpty, Derived, OrRaise
<1>1. Plain("skeleton", SkeletonOnce[1]) /\ "nodes_info" \in SkeletonOnce[1].fields
  BY DEF Plain, SoundStep, KeyNames, AlwaysNames, Levels
<1>2. Needing("skeleton", SkeletonOnce[2], {"nodes_info"})
  BY DEF Needing, SoundStep, KeyNames, AlwaysNames, Levels
<1>3. Plain("skeleton", SkeletonOnce[3])
  BY DEF Plain, SoundStep, KeyNames, AlwaysNames, Levels
<1>4. Plain("skeleton", SkeletonOnce[4])
  BY DEF Plain, SoundStep, KeyNames, AlwaysNames, Levels
<1>5. Plain("skeleton", SkeletonOnce[5])
  BY DEF Plain, SoundStep, KeyNames, AlwaysNames, Levels
<1> HIDE MandatoryArtifacts DEF SkeletonOnce, Step, OrEmpty, Derived, OrRaise
<1>6. Fine("skeleton", {"test_config"}, SkeletonOnce, 2)
  <2>1. 1 \in 1 .. 2 - 1
    OBVIOUS
  <2>2. QED BY <1>1, <1>2, <2>1, NeedingReady
<1>7. Len(SkeletonOnce) = 5 /\ \E S : SkeletonOnce \in Seq(S)
  BY TuplesAreSequences, Zenon DEF SkeletonOnce
<1>8. QED
  BY <1>1, <1>6, <1>3, <1>4, <1>5, <1>7, PlainReady DEF Sound

LEMMA PerformanceOnceSound ==
  Sound("rhods-notebooks-performance", {"test_config"}, PerformanceOnce)
<1> USE MandatoryArtifacts DEF PerformanceOnce, Step, OrEmpty, Derived, Tolerant, OrRaise
<1>1. /\ Plain("rhods-notebooks-performance", PerformanceOnce[1])
      /\ "nodes_info" \in PerformanceOnce[1].fields
  BY DEF Plain, SoundStep, KeyNames, AlwaysNames, Levels
<1>2. Needing("rhods-notebooks-performance", PerformanceOnce[2], {"nodes_info"})
  BY DEF Needing, SoundStep, KeyNames, AlwaysNames, Levels
<1>3. Plain("rhods-notebooks-performance", PerformanceOnce[3])
  BY DEF Plain, SoundStep, KeyNames, AlwaysNames, Levels
<1>4. Plain("rhods-notebooks-performance", PerformanceOnce[4])
  BY DEF Plain, SoundStep, KeyNames, AlwaysNames, Levels
<1>5. Plain("rhods-notebooks-performance", PerformanceOnce[5])
  BY DEF Plain, SoundStep, KeyNames, AlwaysNames, Levels
<1>6. Plain("rhods-notebooks-performance", PerformanceOnce[6])
  BY DEF Plain, SoundStep, KeyNames, AlwaysNames, Levels
<1> HIDE MandatoryArtifacts DEF PerformanceOnce, Step, OrEmpty, Derived, Tolerant, OrRaise
<1>7. Fine("rhods-notebooks-performance", {"test_config"}, PerformanceOnce, 2)
  <2>1. 1 \in 1 .. 2 - 1
    OBVIOUS
  <2>2. QED BY <1>1, <1>2, <2>1, NeedingReady
<1>8. Len(PerformanceOnce) = 6 /\ \E S : PerformanceOnce \in Seq(S)
  BY TuplesAreSequences, Zenon DEF PerformanceOnce
<1>9. QED
  BY <1>1, <1>7, <1>3, <1>4, <1>5, <1>6, <1>8, PlainReady DEF Sound

LEMMA PipelinesClusterSound == Sound("rhods-pipelines", {"test_config"}, PipelinesCluster)
<1> USE MandatoryArtifacts DEF PipelinesCluster, Step, Needs, OrEmpty, Derived, Tolerant
<1>1. Plain("rhods-pipelines", PipelinesCluster[1])
  BY DEF Plain, SoundStep, KeyNames, AlwaysNames, Levels
<1>2. Needing("rhods-pipelines", PipelinesCluster[2], {"test_config"})
  BY DEF Needing, SoundStep, KeyNames, AlwaysNames, Levels
<1>3. Plain("rhods-pipelines", PipelinesCluster[3]) /\ "nodes_info" \in PipelinesCluster[3].fields
  BY DEF Plain, SoundStep, KeyNames, AlwaysNames, Levels
<1>4. Needing("rhods-pipelines", PipelinesCluster[4], {"nodes_info"})
  BY DEF Needing, SoundStep, KeyNames, AlwaysNames, Levels
<1>5. Plain("rhods-pipelines", PipelinesCluster[5])
  BY DEF Plain, SoundStep, KeyNames, AlwaysNames, Levels
<1>6. Plain("rhods-pipelines", PipelinesCluster[6])
  BY DEF Plain, SoundStep, KeyNames, AlwaysNames, Levels
<1>7. Plain("rhods-pipelines", PipelinesCluster[7])
  BY DEF Plain, SoundStep, KeyNames, AlwaysNames, Levels
<1> HIDE MandatoryArtifacts DEF PipelinesCluster, Step, Needs, OrEmpty, Derived, Tolerant
<1>8. Fine("rhods-pipelines", {"test_config"}, PipelinesCluster, 2)
  BY <1>2, NeedingReady
<1>9. Fine("rhods-pipelines", {"test_config"}, PipelinesCluster, 4)
  <2>1. 3 \in 1 .. 4 - 1
    OBVIOUS
  <2>2. QED BY <1>3, <1>4, <2>1, NeedingReady
<1>10. Len(PipelinesCluster) = 7 /\ \E S : PipelinesCluster \in Seq(S)
  BY TuplesAreSequences, Zenon DEF PipelinesCluster
<1>11. QED
  BY <1>1, <1>8, <1>3, <1>9, <1>5, <1>6, <1>7, <1>10, PlainReady DEF Sound

LEMMA PipelinesUserSound == Sound("rhods-pipelines", {"test_config", "user_count"}, PipelinesUser)
<1> USE MandatoryArtifacts DEF PipelinesUser, Step, Needs, OrEmpty, In, OrRaise, Joins
<1>1. /\ Needing("rhods-pipelines", PipelinesUser[1], {"user_count"})
      /\ "user_data" \in PipelinesUser[1].fields
  BY DEF Needing, SoundStep, KeyNames, AlwaysNames, Levels
<1>2. Joining("rhods-pipelines", PipelinesUser[2], {"user_data"})
  BY DEF Joining, SoundStep, KeyNames, AlwaysNames, Levels
<1>3. Joining("rhods-pipelines", PipelinesUser[3], {"user_data"})
  BY DEF Joining, SoundStep, KeyNames, AlwaysNames, Levels
<1> HIDE MandatoryArtifacts DEF PipelinesUser, Step, Needs, OrEmpty, In, OrRaise, Joins
<1>4. Fine("rhods-pipelines", {"test_config", "user_count"}, PipelinesUser, 1)
  BY <1>1, NeedingReady
<1>5. Fine("rhods-pipelines", {"test_config", "user_count"}, PipelinesUser, 2)
  <2>1. 1 \in 1 .. 2 - 1
    OBVIOUS
  <2>2. QED BY <1>1, <1>2, <2>1, JoiningReady
<1>6. Fine("rhods-pipelines", {"test_config", "user_count"}, PipelinesUser, 3)
  <2>1. 1 \in 1 .. 3 - 1
    OBVIOUS
  <2>2. QED BY <1>1, <1>3, <2>1, JoiningReady
<1>7. Len(PipelinesUser) = 3 /\ \E S : PipelinesUser \in Seq(S)
  BY TuplesAreSequences, Zenon DEF PipelinesUser
<1>8. QED
  BY <1>4, <1>5, <1>6, <1>7, PlainReady DEF Sound

LEMMA PipelinesUserPodsSound ==
  Sound("rhods-pipelines", {"test_config", "user_data"}, PipelinesUserPods)
<1> USE MandatoryArtifacts DEF PipelinesUserPods, Step, OrEmpty, In, Joins, Tolerant
<1>1. Joining("rhods-pipelines", PipelinesUserPods[1], {"user_data"})
  BY DEF Joining, SoundStep, KeyNames, AlwaysNames, Levels
<1>2. Joining("rhods-pipelines", PipelinesUserPods[2], {"user_data"})
  BY DEF Joining, SoundStep, KeyNames, AlwaysNames, Levels
<1> HIDE MandatoryArtifacts DEF PipelinesUserPods, Step, OrEmpty, In, Joins, Tolerant
<1>3. Fine("rhods-pipelines", {"test_config", "user_data"}, PipelinesUserPods, 1)
  BY <1>1, JoiningReady
<1>4. Fine("rhods-pipelines", {"test_config", "user_data"}, PipelinesUserPods, 2)
  BY <1>2, JoiningReady
<1>5. Len(PipelinesUserPods) = 2 /\ \E S : PipelinesUserPods \in Seq(S)
  BY TuplesAreSequences, Zenon DEF PipelinesUserPods
<1>6. QED
  BY <1>3, <1>4, <1>5, PlainReady DEF Sound

LEMMA PipelinesJobSound == Sound("rhods-pipelines", {"test_config"}, PipelinesJob)
<1> USE MandatoryArtifacts DEF PipelinesJob, Step, OrEmpty
<1>1. Plain("rhods-pipelines", PipelinesJob[1])
  BY DEF Plain, SoundStep, KeyNames, AlwaysNames, Levels
<1>2. Plain("rhods-pipelines", PipelinesJob[2])
  BY DEF Plain, SoundStep, KeyNames, AlwaysNames, Levels
<1> HIDE MandatoryArtifacts DEF PipelinesJob, Step, OrEmpty
<1>3. Len(PipelinesJob) = 2 /\ \E S : PipelinesJob \in Seq(S)
  BY TuplesAreSequences, Zenon DEF PipelinesJob
<1>4. QED
  BY <1>1, <1>2, <1>3, PlainReady DEF Sound

LEMMA NotebooksRunSound == Sound("rhods-notebooks", {"test_config"}, NotebooksRun)
<1> USE MandatoryArtifacts DEF NotebooksRun, Step
<1>1. Plain("rhods-notebooks", NotebooksRun[1])
  BY DEF Plain, SoundStep, KeyNames, AlwaysNames, Levels
<1>2. Plain("rhods-notebooks", NotebooksRun[2])
  BY DEF Plain, SoundStep, KeyNames, AlwaysNames, Levels
<1>3. Plain("rhods-notebooks", NotebooksRun[3])
  BY DEF Plain, SoundStep, KeyNames, AlwaysNames, Levels
<1>4. Plain("rhods-notebooks", NotebooksRun[4])
  BY DEF Plain, SoundStep, KeyNames, AlwaysNames, Levels
<1>5. Plain("rhods-notebooks", NotebooksRun[5])
  BY DEF Plain, SoundStep, KeyNames, AlwaysNames, Levels
<1>6. Plain("rhods-notebooks", NotebooksRun[6])
  BY DEF Plain, SoundStep, KeyNames, AlwaysNames, Levels
<1> HIDE MandatoryArtifacts DEF NotebooksRun, Step
<1>7. Len(NotebooksRun) = 6 /\ \E S : NotebooksRun \in Seq(S)
  BY TuplesAreSequences, Zenon DEF NotebooksRun
<1>8. QED
  BY <1>1, <1>2, <1>3, <1>4, <1>5, <1>6, <1>7, PlainReady DEF Sound

LEMMA NotebooksClusterSound == Sound("rhods-notebooks", {"test_config"}, NotebooksCluster)
<1> USE MandatoryArtifacts DEF NotebooksCluster, NotebooksMetrics, Step, Tolerant, OrEmpty
<1>1. Plain("rhods-notebooks", NotebooksCluster[1])
  BY DEF Plain, SoundStep, KeyNames, AlwaysNames, Levels
<1>2. Plain("rhods-notebooks", NotebooksCluster[2])
  BY DEF Plain, SoundStep, KeyNames, AlwaysNames, Levels
<1>3. Plain("rhods-notebooks", NotebooksCluster[3])
  BY DEF Plain, SoundStep, KeyNames, AlwaysNames, Levels
<1>4. Plain("rhods-notebooks", NotebooksCluster[4])
  BY DEF Plain, SoundStep, KeyNames, AlwaysNames, Levels
<1>5. Plain("rhods-notebooks", NotebooksCluster[5])
  BY DEF Plain, SoundStep, KeyNames, AlwaysNames, Levels
<1> HIDE MandatoryArtifacts DEF NotebooksCluster, NotebooksMetrics, Step, Tolerant, OrEmpty
<1>6. Len(NotebooksCluster) = 5 /\ \E S : NotebooksCluster \in Seq(S)
  BY TuplesAreSequences, Zenon DEF NotebooksCluster
<1>7. QED
  BY <1>1, <1>2, <1>3, <1>4, <1>5, <1>6, PlainReady DEF Sound

LEMMA NotebooksPodsSound == Sound("rhods-notebooks", {"test_config", "nodes_info"}, NotebooksPods)
<1> USE MandatoryArtifacts DEF NotebooksPods, Step, OrEmpty, Needs, Joins, Derived
<1>1. Needing("rhods-notebooks", NotebooksPods[1], {"test_config"})
  BY DEF Needing, SoundStep, KeyNames, AlwaysNames, Levels
<1>2. Plain("rhods-notebooks", NotebooksPods[2])
  BY DEF Plain, SoundStep, KeyNames, AlwaysNames, Levels
<1>3. Joining("rhods-notebooks", NotebooksPods[3], {"notebook_pod_times"})
  BY DEF Joining, SoundStep, KeyNames, AlwaysNames, Levels
<1>4. Needing("rhods-notebooks", NotebooksPods[4], {"nodes_info"})
  BY DEF Needing, SoundStep, KeyNames, AlwaysNames, Levels
<1> HIDE MandatoryArtifacts DEF NotebooksPods, Step, OrEmpty, Needs, Joins, Derived
<1>5. Fine("rhods-notebooks", {"test_config", "nodes_info"}, NotebooksPods, 1)
  BY <1>1, NeedingReady
<1>6. Fine("rhods-notebooks", {"test_config", "nodes_info"}, NotebooksPods, 3)
  BY <1>3, JoiningReady DEF KeyNames
<1>7. Fine("rhods-notebooks", {"test_config", "nodes_info"}, NotebooksPods, 4)
  BY <1>4, NeedingReady
<1>8. Len(NotebooksPods) = 4 /\ \E S : NotebooksPods \in Seq(S)
  BY TuplesAreSequences, Zenon DEF NotebooksPods
<1>9. QED
  BY <1>5, <1>2, <1>6, <1>7, <1>8, PlainReady DEF Sound

LEMMA NotebooksOdsCiSound == Sound("rhods-notebooks", {"test_config"}, NotebooksOdsCi)
<1> USE MandatoryArtifacts DEF NotebooksOdsCi, Step, OrEmpty, Tolerant, In, Joins
<1>1. Plain("rhods-notebooks", NotebooksOdsCi[1])
  BY DEF Plain, SoundStep, KeyNames, AlwaysNames, Levels
<1>2. Joining("rhods-notebooks", NotebooksOdsCi[2], {"ods_ci"})
  BY DEF Joining, SoundStep, KeyNames, AlwaysNames, Levels
<1>3. Joining("rhods-notebooks", NotebooksOdsCi[3], {"ods_ci"})
  BY DEF Joining, SoundStep, KeyNames, AlwaysNames, Levels
<1> HIDE MandatoryArtifacts DEF NotebooksOdsCi, Step, OrEmpty, Tolerant, In, Joins
<1>4. Fine("rhods-notebooks", {"test_config"}, NotebooksOdsCi, 2)
  BY <1>2, JoiningReady DEF KeyNames
<1>5. Fine("rhods-notebooks", {"test_config"}, NotebooksOdsCi, 3)
  BY <1>3, JoiningReady DEF KeyNames
<1>6. Len(NotebooksOdsCi) = 3 /\ \E S : NotebooksOdsCi \in Seq(S)
  BY TuplesAreSequences, Zenon DEF NotebooksOdsCi
<1>7. QED
  BY <1>1, <1>4, <1>5, <1>6, PlainReady DEF Sound

LEMMA NotebooksResourcesSound == Sound("rhods-notebooks", {"test_config"}, NotebooksResources)
<1> USE MandatoryArtifacts DEF NotebooksResources, NotebooksMachines, Step, OrEmpty
<1>1. Plain("rhods-notebooks", NotebooksResources[1])
  BY DEF Plain, SoundStep, KeyNames, AlwaysNames, Levels
<1>2. Plain("rhods-notebooks", NotebooksResources[2])
  BY DEF Plain, SoundStep, KeyNames, AlwaysNames, Levels
<1>3. Plain("rhods-notebooks", NotebooksResources[3])
  BY DEF Plain, SoundStep, KeyNames, AlwaysNames, Levels
<1> HIDE MandatoryArtifacts DEF NotebooksResources, NotebooksMachines, Step, OrEmpty
<1>4. Len(NotebooksResources) = 3 /\ \E S : NotebooksResources \in Seq(S)
  BY TuplesAreSequences, Zenon DEF NotebooksResources
<1>5. QED
  BY <1>1, <1>2, <1>3, <1>4, PlainReady DEF Sound

LEMMA NotebooksVersionSound ==
  Sound("rhods-notebooks", {"test_config"}, <<Step({"artifacts_version"}, {"artifacts_version"})>>)
<1> DEFINE s == <<Step({"artifacts_version"}, {"artifacts_version"})>>
<1>1. Plain("rhods-notebooks", s[1])
  BY MandatoryArtifacts DEF Plain, SoundStep, KeyNames, AlwaysNames, Levels, Step
<1>2. Len(s) = 1 /\ \E S : s \in Seq(S)
  BY TuplesAreSequences, Zenon
<1> HIDE DEF s
<1>3. Sound("rhods-notebooks", {"test_config"}, s)
  BY <1>1, <1>2, PlainReady DEF Sound
<1>4. QED BY <1>3 DEF s

-----------------------------------------------------------------------------
(* Lists of steps, one after the other. *)

\* Some step gives the field f.
Gives(s, f) == \E j \in 1 .. Len(s) : f \in s[j].fields
Covers(have, s, got) == \A f \in got : f \in have \/ Gives(s, f)

LEMMA ConcatSteps ==
  ASSUME NEW s, NEW t, \E S : s \in Seq(S), \E S : t \in Seq(S)
  PROVE  /\ \E S : s \o t \in Seq(S)
         /\ Len(s) \in Nat /\ Len(t) \in Nat /\ Len(s \o t) = Len(s) + Len(t)
         /\ \A i \in 1 .. Len(s) : (s \o t)[i] = s[i]
         /\ \A i \in 1 .. Len(t) : (s \o t)[Len(s) + i] = t[i]
<1>1. PICK S : s \in Seq(S)
  OBVIOUS
<1>2. PICK T : t \in Seq(T)
  OBVIOUS
<1>3. s \in Seq(S \cup T) /\ t \in Seq(S \cup T)
  BY <1>1, <1>2
<1>4. /\ s \o t \in Seq(S \cup T) /\ Len(s \o t) = Len(s) + Len(t)
      /\ \A i \in 1 .. Len(s) + Len(t) :
           (s \o t)[i] = IF i <= Len(s) THEN s[i] ELSE t[i - Len(s)]
  BY <1>3, ConcatProperties
<1>5. Len(s) \in Nat /\ Len(t) \in Nat
  BY <1>3
<1>6. \A i \in 1 .. Len(s) : (s \o t)[i] = s[i]
  BY <1>4, <1>5
<1>7. ASSUME NEW i \in 1 .. Len(t)
      PROVE  (s \o t)[Len(s) + i] = t[i]
  <2>1. Len(s) + i \in 1 .. Len(s) + Len(t) /\ ~(Len(s) + i <= Len(s)) /\ (Len(s) + i) - Len(s) = i
    BY <1>5
  <2>2. QED BY <1>4, <2>1
<1>8. QED BY <1>4, <1>5, <1>6, <1>7

\* Two sound lists, of which the first gives what the second needs, make one.
LEMMA ConcatSound ==
  ASSUME NEW w, NEW have, NEW got, NEW s, NEW t,
         Sound(w, have, s), Sound(w, got, t),
         Covers(have, s, got)
  PROVE  /\ Sound(w, have, s \o t)
         /\ \A f : Gives(s, f) \/ Gives(t, f) => Gives(s \o t, f)
<1>1. (\E S : s \in Seq(S)) /\ (\E S : t \in Seq(S))
  BY DEF Sound
<1>2. /\ \E S : s \o t \in Seq(S)
      /\ Len(s) \in Nat /\ Len(t) \in Nat /\ Len(s \o t) = Len(s) + Len(t)
      /\ \A i \in 1 .. Len(s) : (s \o t)[i] = s[i]
      /\ \A i \in 1 .. Len(t) : (s \o t)[Len(s) + i] = t[i]
  BY <1>1, ConcatSteps
<1> DEFINE u == s \o t
<1> HIDE DEF u
<1>3. /\ \E S : u \in Seq(S)
      /\ Len(s) \in Nat /\ Len(t) \in Nat /\ Len(u) = Len(s) + Len(t)
      /\ \A i \in 1 .. Len(s) : u[i] = s[i]
      /\ \A i \in 1 .. Len(t) : u[Len(s) + i] = t[i]
  BY <1>2 DEF u
<1>4. \A f : Gives(s, f) \/ Gives(t, f) => Gives(u, f)
  <2>1. \A i \in 1 .. Len(s) : i \in 1 .. Len(u)
    BY <1>3
  <2>2. \A i \in 1 .. Len(t) : Len(s) + i \in 1 .. Len(u)
    BY <1>3
  <2>3. QED BY <1>3, <2>1, <2>2 DEF Gives
<1>5. ASSUME NEW i \in 1 .. Len(s)
      PROVE  Fine(w, have, u, i)
  <2>1. SoundStep(w, s[i]) /\ Ready(have, s, i)
    BY DEF Sound, Fine
  <2>2. \A j \in 1 .. i - 1 : u[j] = s[j]
    BY <1>3
  <2>3. u[i] = s[i]
    BY <1>3
  <2>4. QED BY <2>1, <2>2, <2>3 DEF Fine, Ready
<1>6. ASSUME NEW i \in 1 .. Len(t)
      PROVE  Fine(w, have, u, Len(s) + i)
  <2>1. SoundStep(w, t[i]) /\ Ready(got, t, i)
    BY DEF Sound, Fine
  <2>2. u[Len(s) + i] = t[i]
    BY <1>3
  <2>3. ASSUME NEW f \in KeyNames \cup t[i].needs,
               f \in t[i].needs \/ (t[i].joins /\ f \in t[i].fields)
        PROVE  f \in have \/ \E j \in 1 .. (Len(s) + i) - 1 : f \in u[j].fields
    <3>1. CASE f \in got
      <4>1. CASE Gives(s, f)
        <5>1. PICK j \in 1 .. Len(s) : f \in s[j].fields
          BY <4>1 DEF Gives
        <5>2. j \in 1 .. (Len(s) + i) - 1
          BY <1>3
        <5>3. QED BY <1>3, <5>1, <5>2
      <4>2. QED BY <3>1, <4>1 DEF Covers
    <3>2. CASE \E j \in 1 .. i - 1 : f \in t[j].fields
      <4>1. PICK j \in 1 .. i - 1 : f \in t[j].fields
        BY <3>2
      <4>2. j \in 1 .. Len(t) /\ Len(s) + j \in 1 .. (Len(s) + i) - 1
        BY <1>3
      <4>3. u[Len(s) + j] = t[j]
        BY <1>3, <4>2
      <4>4. QED BY <4>1, <4>2, <4>3
    <3>3. QED BY <2>1, <2>3, <3>1, <3>2 DEF Ready
  <2>4. QED BY <2>1, <2>2, <2>3 DEF Fine, Ready
<1>7. \A i \in 1 .. Len(u) : Fine(w, have, u, i)
  <2> SUFFICES ASSUME NEW i \in 1 .. Len(u) PROVE Fine(w, have, u, i)
    OBVIOUS
  <2>1. CASE i \in 1 .. Len(s)
    BY <1>5, <2>1
  <2>2. CASE i \notin 1 .. Len(s)
    <3>1. i - Len(s) \in 1 .. Len(t) /\ Len(s) + (i - Len(s)) = i
      BY <1>3, <2>2
    <3>2. Fine(w, have, u, Len(s) + (i - Len(s)))
      BY <1>6, <3>1
    <3>3. QED BY <3>1, <3>2
  <2>3. QED BY <2>1, <2>2
<1>8. Sound(w, have, u)
  BY <1>3, <1>7 DEF Sound
<1>9. QED BY <1>4, <1>8 DEF u

LEMMA ConcatAlike ==
  \A w, have, s, t : Sound(w, have, s) /\ Sound(w, have, t) => Sound(w, have, s \o t)
BY ConcatSound DEF Covers

\* The fields that a later list of steps, or the matrix, asks of an earlier one.
LEMMA FieldsGiven ==
  /\ Gives(NotebooksCluster, "nodes_info")
  /\ Gives(PipelinesCluster, "user_count")
  /\ Gives(PipelinesUser, "user_data")
<1>1. Len(NotebooksCluster) = 5 /\ Len(PipelinesCluster) = 7 /\ Len(PipelinesUser) = 3
  BY TuplesAreSequences, Zenon DEF NotebooksCluster, PipelinesCluster, PipelinesUser
<1>2. "nodes_info" \in NotebooksCluster[3].fields
  BY DEF NotebooksCluster, OrEmpty, Step
<1>3. "user_count" \in PipelinesCluster[2].fields
  BY DEF PipelinesCluster, Needs, Step
<1>4. "user_data" \in PipelinesUser[1].fields
  BY DEF PipelinesUser, In, OrEmpty, Needs, Step
<1>5. QED BY <1>1, <1>2, <1>3, <1>4 DEF Gives

LEMMA OnceSound ==
  ASSUME NEW w \in Workloads
  PROVE  /\ Sound(w, {"test_config"}, OnceSteps[w])
         /\ w = "rhods-pipelines" => Gives(OnceSteps[w], "user_data")
<1> DEFINE C == {"test_config"}
<1>1. Sound("codeflare", C, CodeflareOnce)
  <2>1. Sound("codeflare", C, CodeflareCluster \o CodeflareLoad)
    BY ConcatAlike, CodeflareClusterSound, CodeflareLoadSound
  <2>2. Sound("codeflare", C, (CodeflareCluster \o CodeflareLoad) \o CodeflareTimes)
    BY <2>1, ConcatAlike, CodeflareTimesSound
  <2>3. QED BY <2>2, ConcatAlike, CodeflareCaseSound DEF CodeflareOnce
<1>2. Sound("load-aware", C, LoadAwareOnce)
  BY ConcatAlike, LoadAwarePodsSound, LoadAwareClusterSound DEF LoadAwareOnce
<1>3. Sound("rhods-pipelines", C, PipelinesOnce) /\ Gives(PipelinesOnce, "user_data")
  <2> DEFINE a == PipelinesCluster
             b == a \o PipelinesUser
             c == b \o PipelinesUserPods
  <2>1. Covers(C, a, {"test_config", "user_count"})
    BY FieldsGiven DEF Covers
  <2>2. Sound("rhods-pipelines", C, b) /\ Gives(b, "user_data")
    BY <2>1, ConcatSound, PipelinesClusterSound, PipelinesUserSound, FieldsGiven
  <2>3. Covers(C, b, {"test_config", "user_data"}) /\ Covers(C, c, C)
    BY <2>2 DEF Covers
  <2>4. Sound("rhods-pipelines", C, c) /\ Gives(c, "user_data")
    BY <2>2, <2>3, ConcatSound, PipelinesUserPodsSound
  <2>5. Sound("rhods-pipelines", C, c \o PipelinesJob) /\ Gives(c \o PipelinesJob, "user_data")
    BY <2>3, <2>4, ConcatSound, PipelinesJobSound
  <2>6. QED BY <2>5 DEF PipelinesOnce
<1>4. Sound("rhods-notebooks", C, NotebooksOnce)
  <2> DEFINE a == <<Step({"artifacts_version"}, {"artifacts_version"})>>
             b == a \o NotebooksRun
             c == b \o NotebooksCluster
             d == c \o NotebooksPods
             e == d \o NotebooksOdsCi
  <2>1. Sound("rhods-notebooks", C, b)
    BY ConcatAlike, NotebooksVersionSound, NotebooksRunSound
  <2>2. Sound("rhods-notebooks", C, c) /\ Gives(c, "nodes_info")
    <3>1. Covers(C, b, C)
      BY DEF Covers
    <3>2. QED BY <2>1, <3>1, ConcatSound, NotebooksClusterSound, FieldsGiven
  <2>3. Sound("rhods-notebooks", C, d)
    <3>1. Covers(C, c, {"test_config", "nodes_info"})
      BY <2>2 DEF Covers
    <3>2. QED BY <2>2, <3>1, ConcatSound, NotebooksPodsSound
  <2>4. Sound("rhods-notebooks", C, e)
    BY <2>3, ConcatAlike, NotebooksOdsCiSound
  <2>5. QED BY <2>4, ConcatAlike, NotebooksResourcesSound DEF NotebooksOnce
<1>5. QED
  BY <1>1, <1>2, <1>3, <1>4, SkeletonOnceSound, PerformanceOnceSound DEF Workloads, OnceSteps

-----------------------------------------------------------------------------
(* What a step makes of the artifacts. *)

ParsedOf(w) == [ok : BOOLEAN, fields : ResultsOf(w)]

\* Nothing can be said against the artifacts.
NoReason(w, f) ==
  /\ \A a \in ArtifactsOf(w) : f[a] # "bad"
  /\ \A a \in Mandatory[w] : f[a] # "absent"

Within(w, s) ==
  /\ \A g \in s.fields : g \in FieldsOf(w)
  /\ \A a \in s.files : a \in ArtifactsOf(w)
  /\ s.dir # "" => s.dir \in ArtifactsOf(w)

\* The steps that are always parsed.
EnvRow(s) ==
  /\ s.files = {} /\ s.dir = "" /\ s.needs = {} /\ s.from = {} /\ ~ s.joins
ConfigRow(s) ==
  /\ s.fields = {"test_config"} /\ s.files = {"config.yaml"} /\ s.dir = ""
  /\ s.absent = "raise" /\ s.bad = "raise" /\ s.needs = {} /\ s.from = {} /\ ~ s.joins
DerivedRow(s) ==
  /\ s.fields = {"check_thresholds"} /\ s.files = {} /\ s.dir = ""
  /\ s.needs = {"thresholds"} /\ s.from = {"thresholds"} /\ ~ s.joins

LEMMA AlwaysShape ==
  ASSUME NEW w \in Workloads
  PROVE  /\ \E S : AlwaysSteps[w] \in Seq(S)
         /\ \/ /\ w # "rhods-notebooks" /\ Len(AlwaysSteps[w]) = 2
               /\ EnvRow(AlwaysSteps[w][1]) /\ AlwaysSteps[w][1].fields = {"from_local_env"}
               /\ ConfigRow(AlwaysSteps[w][2])
            \/ /\ w = "rhods-notebooks" /\ Len(AlwaysSteps[w]) = 4
               /\ EnvRow(AlwaysSteps[w][1]) /\ AlwaysSteps[w][1].fields = {"from_local_env"}
               /\ EnvRow(AlwaysSteps[w][2]) /\ AlwaysSteps[w][2].fields = {"thresholds"}
               /\ ConfigRow(AlwaysSteps[w][3]) /\ DerivedRow(AlwaysSteps[w][4])
<1> DEFINE a == Step({"from_local_env"}, {})
           b == OrRaise(Step({"test_config"}, {"config.yaml"}))
           c == Step({"thresholds"}, {})
           d == Derived("check_thresholds", "thresholds")
<1>1. /\ EnvRow(a) /\ a.fields = {"from_local_env"} /\ ConfigRow(b)
      /\ EnvRow(c) /\ c.fields = {"thresholds"} /\ DerivedRow(d)
  BY DEF EnvRow, ConfigRow, DerivedRow, Step, OrRaise, Derived
<1> HIDE DEF a, b, c, d
<1>2. CASE w # "rhods-notebooks"
  <2>1. AlwaysSteps[w] = <<a, b>>
    BY <1>2 DEF Workloads, AlwaysSteps, CodeflareAlways, LoadAwareAlways, SkeletonAlways,
                PerformanceAlways, PipelinesAlways, a, b
  <2>2. AlwaysSteps[w][1] = a /\ AlwaysSteps[w][2] = b
    BY <2>1
  <2>3. Len(<<a, b>>) = 2 /\ \E S : <<a, b>> \in Seq(S)
    BY TuplesAreSequences, Zenon
  <2>4. QED BY <1>1, <1>2, <2>1, <2>2, <2>3, Zenon
<1>3. CASE w = "rhods-notebooks"
  <2>1. AlwaysSteps[w] = <<a, c, b, d>>
    BY <1>3 DEF Workloads, AlwaysSteps, NotebooksAlways, NotebooksEnv, NotebooksThresholds,
                NotebooksConfig, a, b, c, d
  <2>2. /\ AlwaysSteps[w][1] = a /\ AlwaysSteps[w][2] = c
        /\ AlwaysSteps[w][3] = b /\ AlwaysSteps[w][4] = d
    BY <2>1
  <2>3. Len(<<a, c, b, d>>) = 4 /\ \E S : <<a, c, b, d>> \in Seq(S)
    BY TuplesAreSequences, Zenon
  <2>4. QED BY <1>1, <1>3, <2>1, <2>2, <2>3, Zenon
<1>4. QED BY <1>2, <1>3

LEMMA StepsAreWithin ==
  ASSUME NEW w \in Workloads
  PROVE  /\ \A i \in 1 .. Len(OnceSteps[w]) : Within(w, OnceSteps[w][i])
         /\ \A i \in 1 .. Len(AlwaysSteps[w]) : Within(w, AlwaysSteps[w][i])
<1>1. ASSUME NEW s, s \in ToSet(OnceSteps[w]) \/ s \in ToSet(AlwaysSteps[w])
      PROVE  Within(w, s)
  <2>1. s \in StepsOf(w)
    BY <1>1 DEF StepsOf
  <2>2. (\A g \in s.fields : g \in FieldsOf(w)) /\ (\A a \in s.files : a \in ArtifactsOf(w))
    <3>1. \A g \in s.fields : g \in FieldsOf(w)
      BY <2>1, Zenon DEF FieldsOf
    <3>2. \A a \in s.files : a \in s.files \cup ({s.dir} \ {""})
      OBVIOUS
    <3>3. \A a \in s.files : a \in ArtifactsOf(w)
      BY <2>1, <3>2, Zenon DEF ArtifactsOf
    <3>4. QED BY <3>1, <3>3
  <2>3. s.dir # "" => s.dir \in ArtifactsOf(w)
    <3>1. s.dir # "" => s.dir \in s.files \cup ({s.dir} \ {""})
      OBVIOUS
    <3>2. QED BY <2>1, <3>1, Zenon DEF ArtifactsOf
  <2>4. QED BY <2>2, <2>3 DEF Within
<1>2. ASSUME NEW t, \E S : t \in Seq(S)
      PROVE  \A i \in 1 .. Len(t) : t[i] \in ToSet(t)
  <2>1. DOMAIN t = 1 .. Len(t)
    BY <1>2
  <2>2. QED BY <2>1 DEF ToSet
<1>3. \E S : OnceSteps[w] \in Seq(S)
  BY OnceSound DEF Sound
<1>4. \E S : AlwaysSteps[w] \in Seq(S)
  BY AlwaysShape
<1>5. QED BY <1>1, <1>2, <1>3, <1>4

LEMMA OutcomeType ==
  ASSUME NEW w, NEW f, NEW x \in ResultsOf(w), NEW s, SoundStep(w, s),
         \A g \in s.needs : g \in FieldsOf(w)
  PROVE  Outcome(s, f, x) \in Levels \cup {"raise"}
<1>1. ASSUME s.from # {}
      PROVE  x[CHOOSE g \in s.from : TRUE] \in Levels
  <2>1. (CHOOSE g \in s.from : TRUE) \in FieldsOf(w)
    BY <1>1 DEF SoundStep
  <2>2. QED BY <2>1 DEF ResultsOf
<1>2. /\ s.nodir \in Levels \cup {"raise"} /\ s.absent \in Levels \cup {"raise"}
      /\ s.bad \in Levels \cup {"raise"}
  BY DEF SoundStep
<1>3. "full" \in Levels
  BY DEF Levels
<1>4. QED BY <1>1, <1>2, <1>3 DEF Outcome

LEMMA OutcomeWithoutReason ==
  ASSUME NEW w, NEW f, NEW x \in ResultsOf(w), NEW s, SoundStep(w, s), Within(w, s),
         NoReason(w, f), \A g \in s.needs : g \in FieldsOf(w) /\ x[g] # "none"
  PROVE  /\ Outcome(s, f, x) \in Levels
         /\ ~ s.joins => \A g \in s.fields : g \in KeyNames => Outcome(s, f, x) # "none"
<1>1. Outcome(s, f, x) \in Levels \cup {"raise"}
  BY OutcomeType
<1>2. ~ \E a \in s.files : f[a] = "bad"
  BY DEF Within, NoReason
<1>3. ~ \E g \in s.needs : x[g] = "none"
  OBVIOUS
<1>4. ASSUME s.dir # "", f[s.dir] = "absent"
      PROVE  /\ s.nodir # "raise"
             /\ ~ s.joins => \A g \in s.fields : g \in KeyNames => s.nodir # "none"
  <2>1. s.dir \notin {""} \cup Mandatory[w]
    BY <1>4 DEF NoReason
  <2>2. s.nodir # "raise"
    BY <2>1 DEF SoundStep
  <2>3. ASSUME ~ s.joins, NEW g \in s.fields, g \in KeyNames
        PROVE  s.nodir # "none"
    BY <2>1, <2>3 DEF SoundStep
  <2>4. QED BY <2>2, <2>3
<1>5. ASSUME \E a \in s.files : f[a] = "absent"
      PROVE  /\ s.absent # "raise"
             /\ ~ s.joins => \A g \in s.fields : g \in KeyNames => s.absent # "none"
  <2>1. ~ (s.files \subseteq Mandatory[w])
    BY <1>5 DEF NoReason
  <2>2. s.absent # "raise"
    BY <2>1 DEF SoundStep
  <2>3. ASSUME ~ s.joins, NEW g \in s.fields, g \in KeyNames
        PROVE  s.absent # "none"
    BY <2>1, <2>3 DEF SoundStep
  <2>4. QED BY <2>2, <2>3
<1>6. ASSUME s.from # {}
      PROVE  /\ x[CHOOSE g \in s.from : TRUE] # "raise"
             /\ \A g \in s.fields : g \notin KeyNames
  <2>1. (CHOOSE g \in s.from : TRUE) \in FieldsOf(w)
    BY <1>6 DEF SoundStep
  <2>2. "raise" \notin Levels
    BY DEF Levels
  <2>3. QED BY <1>6, <2>1, <2>2 DEF ResultsOf, SoundStep
<1>7. QED BY <1>1, <1>2, <1>3, <1>4, <1>5, <1>6 DEF Outcome

LEMMA CompletedType ==
  \A old, new \in Levels :
    Completed(old, new) \in Levels /\ (old # "none" => Completed(old, new) # "none")
BY DEF Completed, Levels

LEMMA AssignIs ==
  ASSUME NEW w, NEW p \in ParsedOf(w), NEW s, NEW o \in Levels \cup {"raise"}
  PROVE  /\ Assign(p, s, o) \in ParsedOf(w)
         /\ o = "raise" => Assign(p, s, o).fields = p.fields
         /\ o # "raise" => Assign(p, s, o).ok = p.ok
         /\ \A g \in FieldsOf(w) : g \notin s.fields => Assign(p, s, o).fields[g] = p.fields[g]
         /\ o # "raise" => \A g \in s.fields \cap FieldsOf(w) :
              Assign(p, s, o).fields[g] = IF s.joins THEN Completed(p.fields[g], o) ELSE o
<1>1. p.ok \in BOOLEAN /\ p.fields \in ResultsOf(w) /\ p = [ok |-> p.ok, fields |-> p.fields]
  BY DEF ParsedOf
<1>2. CASE o = "raise"
  BY <1>1, <1>2 DEF Assign, ParsedOf
<1>3. CASE o # "raise"
  <2> DEFINE h == [g \in FieldsOf(w) |-> IF g \notin s.fields THEN p.fields[g]
                                          ELSE IF s.joins THEN Completed(p.fields[g], o) ELSE o]
  <2>1. o \in Levels
    BY <1>3
  <2>2. DOMAIN p.fields = FieldsOf(w) /\ \A g \in FieldsOf(w) : p.fields[g] \in Levels
    BY <1>1 DEF ResultsOf
  <2>3. h \in ResultsOf(w)
    BY <2>1, <2>2, CompletedType DEF ResultsOf
  <2>4. Assign(p, s, o) = [ok |-> p.ok, fields |-> h]
    BY <1>1, <1>3, <2>2 DEF Assign
  <2>5. QED BY <1>1, <1>3, <2>3, <2>4 DEF ParsedOf
<1>4. QED BY <1>2, <1>3

-----------------------------------------------------------------------------
(* The steps that are always parsed: they can only fail for config.yaml. *)

\* The step s was taken, after p, and gave its fields.
Filled(w, p, s, q) ==
  /\ q \in ParsedOf(w) /\ q.ok
  /\ \A g \in FieldsOf(w) : q.fields[g] = IF g \in s.fields THEN "full" ELSE p.fields[g]

LEMMA AdvanceFull ==
  ASSUME NEW w, NEW f, NEW p \in ParsedOf(w), p.ok, NEW s, ~ s.joins,
         Outcome(s, f, p.fields) = "full"
  PROVE  Filled(w, p, s, Advance(p, s, f))
<1>1. Advance(p, s, f) = Assign(p, s, "full")
  BY DEF Advance
<1>2. "full" \in Levels \cup {"raise"}
  BY DEF Levels
<1>3. QED BY <1>1, <1>2, AssignIs DEF Filled

LEMMA AdvanceRaise ==
  ASSUME NEW w, NEW f, NEW p \in ParsedOf(w), p.ok, NEW s, Outcome(s, f, p.fields) = "raise"
  PROVE  Advance(p, s, f) \in ParsedOf(w) /\ ~ Advance(p, s, f).ok
<1>1. Advance(p, s, f) = [p EXCEPT !.ok = FALSE]
  BY DEF Advance, Assign
<1>2. QED BY <1>1 DEF ParsedOf

LEMMA AdvanceFailed ==
  \A f, p, s : ~ p.ok => Advance(p, s, f) = p
BY DEF Advance

LEMMA ConfigIsArtifact ==
  ASSUME NEW w \in Workloads, NEW f \in FilesOf(w)
  PROVE  /\ f["config.yaml"] \in {"good", "bad", "absent"}
         /\ "config.yaml" \in ArtifactsOf(w)
         /\ "test_config" \in FieldsOf(w)
<1>1. PICK i \in 1 .. Len(AlwaysSteps[w]) : ConfigRow(AlwaysSteps[w][i])
  BY AlwaysShape
<1>2. "config.yaml" \in ArtifactsOf(w) /\ "test_config" \in FieldsOf(w)
  BY <1>1, StepsAreWithin DEF ConfigRow, Within
<1>3. QED BY <1>2 DEF FilesOf

LEMMA ConfigOutcome ==
  ASSUME NEW w \in Workloads, NEW f \in FilesOf(w), NEW x, NEW s, ConfigRow(s)
  PROVE  Outcome(s, f, x) = IF f["config.yaml"] = "good" THEN "full" ELSE "raise"
BY ConfigIsArtifact DEF ConfigRow, Outcome

LEMMA EnvOutcome ==
  \A f, x, s : EnvRow(s) => Outcome(s, f, x) = "full"
BY DEF EnvRow, Outcome

LEMMA BeginType ==
  \A w : \A x \in ResultsOf(w) : Begin(x) \in ParsedOf(w) /\ Begin(x).ok /\ Begin(x).fields = x
BY DEF Begin, ParsedOf

LEMMA EnvAdvance ==
  ASSUME NEW w, NEW f, NEW p \in ParsedOf(w), p.ok, NEW s, EnvRow(s)
  PROVE  Filled(w, p, s, Advance(p, s, f))
<1>1. ~ s.joins
  BY DEF EnvRow
<1>2. QED BY <1>1, EnvOutcome, AdvanceFull

LEMMA ConfigAdvance ==
  ASSUME NEW w \in Workloads, NEW f \in FilesOf(w), NEW p \in ParsedOf(w), p.ok,
         NEW s, ConfigRow(s)
  PROVE  IF f["config.yaml"] = "good" THEN Filled(w, p, s, Advance(p, s, f))
         ELSE Advance(p, s, f) \in ParsedOf(w) /\ ~ Advance(p, s, f).ok
<1>1. ~ s.joins
  BY DEF ConfigRow
<1>2. Outcome(s, f, p.fields) = IF f["config.yaml"] = "good" THEN "full" ELSE "raise"
  BY ConfigOutcome
<1>3. CASE f["config.yaml"] = "good"
  BY <1>1, <1>2, <1>3, AdvanceFull
<1>4. CASE f["config.yaml"] # "good"
  BY <1>2, <1>4, AdvanceRaise
<1>5. QED BY <1>3, <1>4

\* The fields that are always parsed are those of these steps.
LEMMA AlwaysFields ==
  ASSUME NEW w \in Workloads, NEW g \in FieldsOf(w)
  PROVE  g \in AlwaysNames <=>
           \E i \in 1 .. Len(AlwaysSteps[w]) : g \in AlwaysSteps[w][i].fields
<1>1. ASSUME NEW i \in 1 .. Len(AlwaysSteps[w]), g \in AlwaysSteps[w][i].fields
      PROVE  g \in AlwaysNames
  <2> DEFINE t == AlwaysSteps[w]
  <2>1. CASE w # "rhods-notebooks"
    <3>1. /\ Len(t) = 2
          /\ t[1].fields = {"from_local_env"} /\ t[2].fields = {"test_config"}
      BY <2>1, AlwaysShape DEF ConfigRow
    <3>2. i = 1 \/ i = 2
      BY <3>1
    <3>3. QED BY <1>1, <3>1, <3>2 DEF AlwaysNames
  <2>2. CASE w = "rhods-notebooks"
    <3>1. /\ Len(t) = 4
          /\ t[1].fields = {"from_local_env"} /\ t[2].fields = {"thresholds"}
          /\ t[3].fields = {"test_config"} /\ t[4].fields = {"check_thresholds"}
      BY <2>2, AlwaysShape DEF ConfigRow, DerivedRow
    <3>2. i = 1 \/ i = 2 \/ i = 3 \/ i = 4
      BY <3>1
    <3>3. QED BY <1>1, <3>1, <3>2 DEF AlwaysNames
  <2>3. QED BY <2>1, <2>2
<1>2. ASSUME g \in AlwaysNames
      PROVE  \E i \in 1 .. Len(AlwaysSteps[w]) : g \in AlwaysSteps[w][i].fields
  <2>1. PICK s \in StepsOf(w) : g \in s.fields
    BY DEF FieldsOf
  <2>2. ASSUME NEW t, \E S : t \in Seq(S), s \in ToSet(t)
        PROVE  \E i \in 1 .. Len(t) : s = t[i]
    <3>1. DOMAIN t = 1 .. Len(t)
      BY <2>2
    <3>2. QED BY <2>2, <3>1 DEF ToSet
  <2>3. s \notin ToSet(OnceSteps[w])
    <3>1. SUFFICES ASSUME s \in ToSet(OnceSteps[w]) PROVE FALSE
      OBVIOUS
    <3>2. PICK i \in 1 .. Len(OnceSteps[w]) : s = OnceSteps[w][i]
      BY <2>2, <3>1, OnceSound DEF Sound
    <3>3. SoundStep(w, s)
      BY <3>2, OnceSound DEF Sound, Fine
    <3>4. QED BY <1>2, <2>1, <3>3 DEF SoundStep
  <2>4. \E i \in 1 .. Len(AlwaysSteps[w]) : s = AlwaysSteps[w][i]
    BY <2>1, <2>2, <2>3, AlwaysShape DEF StepsOf
  <2>5. QED BY <2>1, <2>4
<1>3. QED BY <1>1, <1>2

\* _parse_always(): it fails when the configuration is not there, and sets its
\* fields whatever they were.
LEMMA AlwaysParsed ==
  ASSUME NEW w \in Workloads, NEW f \in FilesOf(w), NEW x \in ResultsOf(w), NEW p,
         p = Parse(AlwaysSteps[w], f, x)
  PROVE  /\ p \in ParsedOf(w)
         /\ p.ok <=> f["config.yaml"] = "good"
         /\ p.ok => \A g \in FieldsOf(w) : p.fields[g] = IF g \in AlwaysNames THEN "full" ELSE x[g]
<1> DEFINE s == AlwaysSteps[w]
           good == f["config.yaml"] = "good"
<1>1. PICK h : /\ h[0] = Begin(x)
               /\ \A i \in 1 .. Len(s) : h[i] = Advance(h[i - 1], s[i], f)
               /\ Parse(s, f, x) = h[Len(s)]
  BY ParseSteps, AlwaysShape
<1>2. h[0] \in ParsedOf(w) /\ h[0].ok /\ h[0].fields = x
  BY <1>1, BeginType
<1>3. CASE w # "rhods-notebooks"
  <2>1. /\ Len(s) = 2 /\ EnvRow(s[1]) /\ s[1].fields = {"from_local_env"} /\ ConfigRow(s[2])
    BY <1>3, AlwaysShape
  <2>2. h[1] = Advance(h[0], s[1], f) /\ h[2] = Advance(h[1], s[2], f) /\ p = h[2]
    BY <1>1, <2>1
  <2>3. \A g \in FieldsOf(w) : g \in AlwaysNames <=> g \in s[1].fields \/ g \in s[2].fields
    BY <2>1, AlwaysFields
  <2> HIDE DEF s
  <2>4. Filled(w, h[0], s[1], h[1])
    BY <1>2, <2>1, <2>2, EnvAdvance
  <2>5. IF good THEN Filled(w, h[1], s[2], p) ELSE p \in ParsedOf(w) /\ ~ p.ok
    BY <2>1, <2>2, <2>4, ConfigAdvance DEF Filled
  <2>6. QED BY <1>2, <2>3, <2>4, <2>5 DEF Filled
<1>4. CASE w = "rhods-notebooks"
  <2>1. /\ Len(s) = 4 /\ EnvRow(s[1]) /\ s[1].fields = {"from_local_env"}
        /\ EnvRow(s[2]) /\ s[2].fields = {"thresholds"} /\ ConfigRow(s[3]) /\ DerivedRow(s[4])
    BY <1>4, AlwaysShape
  <2>2. /\ h[1] = Advance(h[0], s[1], f) /\ h[2] = Advance(h[1], s[2], f)
        /\ h[3] = Advance(h[2], s[3], f) /\ h[4] = Advance(h[3], s[4], f) /\ p = h[4]
    BY <1>1, <2>1
  <2>3. \A g \in FieldsOf(w) :
          g \in AlwaysNames <=>
            g \in s[1].fields \/ g \in s[2].fields \/ g \in s[3].fields \/ g \in s[4].fields
    BY <2>1, AlwaysFields
  <2>4. "thresholds" \in FieldsOf(w)
    <3>1. 2 \in 1 .. Len(s)
      BY <2>1
    <3>2. Within(w, s[2])
      BY <3>1, StepsAreWithin
    <3>3. QED BY <2>1, <3>2 DEF Within
  <2> HIDE DEF s
  <2>5. Filled(w, h[0], s[1], h[1])
    BY <1>2, <2>1, <2>2, EnvAdvance
  <2>6. Filled(w, h[1], s[2], h[2])
    <3>1. h[1] \in ParsedOf(w) /\ h[1].ok
      BY <2>5 DEF Filled
    <3>2. QED BY <2>1, <2>2, <3>1, EnvAdvance
  <2>7. IF good THEN Filled(w, h[2], s[3], h[3]) ELSE h[3] \in ParsedOf(w) /\ ~ h[3].ok
    BY <2>1, <2>2, <2>6, ConfigAdvance DEF Filled
  <2>8. ASSUME ~ good
        PROVE  p \in ParsedOf(w) /\ ~ p.ok
    BY <2>2, <2>7, <2>8, AdvanceFailed
  <2>9. ASSUME good
        PROVE  Filled(w, h[3], s[4], p)
    <3>1. h[3].fields["thresholds"] = "full" /\ h[3] \in ParsedOf(w) /\ h[3].ok
      BY <2>1, <2>4, <2>6, <2>7, <2>9 DEF ConfigRow, Filled
    <3>2. Outcome(s[4], f, h[3].fields) = "full" /\ ~ s[4].joins
      BY <2>1, <3>1 DEF DerivedRow, Outcome
    <3>3. QED BY <2>2, <3>1, <3>2, AdvanceFull
  <2>10. QED BY <1>2, <2>3, <2>5, <2>6, <2>7, <2>8, <2>9 DEF Filled
<1>5. QED BY <1>3, <1>4

-----------------------------------------------------------------------------
(* The steps that are parsed once: without a reason, none of them raises. *)

\* The fields that others need and that are given before the step i + 1.
Given(have, t, i) == {g \in KeyNames : g \in have \/ \E j \in 1 .. i : g \in t[j].fields}

Upheld(w, f, x, t, i, p) ==
  /\ p \in ParsedOf(w)
  /\ \A g \in FieldsOf(w) : g \in AlwaysNames => p.fields[g] = x[g]
  /\ NoReason(w, f) => p.ok /\ \A g \in Given({"test_config"}, t, i) : p.fields[g] # "none"

LEMMA OnceAdvance ==
  ASSUME NEW w \in Workloads, NEW f \in FilesOf(w), NEW x, NEW t, Sound(w, {"test_config"}, t),
         \A i \in 1 .. Len(t) : Within(w, t[i]),
         NEW i \in 1 .. Len(t), NEW p, Upheld(w, f, x, t, i - 1, p)
  PROVE  Upheld(w, f, x, t, i, Advance(p, t[i], f))
<1> DEFINE s == t[i]
           q == Advance(p, s, f)
           K == Given({"test_config"}, t, i - 1)
           L == Given({"test_config"}, t, i)
<1>0. Len(t) \in Nat
  BY DEF Sound
<1>1. SoundStep(w, s) /\ Ready({"test_config"}, t, i) /\ Within(w, s)
  BY DEF Sound, Fine
<1>2. p \in ParsedOf(w) /\ p.fields \in ResultsOf(w)
  BY DEF Upheld, ParsedOf
<1>3. ASSUME NEW g \in L
      PROVE  g \in FieldsOf(w) /\ (g \in K \/ g \in s.fields)
  <2>1. CASE g = "test_config"
    BY <2>1, <1>3, ConfigIsArtifact DEF Given
  <2>2. CASE g # "test_config"
    <3>1. PICK j \in 1 .. i : g \in t[j].fields
      BY <1>3, <2>2 DEF Given
    <3>2. j \in 1 .. Len(t) /\ (j = i \/ j \in 1 .. i - 1)
      BY <1>0
    <3>3. Within(w, t[j])
      BY <3>2
    <3>4. QED BY <1>3, <3>1, <3>2, <3>3 DEF Within, Given
  <2>3. QED BY <2>1, <2>2
<1>4. K \subseteq L
  <2>1. 1 .. i - 1 \subseteq 1 .. i
    BY <1>0
  <2>2. QED BY <2>1 DEF Given
<1>5. \A g \in s.needs : g \in K /\ g \in FieldsOf(w)
  <2>1. ASSUME NEW g \in s.needs
        PROVE  g \in K
    BY <1>1 DEF Ready, Given, SoundStep
  <2>2. QED BY <1>3, <1>4, <2>1
<1>6. ASSUME s.joins, NEW g \in s.fields, g \in KeyNames
      PROVE  g \in K
  BY <1>1, <1>6 DEF Ready, Given
<1> DEFINE o == Outcome(s, f, p.fields)
<1>7. o \in Levels \cup {"raise"}
  BY <1>1, <1>2, <1>5, OutcomeType
<1>8. q = IF p.ok THEN Assign(p, s, o) ELSE p
  BY DEF Advance
<1>9. /\ Assign(p, s, o) \in ParsedOf(w)
      /\ o # "raise" => Assign(p, s, o).ok = p.ok
      /\ \A g \in FieldsOf(w) : g \notin s.fields => Assign(p, s, o).fields[g] = p.fields[g]
      /\ o # "raise" => \A g \in s.fields \cap FieldsOf(w) :
           Assign(p, s, o).fields[g] = IF s.joins THEN Completed(p.fields[g], o) ELSE o
  BY <1>2, <1>7, AssignIs
<1> HIDE DEF q, o, s
<1>10. q \in ParsedOf(w)
  BY <1>2, <1>8, <1>9
<1>11. \A g \in FieldsOf(w) : g \in AlwaysNames => q.fields[g] = x[g]
  BY <1>1, <1>8, <1>9 DEF Upheld, SoundStep
<1>12. ASSUME NoReason(w, f)
       PROVE  q.ok /\ \A g \in L : q.fields[g] # "none"
  <2>1. p.ok /\ \A g \in K : p.fields[g] # "none"
    BY <1>12 DEF Upheld
  <2>2. o \in Levels /\ (~ s.joins => \A g \in s.fields : g \in KeyNames => o # "none")
    BY <1>1, <1>2, <1>5, <1>12, <2>1, OutcomeWithoutReason DEF o
  <2>3. o # "raise"
    BY <2>2 DEF Levels
  <2>4. q.ok
    BY <1>8, <1>9, <2>1, <2>3
  <2>5. ASSUME NEW g \in L
        PROVE  q.fields[g] # "none"
    <3>1. g \in FieldsOf(w) /\ g \in KeyNames /\ q = Assign(p, s, o)
      BY <1>3, <1>8, <2>1 DEF Given
    <3>2. CASE g \notin s.fields
      BY <1>3, <1>9, <2>1, <3>1, <3>2 DEF s
    <3>3. CASE g \in s.fields /\ ~ s.joins
      BY <1>9, <2>2, <2>3, <3>1, <3>3
    <3>4. CASE g \in s.fields /\ s.joins
      <4>1. p.fields[g] # "none" /\ p.fields[g] \in Levels
        BY <1>2, <1>6, <2>1, <3>1, <3>4 DEF s, ResultsOf
      <4>2. q.fields[g] = Completed(p.fields[g], o)
        BY <1>9, <2>3, <3>1, <3>4
      <4>3. QED BY <2>2, <4>1, <4>2, CompletedType
    <3>5. QED BY <3>2, <3>3, <3>4
  <2>6. QED BY <2>4, <2>5
<1>13. QED BY <1>10, <1>11, <1>12 DEF Upheld, q, s

\* _parse_once(): it keeps what is always parsed, and without a reason it does
\* not fail.
LEMMA OnceParsed ==
  ASSUME NEW w \in Workloads, NEW f \in FilesOf(w), NEW x \in ResultsOf(w),
         x["test_config"] # "none", NEW p, p = Parse(OnceSteps[w], f, x)
  PROVE  /\ p \in ParsedOf(w)
         /\ \A g \in FieldsOf(w) : g \in AlwaysNames => p.fields[g] = x[g]
         /\ NoReason(w, f) => p.ok /\ (w = "rhods-pipelines" => p.fields["user_data"] # "none")
<1> DEFINE t == OnceSteps[w]
           Q == [i \in 0 .. Len(t) |-> {q \in ParsedOf(w) : Upheld(w, f, x, t, i, q)}]
<1>1. Sound(w, {"test_config"}, t) /\ Len(t) \in Nat
  BY OnceSound DEF Sound
<1>2. \A i \in 1 .. Len(t) : Within(w, t[i])
  BY StepsAreWithin
<1>3. w = "rhods-pipelines" => Gives(t, "user_data")
  BY OnceSound
<1> HIDE DEF t
<1>4. Begin(x) \in Q[0]
  <2>1. Given({"test_config"}, t, 0) \subseteq {"test_config"}
    BY DEF Given
  <2>2. Upheld(w, f, x, t, 0, Begin(x))
    BY <2>1, BeginType DEF Upheld
  <2>3. QED BY <1>1, <2>2, BeginType
<1>5. ASSUME NEW i \in 1 .. Len(t), NEW q \in Q[i - 1]
      PROVE  Advance(q, t[i], f) \in Q[i]
  <2>1. i - 1 \in 0 .. Len(t) /\ i \in 0 .. Len(t)
    BY <1>1
  <2>2. Upheld(w, f, x, t, i - 1, q)
    BY <2>1
  <2>3. Upheld(w, f, x, t, i, Advance(q, t[i], f))
    BY <1>1, <1>2, <2>2, OnceAdvance
  <2>4. QED BY <2>1, <2>3 DEF Upheld
<1>6. Parse(t, f, x) \in Q[Len(t)]
  BY <1>1, <1>4, <1>5, ParseInduction
<1>7. Upheld(w, f, x, t, Len(t), p)
  BY <1>1, <1>6 DEF t
<1>8. w = "rhods-pipelines" => "user_data" \in Given({"test_config"}, t, Len(t))
  BY <1>3 DEF Gives, Given, KeyNames
<1>9. QED BY <1>7, <1>8 DEF Upheld

-----------------------------------------------------------------------------
(* The stages of the driver: the download, if any, comes first, and the
   verdict last. *)

\* What all the runs of a visualization are made of.
OneStage == {"parse", "lts", "schema", "save", "visualize", "verdict"}

LEMMA ReportIs ==
  ASSUME NEW plan, plan.filters \in Nat
  PROVE  /\ Report(plan) \in Seq(OneStage)
         /\ Len(Report(plan)) \in Nat \ {0}
         /\ Report(plan)[Len(Report(plan))] = "verdict"
<1> DEFINE a == <<"parse">>
           b == IF plan.lts THEN <<"lts", "schema">> ELSE <<>>
           c == IF plan.save THEN <<"save">> ELSE <<>>
           d == [i \in 1..plan.filters |-> "visualize"]
           e == <<"verdict">>
<1>1. /\ a \in Seq(OneStage) /\ b \in Seq(OneStage) /\ c \in Seq(OneStage) /\ e \in Seq(OneStage)
  <2>1. <<"parse">> \in Seq(OneStage) /\ <<"save">> \in Seq(OneStage) /\ e \in Seq(OneStage)
    BY DEF OneStage
  <2>2. <<"lts", "schema">> \in Seq(OneStage)
    BY DEF OneStage
  <2>3. <<>> \in Seq(OneStage)
    OBVIOUS
  <2>4. QED BY <2>1, <2>2, <2>3
<1>2. d \in Seq(OneStage)
  BY DEF OneStage
<1>3. Len(e) = 1 /\ e[1] = "verdict"
  OBVIOUS
<1>4. Report(plan) = (((a \o b) \o c) \o d) \o e
  BY DEF Report
<1> HIDE DEF a, b, c, d, e
<1>5. a \o b \in Seq(OneStage)
  BY <1>1, ConcatProperties
<1>6. (a \o b) \o c \in Seq(OneStage)
  BY <1>1, <1>5, ConcatProperties
<1>7. ((a \o b) \o c) \o d \in Seq(OneStage)
  BY <1>2, <1>6, ConcatProperties
<1> DEFINE h == ((a \o b) \o c) \o d
<1> HIDE DEF h
<1>8. /\ h \in Seq(OneStage) /\ Report(plan) = h \o e
  BY <1>4, <1>7 DEF h
<1>9. /\ h \o e \in Seq(OneStage) /\ Len(h \o e) = Len(h) + 1 /\ Len(h) \in Nat
      /\ \A i \in 1 .. Len(h) + 1 : (h \o e)[i] = IF i <= Len(h) THEN h[i] ELSE e[i - Len(h)]
  <2>1. /\ h \o e \in Seq(OneStage) /\ Len(h \o e) = Len(h) + Len(e)
        /\ \A i \in 1 .. Len(h) + Len(e) :
             (h \o e)[i] = IF i <= Len(h) THEN h[i] ELSE e[i - Len(h)]
    BY <1>1, <1>8, ConcatProperties
  <2>2. Len(h) \in Nat
    BY <1>8
  <2>3. QED BY <1>3, <2>1, <2>2
<1>10. (h \o e)[Len(h) + 1] = e[1]
  <2>1. Len(h) + 1 \in 1 .. Len(h) + 1 /\ ~(Len(h) + 1 <= Len(h)) /\ (Len(h) + 1) - Len(h) = 1
    BY <1>9
  <2>2. QED BY <1>9, <2>1
<1>11. Len(h) + 1 \in Nat \ {0}
  BY <1>9
<1>12. Len(h \o e) = Len(h) + 1 /\ h \o e \in Seq(OneStage)
  BY <1>9
<1>13. QED BY <1>3, <1>8, <1>10, <1>11, <1>12

LEMMA LastOfBlocks ==
  ASSUME NEW n \in Nat \ {0}, NEW k \in Nat \ {0}
  PROVE  /\ k * n \in Nat \ {0} /\ 1 + ((k * n - 1) % n) = n
         /\ \A i \in 1 .. k * n : 1 + ((i - 1) % n) \in 1 .. n
<1>1. k * n \in Nat \ {0}
  OBVIOUS
<1>2. \A i \in 1 .. k * n : 1 + ((i - 1) % n) \in 1 .. n
  BY <1>1
<1> DEFINE m == k * n - 1
           q == m \div n
           r == m % n
<1>3. q \in Int /\ r \in 0 .. n - 1 /\ m = n * q + r
  BY <1>1
<1>4. n * (k - q) = r + 1
  BY <1>3
<1>5. k - q \in Int /\ n * (k - q) >= 1 /\ n * (k - q) <= n
  BY <1>3, <1>4
<1>6. \A z \in Int : n * z >= 1 /\ n * z <= n => z = 1
  OBVIOUS
<1>7. k - q = 1
  BY <1>5, <1>6
<1>8. r = n - 1
  BY <1>3, <1>4, <1>7
<1>9. QED BY <1>1, <1>2, <1>8

LEMMA StagesAre ==
  ASSUME NEW plan, plan.filters \in Nat, plan.reports \in Nat \ {0}
  PROVE  /\ Stages(plan) \in Seq(StageNames)
         /\ Stages(plan) # <<>> /\ Stages(plan)[Len(Stages(plan))] = "verdict"
         /\ \A i \in 2 .. Len(Stages(plan)) : Stages(plan)[i] # "download"
<1> DEFINE rep == Report(plan)
           m == plan.reports * Len(rep)
           a == IF plan.download THEN <<"download">> ELSE <<>>
           b == [i \in 1 .. m |-> rep[1 + ((i - 1) % Len(rep))]]
<1>1. /\ rep \in Seq(OneStage) /\ Len(rep) \in Nat \ {0} /\ rep[Len(rep)] = "verdict"
  BY ReportIs
<1>2. /\ m \in Nat \ {0} /\ 1 + ((m - 1) % Len(rep)) = Len(rep)
      /\ \A i \in 1 .. m : 1 + ((i - 1) % Len(rep)) \in 1 .. Len(rep)
  BY <1>1, LastOfBlocks
<1>3. Stages(plan) = a \o b
  BY DEF Stages
<1> HIDE DEF rep
<1> HIDE DEF m
<1>4. b \in Seq(OneStage) /\ Len(b) = m /\ b[m] = "verdict"
  <2>1. \A i \in 1 .. m : rep[1 + ((i - 1) % Len(rep))] \in OneStage
    BY <1>1, <1>2
  <2>2. b \in [1 .. m -> OneStage]
    BY <2>1
  <2>3. b[m] = "verdict"
    BY <1>1, <1>2
  <2>4. QED BY <1>2, <2>2, <2>3
<1>5. a \in Seq(StageNames) /\ (Len(a) = 0 \/ Len(a) = 1)
  <2>1. <<"download">> \in Seq(StageNames) /\ Len(<<"download">>) = 1
    BY DEF StageNames
  <2>2. <<>> \in Seq(StageNames) /\ Len(<<>>) = 0
    OBVIOUS
  <2>3. QED BY <2>1, <2>2
<1> HIDE DEF a, b
<1>6. OneStage \subseteq StageNames /\ "download" \notin OneStage
  BY DEF OneStage, StageNames
<1>7. b \in Seq(StageNames)
  BY <1>4, <1>6
<1>8. /\ a \o b \in Seq(StageNames) /\ Len(a \o b) = Len(a) + m
      /\ \A i \in 1 .. Len(a) + m : (a \o b)[i] = IF i <= Len(a) THEN a[i] ELSE b[i - Len(a)]
  BY <1>4, <1>5, <1>7, ConcatProperties
<1>9. (a \o b)[Len(a) + m] = "verdict" /\ a \o b # <<>>
  <2>1. Len(a) + m \in 1 .. Len(a) + m /\ ~(Len(a) + m <= Len(a)) /\ (Len(a) + m) - Len(a) = m
    BY <1>2, <1>5
  <2>2. (a \o b)[Len(a) + m] = "verdict"
    BY <1>4, <1>8, <2>1
  <2>3. Len(a \o b) # 0
    BY <1>2, <1>5, <1>8
  <2>4. a \o b # <<>>
    <3>1. Len(<<>>) = 0
      OBVIOUS
    <3>2. QED BY <2>3, <3>1, Zenon
  <2>5. QED BY <2>2, <2>4
<1>10. ASSUME NEW i \in 2 .. Len(a) + m
       PROVE  (a \o b)[i] # "download"
  <2>1. i \in 1 .. Len(a) + m /\ ~(i <= Len(a)) /\ i - Len(a) \in 1 .. m
    <3>1. m \in Nat
      BY <1>2
    <3>2. CASE Len(a) = 0
      BY <3>1, <3>2
    <3>3. CASE Len(a) = 1
      BY <3>1, <3>3
    <3>4. QED BY <1>5, <3>2, <3>3
  <2>2. b[i - Len(a)] \in OneStage
    BY <1>4, <2>1
  <2>3. QED BY <1>6, <1>8, <2>1, <2>2
<1>11. QED BY <1>3, <1>8, <1>9, <1>10

-----------------------------------------------------------------------------
(* The results, and what parsing them again makes of them. *)

\* What is left once a stage that is not the last is over.
LEMMA TailKeeps ==
  ASSUME NEW t \in Seq(StageNames), t # <<>>, t[Len(t)] = "verdict",
         Head(t) # "verdict" \/ Len(t) >= 2,
         \A i \in 2 .. Len(t) : t[i] # "download"
  PROVE  /\ Tail(t) \in Seq(StageNames) /\ Tail(t) # <<>>
         /\ Tail(t)[Len(Tail(t))] = "verdict"
         /\ \A i \in 2 .. Len(Tail(t)) : Tail(t)[i] # "download"
         /\ Head(Tail(t)) # "download"
<1>1. Len(t) \in Nat /\ Len(t) >= 1 /\ Head(t) = t[1]
  OBVIOUS
<1>2. Len(t) >= 2
  BY <1>1
<1>3. /\ Tail(t) \in Seq(StageNames) /\ Len(Tail(t)) = Len(t) - 1
      /\ \A i \in 1 .. Len(t) - 1 : Tail(t)[i] = t[i + 1]
  BY <1>1
<1>4. Tail(t) # <<>> /\ Head(Tail(t)) = t[2]
  <2>1. Len(Tail(t)) # 0 /\ 1 \in 1 .. Len(t) - 1
    BY <1>1, <1>2, <1>3
  <2>2. Tail(t) # <<>>
    <3>1. Len(<<>>) = 0
      OBVIOUS
    <3>2. QED BY <2>1, <3>1, Zenon
  <2>3. Head(Tail(t)) = Tail(t)[1]
    BY <1>3, <2>2
  <2>4. QED BY <1>3, <2>1, <2>2, <2>3
<1>5. Tail(t)[Len(Tail(t))] = "verdict"
  BY <1>2, <1>3
<1>6. \A i \in 2 .. Len(Tail(t)) : Tail(t)[i] # "download"
  BY <1>1, <1>3
<1>7. QED BY <1>2, <1>3, <1>4, <1>5, <1>6

\* What the parsers make of the artifacts; and of a cache that says x.
Again(w, f, x) == Parse(AlwaysSteps[w], f, x).fields
Whole(w, f) == Parse(OnceSteps[w], f, Again(w, f, NoFields(w))).fields

LEMMA NoFieldsType ==
  \A w : NoFields(w) \in ResultsOf(w)
BY DEF NoFields, ResultsOf, Levels

\* _parse_always keeps what a cache says, but for the fields it parses again.
LEMMA AgainIs ==
  ASSUME NEW w \in Workloads, NEW f \in FilesOf(w), NEW x \in ResultsOf(w)
  PROVE  /\ Again(w, f, x) \in ResultsOf(w)
         /\ Parse(AlwaysSteps[w], f, x).ok <=> f["config.yaml"] = "good"
         /\ f["config.yaml"] = "good" =>
              /\ Again(w, f, x)["test_config"] # "none"
              /\ \A g \in FieldsOf(w) :
                   Again(w, f, x)[g] = IF g \in AlwaysNames THEN "full" ELSE x[g]
<1> DEFINE p == Parse(AlwaysSteps[w], f, x)
<1>1. /\ p \in ParsedOf(w)
      /\ p.ok <=> f["config.yaml"] = "good"
      /\ p.ok => \A g \in FieldsOf(w) : p.fields[g] = IF g \in AlwaysNames THEN "full" ELSE x[g]
  BY AlwaysParsed
<1>2. "test_config" \in FieldsOf(w) /\ "test_config" \in AlwaysNames
  BY ConfigIsArtifact DEF AlwaysNames
<1>3. Again(w, f, x) = p.fields
  BY DEF Again
<1> HIDE DEF p
<1>4. Again(w, f, x) \in ResultsOf(w)
  BY <1>1, <1>3 DEF ParsedOf
<1>5. ASSUME f["config.yaml"] = "good"
      PROVE  \A g \in FieldsOf(w) : Again(w, f, x)[g] = IF g \in AlwaysNames THEN "full" ELSE x[g]
  BY <1>1, <1>3, <1>5
<1>6. f["config.yaml"] = "good" => Again(w, f, x)["test_config"] # "none"
  BY <1>2, <1>5
<1>7. QED BY <1>1, <1>4, <1>5, <1>6 DEF p

LEMMA ConvertsAre ==
  ASSUME NEW w \in Workloads, w = "rhods-pipelines"
  PROVE  "user_data" \in FieldsOf(w) /\ "user_data" \notin AlwaysNames
<1>1. PICK i \in 1 .. Len(OnceSteps[w]) : "user_data" \in OnceSteps[w][i].fields
  BY OnceSound DEF Gives
<1>2. Within(w, OnceSteps[w][i])
  BY StepsAreWithin
<1>3. QED BY <1>1, <1>2 DEF Within, AlwaysNames

\* What the matrix took from the cache is still there when it is parsed again.
LEMMA AgainConverts ==
  ASSUME NEW w \in Workloads, NEW f \in FilesOf(w), NEW x \in ResultsOf(w),
         f["config.yaml"] = "good", Converts(w, x)
  PROVE  Converts(w, Again(w, f, x))
<1>1. CASE w = "rhods-pipelines"
  BY <1>1, AgainIs, ConvertsAre DEF Converts
<1>2. CASE w # "rhods-pipelines"
  BY <1>2 DEF Converts
<1>3. QED BY <1>1, <1>2

\* To parse again what has been parsed changes nothing.
LEMMA WholeIs ==
  ASSUME NEW w \in Workloads, NEW f \in FilesOf(w), f["config.yaml"] = "good"
  PROVE  /\ Whole(w, f) \in ResultsOf(w)
         /\ Again(w, f, Whole(w, f)) = Whole(w, f)
         /\ NoReason(w, f) =>
              /\ Parse(OnceSteps[w], f, Again(w, f, NoFields(w))).ok
              /\ Converts(w, Whole(w, f))
<1> DEFINE x == Again(w, f, NoFields(w))
           p == Parse(OnceSteps[w], f, x)
<1>1. /\ x \in ResultsOf(w) /\ x["test_config"] # "none"
      /\ \A g \in FieldsOf(w) : g \in AlwaysNames => x[g] = "full"
  BY AgainIs, NoFieldsType
<1>2. /\ p \in ParsedOf(w)
      /\ \A g \in FieldsOf(w) : g \in AlwaysNames => p.fields[g] = x[g]
      /\ NoReason(w, f) => p.ok /\ (w = "rhods-pipelines" => p.fields["user_data"] # "none")
  BY <1>1, OnceParsed
<1>3. Whole(w, f) = p.fields
  BY DEF Whole
<1> HIDE DEF x, p
<1> DEFINE y == Whole(w, f)
           z == Again(w, f, y)
<1>4. y \in ResultsOf(w) /\ \A g \in FieldsOf(w) : g \in AlwaysNames => y[g] = "full"
  BY <1>1, <1>2, <1>3 DEF ParsedOf
<1>5. z \in ResultsOf(w) /\ \A g \in FieldsOf(w) : z[g] = IF g \in AlwaysNames THEN "full" ELSE y[g]
  BY <1>4, AgainIs
<1> HIDE DEF y, z
<1>6. z = y
  BY <1>4, <1>5 DEF ResultsOf
<1>7. NoReason(w, f) => p.ok /\ Converts(w, p.fields)
  BY <1>2 DEF Converts
<1>8. QED BY <1>3, <1>4, <1>6, <1>7 DEF y, z, p, x

-----------------------------------------------------------------------------
(* The inductive invariant of the store and its driver. *)

Live == {"once", "matrix", "open", "dump", "restore", "use"}

\* What the driver has left to do, and the process that it runs.
TodoInv ==
  /\ driver.status = "running" => Last(driver.todo) = "verdict"
  /\ \A i \in 2 .. Len(driver.todo) : driver.todo[i] # "download"
  /\ proc.pc # "none" => driver.status = "running" /\ Stage \in Readers

\* A process that writes the cache has found none that is current.
WriterInv ==
  /\ proc.pc \in {"always", "once", "matrix"} /\ ~ proc.hit => ~ CacheIsCurrent
  /\ proc.pc \in {"once", "open", "dump", "restore"} => ~ proc.hit
  /\ proc.pc = "open" => ~ CacheIsCurrent
  /\ proc.pc = "dump" => cache.state = "torn"
  /\ proc.pc \in {"open", "dump"} => Converts(workload, proc.fields)

\* What a process has parsed, or loaded, so far.
ParsedInv ==
  /\ proc.hit => CacheIsCurrent /\ proc.pc \in {"always", "matrix", "use"}
  /\ proc.pc = "always" =>
       /\ proc.version = version
       /\ proc.fields = IF proc.hit THEN cache.fields ELSE NoFields(workload)
  /\ proc.pc \in Live => files["config.yaml"] = "good" /\ proc.version = version
  /\ proc.pc = "once" => proc.fields = Again(workload, files, NoFields(workload))
  /\ proc.pc \in Live \ {"once"} =>
       proc.fields = IF proc.hit THEN Again(workload, files, cache.fields)
                                 ELSE Whole(workload, files)
  /\ proc.pc \in {"restore", "use"} /\ ~ proc.hit /\ CacheIsCurrent =>
       cache.fields = Whole(workload, files)
  /\ proc.pc \in {"once", "matrix", "use"} => proc.get = "set"

\* The results that all the processes of one run take from the store.
TheResults ==
  IF CacheIsCurrent THEN Again(workload, files, cache.fields) ELSE Whole(workload, files)

ReportsInv ==
  driver.status = "running" =>
    /\ \A r \in reports : r.version = version /\ r.fields = TheResults
    /\ Stage = "download" => reports = {}

WrongInv ==
  /\ driver.status = "running" => (driver.error <=> wrong # {})
  /\ driver.status = "ok" => wrong = {}
  /\ FailureHasReason

StoreInv == StoreTypeOK /\ TodoInv /\ WriterInv /\ ParsedInv /\ ReportsInv /\ WrongInv

\* Initially.
LEMMA InitHolds == StoreInit => StoreInv
<1> SUFFICES ASSUME StoreInit PROVE StoreInv
  OBVIOUS
<1>1. PICK s \in Starts : /\ workload = s.workload /\ server = s.server
                         /\ files = s.files /\ cache = s.cache
  BY DEF StoreInit
<1>2. /\ version = 1 /\ runs = 0 /\ wrong = {} /\ reports = {}
      /\ driver = [status |-> "idle", todo |-> <<>>, error |-> FALSE, ignore |-> FALSE]
      /\ proc = [pc |-> "none", hit |-> FALSE, fields |-> <<>>, version |-> 0, get |-> "unset"]
  BY DEF StoreInit, NoProc
<1>3. /\ workload \in Workloads /\ MaxRuns \in Nat
      /\ files \in FilesOf(workload) /\ cache \in CachesOf(workload)
      /\ server \in [files : FilesOf(workload), cache : CachesOf(workload)]
  BY <1>1, StoreAssumption
<1>4. driver \in [status : {"idle", "running", "ok", "failed", "killed"},
                  todo : Seq(StageNames), error : BOOLEAN, ignore : BOOLEAN]
  BY <1>2
<1>5. proc \in [pc : Pcs, hit : BOOLEAN, fields : ResultsOf(workload) \cup {<<>>},
                version : Nat, get : {"unset", "set", "away"}]
  BY <1>2 DEF Pcs
<1>6. StoreTypeOK
  BY <1>2, <1>3, <1>4, <1>5 DEF StoreTypeOK
<1>7. Len(driver.todo) = 0
  BY <1>2
<1>8. TodoInv /\ WriterInv /\ ParsedInv
  BY <1>2, <1>7 DEF TodoInv, WriterInv, ParsedInv, Live
<1>9. ReportsInv /\ WrongInv
  BY <1>2 DEF ReportsInv, WrongInv, FailureHasReason
<1>10. QED BY <1>6, <1>8, <1>9 DEF StoreInv

\* The types of the parts of the state.
LEMMA StoreTypes ==
  ASSUME StoreTypeOK
  PROVE  /\ workload \in Workloads /\ files \in FilesOf(workload) /\ cache \in CachesOf(workload)
         /\ server \in [files : FilesOf(workload), cache : CachesOf(workload)]
         /\ version \in Nat /\ runs \in 0 .. MaxRuns /\ MaxRuns \in Nat
         /\ driver.status \in {"idle", "running", "ok", "failed", "killed"}
         /\ driver.todo \in Seq(StageNames)
         /\ driver.status = "running" => driver.todo # <<>>
         /\ proc.pc \in Pcs
         /\ proc.pc \notin {"none", "load"} => proc.fields \in ResultsOf(workload)
         /\ wrong \subseteq StageNames \cup {"ERROR"}
         /\ reports \subseteq [stage : Readers, version : Nat, fields : ResultsOf(workload)]
BY StoreAssumption DEF StoreTypeOK

\* A cache that is whole has results, which the matrix took.
LEMMA WholeCaches ==
  ASSUME NEW w, NEW c \in CachesOf(w), c.state = "whole"
  PROVE  c.fields \in ResultsOf(w) /\ Converts(w, c.fields) /\ c.version \in Nat
BY DEF CachesOf, NoCache, TornCache

LEMMA CachesAre ==
  ASSUME NEW w
  PROVE  /\ NoCache \in CachesOf(w) /\ TornCache \in CachesOf(w)
         /\ \A v \in Nat, x \in ResultsOf(w) : Converts(w, x) => WholeCache(v, x) \in CachesOf(w)
<1>1. NoCache \in CachesOf(w) /\ TornCache \in CachesOf(w)
  BY DEF CachesOf
<1>2. ASSUME NEW v \in Nat, NEW x \in ResultsOf(w), Converts(w, x)
      PROVE  WholeCache(v, x) \in CachesOf(w)
  <2>1. WholeCache(v, x) \in [state : {"whole"}, version : Nat, fields : ResultsOf(w)]
        /\ WholeCache(v, x).fields = x
    BY DEF WholeCache
  <2>2. QED BY <1>2, <2>1 DEF CachesOf
<1>3. QED BY <1>1, <1>2

\* A new run of the driver, whatever the last one has left behind.
LEMMA RunKeeps ==
  ASSUME StoreInv, NEW plan \in Plans, Run(plan)
  PROVE  StoreInv'
<1>1. plan.filters \in Nat /\ plan.reports \in Nat \ {0} /\ plan.ignore \in BOOLEAN
  BY StoreAssumption
<1> DEFINE t == Stages(plan)
<1>2. /\ t \in Seq(StageNames) /\ t # <<>> /\ t[Len(t)] = "verdict"
      /\ \A i \in 2 .. Len(t) : t[i] # "download"
  BY <1>1, StagesAre
<1> HIDE DEF t
<1>3. /\ driver.status # "running" /\ runs' = runs + 1 /\ runs < MaxRuns
      /\ driver' = [status |-> "running", todo |-> t, error |-> FALSE, ignore |-> plan.ignore]
      /\ wrong' = {} /\ reports' = {}
      /\ UNCHANGED <<workload, server, files, cache, version, proc>>
  BY DEF Run, t
<1>4. proc.pc = "none" /\ ~ proc.hit
  BY <1>3 DEF StoreInv, TodoInv, ParsedInv
<1>5. StoreTypeOK'
  <2>1. driver' \in [status : {"idle", "running", "ok", "failed", "killed"},
                     todo : Seq(StageNames), error : BOOLEAN, ignore : BOOLEAN]
    BY <1>1, <1>2, <1>3
  <2>2. runs' \in 0 .. MaxRuns
    BY <1>3, StoreTypes DEF StoreInv
  <2>3. QED BY <1>2, <1>3, <2>1, <2>2 DEF StoreInv, StoreTypeOK
<1>6. TodoInv'
  BY <1>2, <1>3, <1>4 DEF TodoInv, Last
<1>7. WriterInv' /\ ParsedInv'
  BY <1>3, <1>4 DEF WriterInv, ParsedInv, Live
<1>8. ReportsInv' /\ WrongInv'
  BY <1>3 DEF ReportsInv, WrongInv, FailureHasReason
<1>9. QED BY <1>5, <1>6, <1>7, <1>8 DEF StoreInv

-----------------------------------------------------------------------------
(* The end of a stage. *)

\* What does not depend on the process.
LEMMA CurrentFrame ==
  ASSUME UNCHANGED <<workload, cache, version>>, driver'.ignore = driver.ignore
  PROVE  /\ CacheIsCurrent' <=> CacheIsCurrent
         /\ files' = files => TheResults' = TheResults /\ (ReasonToFail' <=> ReasonToFail)
<1>1. CacheIsCurrent' <=> CacheIsCurrent
  BY DEF CacheIsCurrent, IgnoresCache
<1>2. files' = files => TheResults' = TheResults
  BY <1>1 DEF TheResults
<1>3. files' = files => (ReasonToFail' <=> ReasonToFail)
  BY <1>1 DEF ReasonToFail
<1>4. QED BY <1>1, <1>2, <1>3

DriverType ==
  [status : {"idle", "running", "ok", "failed", "killed"},
   todo : Seq(StageNames), error : BOOLEAN, ignore : BOOLEAN]

\* The end of a stage: it is over, with or without an error, or it stops all.
Ends ==
  \/ Proceed(FALSE) /\ wrong' = wrong
  \/ Proceed(TRUE) /\ \E what \in StageNames \cup {"ERROR"} : wrong' = wrong \cup {what}
  \/ /\ Stop("failed") /\ \E what \in StageNames : wrong' = wrong \cup {what}
     /\ Stage = "parse" => ReasonToFail'

\* The driver after the end of a stage.
LEMMA DriverMoves ==
  ASSUME StoreInv, driver.status = "running", Stage # "verdict", Ends
  PROVE  /\ driver' \in DriverType /\ driver'.ignore = driver.ignore
         /\ driver'.status = "running" =>
              /\ driver'.todo # <<>> /\ Last(driver'.todo) = "verdict"
              /\ Head(driver'.todo) # "download"
         /\ \A i \in 2 .. Len(driver'.todo) : driver'.todo[i] # "download"
         /\ wrong' \subseteq StageNames \cup {"ERROR"}
         /\ WrongInv'
<1> DEFINE t == driver.todo
<1>1. /\ driver \in DriverType /\ t \in Seq(StageNames) /\ t # <<>> /\ t[Len(t)] = "verdict"
      /\ Head(t) # "verdict" /\ \A i \in 2 .. Len(t) : t[i] # "download"
  BY DEF StoreInv, StoreTypeOK, TodoInv, Stage, Last, DriverType
<1>2. wrong \subseteq StageNames \cup {"ERROR"} /\ (driver.error <=> wrong # {})
  BY DEF StoreInv, StoreTypeOK, WrongInv
<1> HIDE DEF t
<1>3. ASSUME NEW raised \in BOOLEAN, Proceed(raised)
      PROVE  /\ driver' \in DriverType /\ driver'.ignore = driver.ignore
             /\ driver'.status = "running"
             /\ driver'.error <=> driver.error \/ raised
             /\ driver'.todo # <<>> /\ Last(driver'.todo) = "verdict"
             /\ Head(driver'.todo) # "download"
             /\ \A i \in 2 .. Len(driver'.todo) : driver'.todo[i] # "download"
  <2>1. driver' = [driver EXCEPT !.todo = Tail(@), !.error = @ \/ raised]
    BY <1>3 DEF Proceed
  <2>2. driver' = [status |-> driver.status, todo |-> Tail(t), error |-> driver.error \/ raised,
                   ignore |-> driver.ignore]
    BY <1>1, <2>1 DEF DriverType, t
  <2>3. /\ Tail(t) \in Seq(StageNames) /\ Tail(t) # <<>>
        /\ Tail(t)[Len(Tail(t))] = "verdict"
        /\ \A i \in 2 .. Len(Tail(t)) : Tail(t)[i] # "download"
        /\ Head(Tail(t)) # "download"
    BY <1>1, TailKeeps
  <2>4. (driver.error \/ raised) \in BOOLEAN /\ driver.ignore \in BOOLEAN
    BY <1>1 DEF DriverType
  <2>5. driver' \in DriverType
    BY <2>2, <2>3, <2>4 DEF DriverType
  <2>6. QED BY <2>2, <2>3, <2>5 DEF Last
<1>4. CASE Proceed(FALSE) /\ wrong' = wrong
  <2>1. driver'.status = "running" /\ (driver'.error <=> wrong' # {})
    BY <1>2, <1>3, <1>4
  <2>2. WrongInv'
    BY <2>1 DEF WrongInv, FailureHasReason
  <2>3. QED BY <1>2, <1>3, <1>4, <2>2
<1>5. CASE Proceed(TRUE) /\ \E what \in StageNames \cup {"ERROR"} : wrong' = wrong \cup {what}
  <2>1. wrong' # {} /\ wrong' \subseteq StageNames \cup {"ERROR"}
    BY <1>2, <1>5
  <2>2. driver'.status = "running" /\ driver'.error
    BY <1>3, <1>5
  <2>3. WrongInv'
    BY <2>1, <2>2 DEF WrongInv, FailureHasReason
  <2>4. QED BY <1>3, <1>5, <2>1, <2>3
<1>6. CASE /\ Stop("failed") /\ \E what \in StageNames : wrong' = wrong \cup {what}
           /\ Stage = "parse" => ReasonToFail'
  <2>1. wrong' # {} /\ wrong' \subseteq StageNames \cup {"ERROR"}
    BY <1>2, <1>6
  <2>2. driver' = [driver EXCEPT !.status = "failed"]
    BY <1>6 DEF Stop
  <2>3. /\ driver'.status = "failed" /\ driver'.todo = driver.todo /\ driver'.ignore = driver.ignore
        /\ driver' \in DriverType
    BY <1>1, <2>2 DEF DriverType
  <2>4. WrongInv'
    BY <1>6, <2>1, <2>3 DEF WrongInv, FailureHasReason, Stage
  <2>5. QED BY <1>1, <2>1, <2>3, <2>4 DEF t
<1>7. QED BY <1>4, <1>5, <1>6 DEF Ends

\* Without a process, nothing is said about it.
LEMMA NoProcess ==
  ASSUME proc' = NoProc
  PROVE  /\ WriterInv' /\ ParsedInv'
         /\ proc' \in [pc : Pcs, hit : BOOLEAN, fields : ResultsOf(workload') \cup {<<>>},
                       version : Nat, get : {"unset", "set", "away"}]
         /\ proc'.pc = "none"
<1>1. /\ proc' = [pc |-> "none", hit |-> FALSE, fields |-> <<>>, version |-> 0, get |-> "unset"]
  BY DEF NoProc
<1>2. proc'.pc = "none" /\ ~ proc'.hit
  BY <1>1
<1>3. QED BY <1>1, <1>2 DEF WriterInv, ParsedInv, Live, Pcs

\* The end of a process.
LEMMA LeaveKeeps ==
  ASSUME StoreInv, proc.pc # "none", proc' = NoProc, Ends, UNCHANGED <<data, files, cache>>,
         \A r \in reports' : /\ r \in [stage : Readers, version : Nat, fields : ResultsOf(workload)]
                             /\ r.version = version /\ r.fields = TheResults
  PROVE  StoreInv'
<1>1. driver.status = "running" /\ Stage # "verdict"
  BY DEF StoreInv, TodoInv, Readers
<1>2. /\ driver' \in DriverType /\ driver'.ignore = driver.ignore
      /\ driver'.status = "running" =>
           /\ driver'.todo # <<>> /\ Last(driver'.todo) = "verdict"
           /\ Head(driver'.todo) # "download"
      /\ \A i \in 2 .. Len(driver'.todo) : driver'.todo[i] # "download"
      /\ wrong' \subseteq StageNames \cup {"ERROR"}
      /\ WrongInv'
  BY <1>1, DriverMoves
<1>3. UNCHANGED <<workload, server, version, runs, files, cache>>
  BY DEF data
<1>4. /\ WriterInv' /\ ParsedInv'
      /\ proc' \in [pc : Pcs, hit : BOOLEAN, fields : ResultsOf(workload') \cup {<<>>},
                    version : Nat, get : {"unset", "set", "away"}]
      /\ proc'.pc = "none"
  BY NoProcess
<1>5. StoreTypeOK'
  <2>1. reports' \subseteq [stage : Readers, version : Nat, fields : ResultsOf(workload')]
    BY <1>3
  <2>2. QED BY <1>2, <1>3, <1>4, <2>1 DEF StoreInv, StoreTypeOK, DriverType
<1>6. TodoInv'
  BY <1>2, <1>4 DEF TodoInv
<1>7. ReportsInv'
  <2>1. TheResults' = TheResults
    BY <1>2, <1>3, CurrentFrame
  <2>2. QED BY <1>2, <1>3, <2>1 DEF ReportsInv, Stage
<1>8. QED BY <1>2, <1>4, <1>5, <1>6, <1>7 DEF StoreInv

-----------------------------------------------------------------------------
(* The steps of a process. *)

ProcType ==
  [pc : Pcs, hit : BOOLEAN, fields : ResultsOf(workload) \cup {<<>>},
   version : Nat, get : {"unset", "set", "away"}]

\* A process that goes on.
LEMMA WorkKeeps ==
  ASSUME StoreInv, driver.status = "running", Stage \in Readers,
         UNCHANGED <<data, files, driver, wrong, reports>>,
         proc' \in ProcType, proc'.pc # "none",
         proc'.pc # "load" => proc'.fields \in ResultsOf(workload),
         cache' \in CachesOf(workload), TheResults' = TheResults
  PROVE  StoreTypeOK' /\ TodoInv' /\ ReportsInv' /\ WrongInv'
<1>1. UNCHANGED <<workload, server, version, runs, files, driver, wrong, reports>>
  BY DEF data
<1>2. StoreTypeOK'
  BY <1>1 DEF StoreInv, StoreTypeOK, ProcType
<1>3. TodoInv'
  BY <1>1 DEF StoreInv, TodoInv, Stage
<1>4. ReportsInv'
  BY <1>1 DEF StoreInv, ReportsInv, Stage
<1>5. WrongInv'
  BY <1>1 DEF StoreInv, WrongInv, FailureHasReason
<1>6. QED BY <1>2, <1>3, <1>4, <1>5

\* A process, with what the invariant says of it.
LEMMA ProcessIs ==
  ASSUME StoreInv, proc.pc # "none"
  PROVE  /\ driver.status = "running" /\ Stage \in Readers
         /\ proc \in ProcType
         /\ workload \in Workloads /\ files \in FilesOf(workload) /\ cache \in CachesOf(workload)
         /\ version \in Nat
         /\ proc.pc # "load" => proc.fields \in ResultsOf(workload)
         /\ \A r \in reports : /\ r \in [stage : Readers, version : Nat, fields : ResultsOf(workload)]
                               /\ r.version = version /\ r.fields = TheResults
<1>1. driver.status = "running" /\ Stage \in Readers
  BY DEF StoreInv, TodoInv
<1>2. proc \in ProcType
  BY DEF StoreInv, StoreTypeOK, ProcType
<1>3. \A r \in reports : r \in [stage : Readers, version : Nat, fields : ResultsOf(workload)]
  BY StoreTypes DEF StoreInv
<1>4. \A r \in reports : r.version = version /\ r.fields = TheResults
  BY <1>1 DEF StoreInv, ReportsInv
<1>5. /\ workload \in Workloads /\ files \in FilesOf(workload) /\ cache \in CachesOf(workload)
      /\ version \in Nat
      /\ proc.pc # "load" => proc.fields \in ResultsOf(workload)
  BY StoreTypes DEF StoreInv
<1>6. QED BY <1>1, <1>2, <1>3, <1>4, <1>5

\* A process that raises: of the parsing stage, only with a reason.
LEMMA CrashKeeps ==
  ASSUME StoreInv, proc.pc # "none", Crash, UNCHANGED <<data, cache>>,
         Stage = "parse" => ReasonToFail
  PROVE  StoreInv'
<1>1. /\ driver.status = "running" /\ Stage \in Readers
      /\ \A r \in reports : /\ r \in [stage : Readers, version : Nat, fields : ResultsOf(workload)]
                            /\ r.version = version /\ r.fields = TheResults
      /\ driver \in DriverType
  BY ProcessIs DEF StoreInv, StoreTypeOK, DriverType
<1>2. /\ proc' = NoProc /\ wrong' = wrong \cup {Stage} /\ UNCHANGED <<files, reports>>
      /\ IF Stage = "parse" THEN Stop("failed") ELSE Proceed(TRUE)
  BY DEF Crash, Exit
<1>3. Stage \in StageNames
  BY <1>1 DEF Readers, StageNames
<1>4. Ends
  <2>1. CASE Stage = "parse"
    <3>1. driver' = [driver EXCEPT !.status = "failed"]
      BY <1>2, <2>1 DEF Stop
    <3>2. driver'.ignore = driver.ignore /\ driver'.todo = driver.todo
      BY <1>1, <3>1 DEF DriverType
    <3>3. UNCHANGED <<workload, cache, version, files>>
      BY <1>2 DEF data
    <3>4. ReasonToFail'
      BY <2>1, <3>2, <3>3, CurrentFrame
    <3>5. QED BY <1>2, <1>3, <2>1, <3>4 DEF Ends
  <2>2. CASE Stage # "parse"
    BY <1>2, <1>3, <2>2 DEF Ends
  <2>3. QED BY <2>1, <2>2
<1>5. QED BY <1>1, <1>2, <1>4, LeaveKeeps

LEMMA StartKeeps ==
  ASSUME StoreInv, Start
  PROVE  StoreInv'
<1>1. /\ driver.status = "running" /\ Stage \in Readers /\ proc.pc = "none"
      /\ proc' = [pc |-> "load", hit |-> FALSE, fields |-> <<>>, version |-> 0, get |-> "unset"]
      /\ UNCHANGED <<data, files, cache, driver, wrong, reports>>
  BY DEF Start, At, Readers, NoProc
<1>2. proc' \in ProcType /\ proc'.pc = "load" /\ ~ proc'.hit
  BY <1>1 DEF ProcType, Pcs
<1>3. TheResults' = TheResults
  BY <1>1, CurrentFrame DEF data
<1>4. cache' \in CachesOf(workload)
  BY <1>1, StoreTypes DEF StoreInv
<1>5. StoreTypeOK' /\ TodoInv' /\ ReportsInv' /\ WrongInv'
  BY <1>1, <1>2, <1>3, <1>4, WorkKeeps
<1>6. WriterInv' /\ ParsedInv'
  BY <1>2 DEF WriterInv, ParsedInv, Live
<1>7. QED BY <1>5, <1>6 DEF StoreInv

LEMMA LoadKeeps ==
  ASSUME StoreInv, LoadCache
  PROVE  StoreInv'
<1>1. proc.pc = "load" /\ UNCHANGED <<data, cache>> /\ ~ proc.hit
  BY DEF LoadCache, StoreInv, ParsedInv
<1>2. /\ driver.status = "running" /\ Stage \in Readers
      /\ proc \in ProcType
      /\ workload \in Workloads /\ files \in FilesOf(workload) /\ cache \in CachesOf(workload)
      /\ version \in Nat
  BY <1>1, ProcessIs
<1>3. CASE ~ IgnoresCache /\ cache.state = "torn"
  <2>1. Crash /\ ReasonToFail
    BY <1>3 DEF LoadCache, ReasonToFail
  <2>2. QED BY <1>1, <2>1, CrashKeeps
<1>4. CASE ~ (~ IgnoresCache /\ cache.state = "torn")
  <2>1. /\ UNCHANGED <<data, cache, files, driver, wrong, reports>>
        /\ proc' = IF CacheIsCurrent
                   THEN [proc EXCEPT !.pc = "always", !.hit = TRUE, !.get = "away",
                                     !.fields = cache.fields, !.version = cache.version]
                   ELSE [proc EXCEPT !.pc = "always", !.fields = NoFields(workload),
                                     !.version = version]
    BY <1>1, <1>4 DEF LoadCache
  <2>2. (CacheIsCurrent' <=> CacheIsCurrent) /\ TheResults' = TheResults
        /\ UNCHANGED <<workload, version, files, cache>>
    BY <2>1, CurrentFrame DEF data
  <2>3. CASE CacheIsCurrent
    <3>1. cache.fields \in ResultsOf(workload) /\ cache.version = version
      BY <1>2, <2>3, WholeCaches DEF CacheIsCurrent
    <3>2. proc' = [proc EXCEPT !.pc = "always", !.hit = TRUE, !.get = "away",
                               !.fields = cache.fields, !.version = cache.version]
      BY <2>1, <2>3
    <3>3. /\ proc' \in ProcType /\ proc'.pc = "always" /\ proc'.hit
          /\ proc'.fields = cache.fields /\ proc'.version = version
      BY <1>2, <3>1, <3>2 DEF ProcType, Pcs
    <3>4. StoreTypeOK' /\ TodoInv' /\ ReportsInv' /\ WrongInv'
      BY <1>2, <2>1, <2>2, <3>1, <3>3, WorkKeeps
    <3>5. WriterInv' /\ ParsedInv'
      BY <2>2, <2>3, <3>3 DEF WriterInv, ParsedInv, Live
    <3>6. QED BY <3>4, <3>5 DEF StoreInv
  <2>4. CASE ~ CacheIsCurrent
    <3>1. NoFields(workload) \in ResultsOf(workload)
      BY NoFieldsType
    <3>2. proc' = [proc EXCEPT !.pc = "always", !.fields = NoFields(workload),
                               !.version = version]
      BY <2>1, <2>4
    <3>3. /\ proc' \in ProcType /\ proc'.pc = "always" /\ ~ proc'.hit
          /\ proc'.fields = NoFields(workload) /\ proc'.version = version
      BY <1>1, <1>2, <3>1, <3>2 DEF ProcType, Pcs
    <3>4. StoreTypeOK' /\ TodoInv' /\ ReportsInv' /\ WrongInv'
      BY <1>2, <2>1, <2>2, <3>1, <3>3, WorkKeeps
    <3>5. WriterInv' /\ ParsedInv'
      BY <2>2, <2>4, <3>3 DEF WriterInv, ParsedInv, Live
    <3>6. QED BY <3>4, <3>5 DEF StoreInv
  <2>5. QED BY <2>3, <2>4
<1>5. QED BY <1>3, <1>4

LEMMA AlwaysKeeps ==
  ASSUME StoreInv, ParseAlways
  PROVE  StoreInv'
<1> DEFINE parsed == Parse(AlwaysSteps[workload], files, proc.fields)
<1>1. proc.pc = "always" /\ UNCHANGED <<data, cache>>
  BY DEF ParseAlways
<1>2. /\ driver.status = "running" /\ Stage \in Readers
      /\ proc \in ProcType /\ proc.fields \in ResultsOf(workload)
      /\ workload \in Workloads /\ files \in FilesOf(workload) /\ cache \in CachesOf(workload)
      /\ version \in Nat
  BY <1>1, ProcessIs
<1>3. /\ parsed.fields = Again(workload, files, proc.fields)
      /\ parsed.fields \in ResultsOf(workload)
      /\ parsed.ok <=> files["config.yaml"] = "good"
  BY <1>2, AgainIs DEF Again
<1>4. IF parsed.ok
      THEN /\ proc' = [proc EXCEPT !.pc = IF proc.hit THEN "matrix" ELSE "once",
                                   !.fields = parsed.fields, !.get = "set"]
           /\ UNCHANGED <<files, driver, wrong, reports>>
      ELSE Crash
  BY DEF ParseAlways
<1> HIDE DEF parsed
<1>5. CASE ~ parsed.ok
  <2>1. Crash /\ ReasonToFail
    BY <1>3, <1>4, <1>5 DEF ReasonToFail
  <2>2. QED BY <1>1, <2>1, CrashKeeps
<1>6. CASE parsed.ok
  <2>1. /\ UNCHANGED <<data, cache, files, driver, wrong, reports>>
        /\ proc' = [proc EXCEPT !.pc = IF proc.hit THEN "matrix" ELSE "once",
                                !.fields = parsed.fields, !.get = "set"]
    BY <1>1, <1>4, <1>6
  <2>2. (CacheIsCurrent' <=> CacheIsCurrent) /\ TheResults' = TheResults
        /\ UNCHANGED <<workload, version, files, cache>>
    BY <2>1, CurrentFrame DEF data
  <2>3. /\ proc' \in ProcType
        /\ proc'.pc = IF proc.hit THEN "matrix" ELSE "once"
        /\ proc'.hit <=> proc.hit
        /\ proc'.fields = parsed.fields /\ proc'.version = proc.version /\ proc'.get = "set"
    BY <1>2, <1>3, <2>1 DEF ProcType, Pcs
  <2>4. /\ proc.version = version /\ (proc.hit => CacheIsCurrent)
        /\ ~ proc.hit => ~ CacheIsCurrent
        /\ proc.fields = IF proc.hit THEN cache.fields ELSE NoFields(workload)
    BY <1>1 DEF StoreInv, ParsedInv, WriterInv
  <2>5. StoreTypeOK' /\ TodoInv' /\ ReportsInv' /\ WrongInv'
    BY <1>2, <1>3, <2>1, <2>2, <2>3, WorkKeeps
  <2>6. WriterInv'
    BY <2>2, <2>3, <2>4 DEF WriterInv
  <2>7. ParsedInv'
    BY <1>3, <1>6, <2>2, <2>3, <2>4 DEF ParsedInv, Live
  <2>8. QED BY <2>5, <2>6, <2>7 DEF StoreInv
<1>7. QED BY <1>5, <1>6

LEMMA OnceKeeps ==
  ASSUME StoreInv, ParseOnce
  PROVE  StoreInv'
<1> DEFINE parsed == Parse(OnceSteps[workload], files, proc.fields)
<1>1. proc.pc = "once" /\ UNCHANGED <<data, cache>>
  BY DEF ParseOnce
<1>2. /\ driver.status = "running" /\ Stage \in Readers
      /\ proc \in ProcType /\ proc.fields \in ResultsOf(workload)
      /\ workload \in Workloads /\ files \in FilesOf(workload) /\ cache \in CachesOf(workload)
      /\ version \in Nat
  BY <1>1, ProcessIs
<1>3. /\ ~ proc.hit /\ ~ CacheIsCurrent
      /\ files["config.yaml"] = "good" /\ proc.version = version /\ proc.get = "set"
      /\ proc.fields = Again(workload, files, NoFields(workload))
  BY <1>1 DEF StoreInv, WriterInv, ParsedInv, Live
<1>4. /\ parsed.fields = Whole(workload, files) /\ parsed.fields \in ResultsOf(workload)
      /\ NoReason(workload, files) => parsed.ok
  BY <1>2, <1>3, WholeIs DEF Whole
<1>5. IF parsed.ok
      THEN /\ proc' = [proc EXCEPT !.pc = "matrix", !.fields = parsed.fields]
           /\ UNCHANGED <<files, driver, wrong, reports>>
      ELSE Crash
  BY DEF ParseOnce
<1> HIDE DEF parsed
<1>6. CASE ~ parsed.ok
  <2>1. DOMAIN files = ArtifactsOf(workload)
    BY <1>2 DEF FilesOf
  <2>2. Crash /\ ReasonToFail
    BY <1>3, <1>4, <1>5, <1>6, <2>1 DEF ReasonToFail, NoReason
  <2>3. QED BY <1>1, <2>2, CrashKeeps
<1>7. CASE parsed.ok
  <2>1. /\ UNCHANGED <<data, cache, files, driver, wrong, reports>>
        /\ proc' = [proc EXCEPT !.pc = "matrix", !.fields = parsed.fields]
    BY <1>1, <1>5, <1>7
  <2>2. (CacheIsCurrent' <=> CacheIsCurrent) /\ TheResults' = TheResults
        /\ UNCHANGED <<workload, version, files, cache>>
    BY <2>1, CurrentFrame DEF data
  <2>3. /\ proc' \in ProcType /\ proc'.pc = "matrix" /\ (proc'.hit <=> proc.hit)
        /\ proc'.fields = parsed.fields /\ proc'.version = proc.version /\ proc'.get = proc.get
    BY <1>2, <1>4, <2>1 DEF ProcType, Pcs
  <2>4. StoreTypeOK' /\ TodoInv' /\ ReportsInv' /\ WrongInv'
    BY <1>2, <1>4, <2>1, <2>2, <2>3, WorkKeeps
  <2>5. WriterInv' /\ ParsedInv'
    BY <1>3, <1>4, <2>2, <2>3 DEF WriterInv, ParsedInv, Live
  <2>6. QED BY <2>4, <2>5 DEF StoreInv
<1>8. QED BY <1>6, <1>7

LEMMA MatrixKeeps ==
  ASSUME StoreInv, AddToMatrix
  PROVE  StoreInv'
<1>1. /\ proc.pc = "matrix" /\ UNCHANGED <<data, cache>>
      /\ IF Converts(workload, proc.fields)
         THEN /\ proc' = [proc EXCEPT !.pc = IF proc.hit THEN "use" ELSE "open"]
              /\ UNCHANGED <<files, driver, wrong, reports>>
         ELSE Crash
  BY DEF AddToMatrix
<1>2. /\ driver.status = "running" /\ Stage \in Readers
      /\ proc \in ProcType /\ proc.fields \in ResultsOf(workload)
      /\ workload \in Workloads /\ files \in FilesOf(workload) /\ cache \in CachesOf(workload)
      /\ version \in Nat
  BY <1>1, ProcessIs
<1>3. /\ files["config.yaml"] = "good" /\ proc.version = version /\ proc.get = "set"
      /\ proc.fields = IF proc.hit THEN Again(workload, files, cache.fields)
                                   ELSE Whole(workload, files)
      /\ (proc.hit => CacheIsCurrent) /\ (~ proc.hit => ~ CacheIsCurrent)
  BY <1>1 DEF StoreInv, WriterInv, ParsedInv, Live
<1>4. CASE ~ Converts(workload, proc.fields)
  <2>1. ~ proc.hit
    <3>1. SUFFICES ASSUME proc.hit PROVE FALSE
      OBVIOUS
    <3>2. cache.fields \in ResultsOf(workload) /\ Converts(workload, cache.fields)
      BY <1>2, <1>3, <3>1, WholeCaches DEF CacheIsCurrent
    <3>3. Converts(workload, Again(workload, files, cache.fields))
      BY <1>2, <1>3, <3>2, AgainConverts
    <3>4. QED BY <1>3, <1>4, <3>1, <3>3
  <2>2. ~ NoReason(workload, files)
    BY <1>2, <1>3, <1>4, <2>1, WholeIs
  <2>3. DOMAIN files = ArtifactsOf(workload)
    BY <1>2 DEF FilesOf
  <2>4. Crash /\ ReasonToFail
    BY <1>1, <1>3, <1>4, <2>1, <2>2, <2>3 DEF ReasonToFail, NoReason
  <2>5. QED BY <1>1, <2>4, CrashKeeps
<1>5. CASE Converts(workload, proc.fields)
  <2>1. /\ UNCHANGED <<data, cache, files, driver, wrong, reports>>
        /\ proc' = [proc EXCEPT !.pc = IF proc.hit THEN "use" ELSE "open"]
    BY <1>1, <1>5
  <2>2. (CacheIsCurrent' <=> CacheIsCurrent) /\ TheResults' = TheResults
        /\ UNCHANGED <<workload, version, files, cache>>
    BY <2>1, CurrentFrame DEF data
  <2>3. /\ proc' \in ProcType /\ proc'.pc = (IF proc.hit THEN "use" ELSE "open")
        /\ (proc'.hit <=> proc.hit)
        /\ proc'.fields = proc.fields /\ proc'.version = proc.version /\ proc'.get = proc.get
    BY <1>2, <2>1 DEF ProcType, Pcs
  <2>4. StoreTypeOK' /\ TodoInv' /\ ReportsInv' /\ WrongInv'
    BY <1>2, <2>1, <2>2, <2>3, WorkKeeps
  <2>5. WriterInv'
    BY <1>3, <1>5, <2>2, <2>3 DEF WriterInv
  <2>6. ParsedInv'
    BY <1>3, <2>2, <2>3 DEF ParsedInv, Live
  <2>7. QED BY <2>4, <2>5, <2>6 DEF StoreInv
<1>6. QED BY <1>4, <1>5

LEMMA OpenKeeps ==
  ASSUME StoreInv, OpenCache
  PROVE  StoreInv'
<1>1. /\ proc.pc = "open" /\ cache' = TornCache
      /\ proc' = [proc EXCEPT !.pc = "dump", !.get = "away"]
      /\ UNCHANGED <<data, files, driver, wrong, reports>>
  BY DEF OpenCache
<1>2. /\ driver.status = "running" /\ Stage \in Readers
      /\ proc \in ProcType /\ proc.fields \in ResultsOf(workload)
  BY <1>1, ProcessIs
<1>3. /\ ~ proc.hit /\ ~ CacheIsCurrent /\ Converts(workload, proc.fields)
      /\ files["config.yaml"] = "good" /\ proc.version = version
      /\ proc.fields = Whole(workload, files)
  BY <1>1 DEF StoreInv, WriterInv, ParsedInv, Live
<1>4. cache'.state = "torn" /\ ~ CacheIsCurrent'
  BY <1>1 DEF TornCache, CacheIsCurrent
<1>5. UNCHANGED <<workload, version, files>>
  BY <1>1 DEF data
<1>6. TheResults' = TheResults
  BY <1>3, <1>4, <1>5 DEF TheResults
<1>7. cache' \in CachesOf(workload)
  BY <1>1, CachesAre
<1>8. /\ proc' \in ProcType /\ proc'.pc = "dump" /\ ~ proc'.hit
      /\ proc'.fields = proc.fields /\ proc'.version = proc.version
  BY <1>1, <1>2, <1>3 DEF ProcType, Pcs
<1>9. StoreTypeOK' /\ TodoInv' /\ ReportsInv' /\ WrongInv'
  BY <1>1, <1>2, <1>6, <1>7, <1>8, WorkKeeps
<1>10. WriterInv' /\ ParsedInv'
  BY <1>3, <1>4, <1>5, <1>8 DEF WriterInv, ParsedInv, Live
<1>11. QED BY <1>9, <1>10 DEF StoreInv

LEMMA DumpKeeps ==
  ASSUME StoreInv, DumpCache
  PROVE  StoreInv'
<1>1. /\ proc.pc = "dump" /\ UNCHANGED data
      /\ \/ /\ cache' = WholeCache(proc.version, proc.fields)
            /\ proc' = [proc EXCEPT !.pc = "restore"]
            /\ UNCHANGED <<files, driver, wrong, reports>>
         \/ Crash /\ UNCHANGED cache
  BY DEF DumpCache
<1>2. /\ driver.status = "running" /\ Stage \in Readers
      /\ proc \in ProcType /\ proc.fields \in ResultsOf(workload)
      /\ workload \in Workloads /\ files \in FilesOf(workload)
      /\ version \in Nat
  BY <1>1, ProcessIs
<1>3. /\ ~ proc.hit /\ cache.state = "torn" /\ Converts(workload, proc.fields)
      /\ files["config.yaml"] = "good" /\ proc.version = version
      /\ proc.fields = Whole(workload, files)
  BY <1>1 DEF StoreInv, WriterInv, ParsedInv, Live
<1>4. CASE Crash /\ UNCHANGED cache
  <2>1. ReasonToFail
    BY <1>3 DEF ReasonToFail
  <2>2. QED BY <1>1, <1>4, <2>1, CrashKeeps
<1>5. CASE /\ cache' = WholeCache(proc.version, proc.fields)
           /\ proc' = [proc EXCEPT !.pc = "restore"]
           /\ UNCHANGED <<files, driver, wrong, reports>>
  <2>1. UNCHANGED <<workload, version, files>>
    BY <1>1, <1>5 DEF data
  <2>2. cache' \in CachesOf(workload) /\ cache'.fields = Whole(workload, files)
    BY <1>2, <1>3, <1>5, CachesAre DEF WholeCache
  <2>3. TheResults = Whole(workload, files)
    BY <1>3 DEF TheResults, CacheIsCurrent
  <2>4. TheResults' = IF CacheIsCurrent' THEN Again(workload, files, cache'.fields)
                                         ELSE Whole(workload, files)
    BY <2>1 DEF TheResults
  <2>5. Again(workload, files, Whole(workload, files)) = Whole(workload, files)
    BY <1>2, <1>3, WholeIs
  <2>6. TheResults' = TheResults
    BY <2>2, <2>3, <2>4, <2>5
  <2>7. /\ proc' \in ProcType /\ proc'.pc = "restore" /\ ~ proc'.hit
        /\ proc'.fields = proc.fields /\ proc'.version = proc.version
    BY <1>2, <1>3, <1>5 DEF ProcType, Pcs
  <2>8. StoreTypeOK' /\ TodoInv' /\ ReportsInv' /\ WrongInv'
    BY <1>1, <1>2, <1>5, <2>2, <2>6, <2>7, WorkKeeps
  <2>9. WriterInv' /\ ParsedInv'
    BY <1>3, <2>1, <2>2, <2>7 DEF WriterInv, ParsedInv, Live
  <2>10. QED BY <2>8, <2>9 DEF StoreInv
<1>6. QED BY <1>1, <1>4, <1>5

LEMMA RestoreKeeps ==
  ASSUME StoreInv, RestoreConfig
  PROVE  StoreInv'
<1>1. /\ proc.pc = "restore" /\ proc' = [proc EXCEPT !.pc = "use", !.get = "set"]
      /\ UNCHANGED <<data, files, cache, driver, wrong, reports>>
  BY DEF RestoreConfig
<1>2. /\ driver.status = "running" /\ Stage \in Readers
      /\ proc \in ProcType /\ proc.fields \in ResultsOf(workload)
      /\ cache \in CachesOf(workload)
  BY <1>1, ProcessIs
<1>3. /\ ~ proc.hit
      /\ files["config.yaml"] = "good" /\ proc.version = version
      /\ proc.fields = Whole(workload, files)
      /\ CacheIsCurrent => cache.fields = Whole(workload, files)
  BY <1>1 DEF StoreInv, WriterInv, ParsedInv, Live
<1>4. (CacheIsCurrent' <=> CacheIsCurrent) /\ TheResults' = TheResults
      /\ UNCHANGED <<workload, version, files, cache>>
  BY <1>1, CurrentFrame DEF data
<1>5. /\ proc' \in ProcType /\ proc'.pc = "use" /\ ~ proc'.hit /\ proc'.get = "set"
      /\ proc'.fields = proc.fields /\ proc'.version = proc.version
  BY <1>1, <1>2, <1>3 DEF ProcType, Pcs
<1>6. StoreTypeOK' /\ TodoInv' /\ ReportsInv' /\ WrongInv'
  BY <1>1, <1>2, <1>4, <1>5, WorkKeeps
<1>7. WriterInv' /\ ParsedInv'
  BY <1>3, <1>4, <1>5 DEF WriterInv, ParsedInv, Live
<1>8. QED BY <1>6, <1>7 DEF StoreInv

LEMMA UseKeeps ==
  ASSUME StoreInv, UseResults
  PROVE  StoreInv'
<1>1. /\ proc.pc = "use" /\ UNCHANGED <<data, files, cache>>
      /\ reports' = reports \cup {[stage |-> Stage, version |-> proc.version,
                                   fields |-> proc.fields]}
      /\ \/ LtsPayload /\ Exit(FALSE)
         \/ Stage \in {"lts", "visualize"} /\ Exit(TRUE)
         \/ /\ Stage = "visualize" /\ Proceed(TRUE) /\ proc' = NoProc
            /\ Blame("ERROR")
  BY DEF UseResults
<1>2. /\ proc \in ProcType /\ proc.fields \in ResultsOf(workload)
      /\ workload \in Workloads /\ files \in FilesOf(workload)
      /\ \A r \in reports : /\ r \in [stage : Readers, version : Nat, fields : ResultsOf(workload)]
                            /\ r.version = version /\ r.fields = TheResults
  BY <1>1, ProcessIs
<1>3. /\ files["config.yaml"] = "good" /\ proc.version = version
      /\ proc.fields = IF proc.hit THEN Again(workload, files, cache.fields)
                                   ELSE Whole(workload, files)
      /\ proc.hit => CacheIsCurrent
      /\ ~ proc.hit /\ CacheIsCurrent => cache.fields = Whole(workload, files)
  BY <1>1 DEF StoreInv, ParsedInv, Live
<1>4. Again(workload, files, Whole(workload, files)) = Whole(workload, files)
  BY <1>2, <1>3, WholeIs
<1>5. proc.fields = TheResults
  BY <1>3, <1>4 DEF TheResults
<1>6. \A r \in reports' : /\ r \in [stage : Readers, version : Nat, fields : ResultsOf(workload)]
                          /\ r.version = version /\ r.fields = TheResults
  <2>1. [stage |-> Stage, version |-> proc.version, fields |-> proc.fields]
          \in [stage : Readers, version : Nat, fields : ResultsOf(workload)]
    BY <1>1, <1>2, ProcessIs DEF ProcType
  <2>2. QED BY <1>1, <1>2, <1>3, <1>5, <2>1
<1>7. proc' = NoProc /\ Ends
  <2>1. CASE LtsPayload /\ Exit(FALSE)
    BY <2>1 DEF Exit, Ends
  <2>2. CASE Stage \in {"lts", "visualize"} /\ Exit(TRUE)
    <3>1. Stage \in StageNames /\ Stage # "parse"
      BY <2>2 DEF StageNames
    <3>2. Proceed(TRUE) /\ wrong' = wrong \cup {Stage} /\ proc' = NoProc
      BY <2>2, <3>1 DEF Exit
    <3>3. QED BY <3>1, <3>2 DEF Ends
  <2>3. CASE Stage = "visualize" /\ Proceed(TRUE) /\ proc' = NoProc /\ Blame("ERROR")
    BY <2>3 DEF Blame, Ends
  <2>4. QED BY <1>1, <2>1, <2>2, <2>3
<1>8. QED BY <1>1, <1>6, <1>7, LeaveKeeps

-----------------------------------------------------------------------------
(* The steps of the driver, and those between two of its runs. *)

\* When there is no process before the step, and none after it.
LEMMA StillNoProcess ==
  ASSUME StoreInv, proc.pc = "none", proc' = proc, workload' = workload
  PROVE  /\ WriterInv' /\ ParsedInv' /\ proc' \in ProcType' /\ proc'.pc = "none"
<1>1. ~ proc.hit /\ proc \in ProcType
  BY DEF StoreInv, ParsedInv, StoreTypeOK, ProcType
<1>2. WriterInv' /\ ParsedInv'
  BY <1>1 DEF WriterInv, ParsedInv, Live
<1>3. QED BY <1>1, <1>2 DEF ProcType

\* A stage without a process of its own, that leaves the reports of this run
\* alone, and what they are made from.
LEMMA DriverKeeps ==
  ASSUME StoreInv, driver.status = "running", Stage # "verdict", Ends,
         proc.pc = "none", UNCHANGED <<data, proc, reports>>,
         files' \in FilesOf(workload), cache' \in CachesOf(workload),
         reports = {} \/ UNCHANGED <<files, cache>>
  PROVE  StoreInv'
<1>1. /\ driver' \in DriverType /\ driver'.ignore = driver.ignore
      /\ driver'.status = "running" =>
           /\ driver'.todo # <<>> /\ Last(driver'.todo) = "verdict"
           /\ Head(driver'.todo) # "download"
      /\ \A i \in 2 .. Len(driver'.todo) : driver'.todo[i] # "download"
      /\ wrong' \subseteq StageNames \cup {"ERROR"}
      /\ WrongInv'
  BY DriverMoves
<1>2. UNCHANGED <<workload, server, version, runs, proc, reports>>
  BY DEF data
<1>3. WriterInv' /\ ParsedInv' /\ proc' \in ProcType' /\ proc'.pc = "none"
  BY <1>2, StillNoProcess
<1>4. StoreTypeOK'
  BY <1>1, <1>2, <1>3 DEF StoreInv, StoreTypeOK, DriverType
<1>5. TodoInv'
  BY <1>1, <1>3 DEF TodoInv
<1>6. ReportsInv'
  <2>1. CASE reports = {}
    BY <1>2, <2>1 DEF ReportsInv
  <2>2. CASE UNCHANGED <<files, cache>>
    <3>1. TheResults' = TheResults
      BY <1>1, <1>2, <2>2, CurrentFrame
    <3>2. QED BY <1>1, <1>2, <3>1 DEF StoreInv, ReportsInv, Stage
  <2>3. QED BY <2>1, <2>2
<1>7. QED BY <1>1, <1>3, <1>4, <1>5, <1>6 DEF StoreInv

LEMMA DownloadKeeps ==
  ASSUME StoreInv, Download
  PROVE  StoreInv'
<1>1. /\ driver.status = "running" /\ Stage = "download" /\ proc.pc = "none"
      /\ UNCHANGED <<data, proc, reports>>
  BY DEF Download, At
<1>2. /\ reports = {}
      /\ files \in FilesOf(workload) /\ cache \in CachesOf(workload)
      /\ server \in [files : FilesOf(workload), cache : CachesOf(workload)]
  BY <1>1, StoreTypes DEF StoreInv, ReportsInv
<1>3. Stage \in StageNames
  BY <1>1 DEF StageNames
<1>4. CASE /\ files' = [a \in DOMAIN files |->
                          IF files[a] = "absent"
                             /\ (server.cache.state = "none" \/ IsMandatoryFile(a))
                          THEN server.files[a] ELSE files[a]]
           /\ cache' = IF cache.state = "none" THEN server.cache ELSE cache
           /\ Proceed(FALSE)
           /\ UNCHANGED wrong
  <2>1. DOMAIN files = ArtifactsOf(workload)
    BY <1>2 DEF FilesOf
  <2>2. files' \in FilesOf(workload)
    BY <1>2, <1>4, <2>1 DEF FilesOf
  <2>3. cache' \in CachesOf(workload)
    BY <1>2, <1>4
  <2>4. Ends
    BY <1>4 DEF Ends
  <2>5. QED BY <1>1, <1>2, <2>2, <2>3, <2>4, DriverKeeps
<1>5. CASE Stop("failed") /\ Blame("download") /\ UNCHANGED <<files, cache>>
  <2>1. Ends
    BY <1>1, <1>3, <1>5 DEF Blame, Ends
  <2>2. QED BY <1>1, <1>2, <1>5, <2>1, DriverKeeps
<1>6. QED BY <1>4, <1>5 DEF Download

LEMMA SchemaKeeps ==
  ASSUME StoreInv, Schema
  PROVE  StoreInv'
<1>1. /\ driver.status = "running" /\ Stage = "schema" /\ proc.pc = "none"
      /\ UNCHANGED <<data, files, cache, proc, reports>>
      /\ \/ Proceed(FALSE) /\ UNCHANGED wrong
         \/ Proceed(TRUE) /\ Blame("schema")
  BY DEF Schema, At
<1>2. Ends
  <2>1. "schema" \in StageNames
    BY DEF StageNames
  <2>2. QED BY <1>1, <2>1 DEF Ends, Blame
<1>3. files \in FilesOf(workload) /\ cache \in CachesOf(workload)
  BY StoreTypes DEF StoreInv
<1>4. QED BY <1>1, <1>2, <1>3, DriverKeeps

LEMMA SaveKeeps ==
  ASSUME StoreInv, Save
  PROVE  StoreInv'
<1>1. /\ driver.status = "running" /\ Stage = "save" /\ proc.pc = "none"
      /\ UNCHANGED <<data, files, cache, proc, reports>>
      /\ Stop("failed") /\ Blame("save")
  BY DEF Save, At
<1>2. Ends
  <2>1. "save" \in StageNames
    BY DEF StageNames
  <2>2. QED BY <1>1, <2>1 DEF Ends, Blame
<1>3. files \in FilesOf(workload) /\ cache \in CachesOf(workload)
  BY StoreTypes DEF StoreInv
<1>4. QED BY <1>1, <1>2, <1>3, DriverKeeps

LEMMA VerdictKeeps ==
  ASSUME StoreInv, Verdict
  PROVE  StoreInv'
<1> DEFINE t == driver.todo
<1>1. /\ driver.status = "running" /\ Stage = "verdict" /\ proc.pc = "none"
      /\ UNCHANGED <<data, files, cache, proc, wrong, reports>>
      /\ IF driver.error THEN driver' = [driver EXCEPT !.status = "failed"]
         ELSE driver' = [driver EXCEPT !.todo = Tail(t),
                                       !.status = IF Len(t) = 1 THEN "ok" ELSE @]
  BY DEF Verdict, At, Stop
<1>2. /\ driver \in DriverType /\ t \in Seq(StageNames) /\ t # <<>> /\ t[Len(t)] = "verdict"
      /\ \A i \in 2 .. Len(t) : t[i] # "download"
      /\ driver.error <=> wrong # {}
  BY <1>1 DEF StoreInv, StoreTypeOK, TodoInv, WrongInv, Last, DriverType
<1>3. UNCHANGED <<workload, server, version, runs, files, cache, proc, wrong, reports>>
  BY <1>1 DEF data
<1>4. WriterInv' /\ ParsedInv' /\ proc' \in ProcType' /\ proc'.pc = "none"
  BY <1>1, <1>3, StillNoProcess
<1>5. /\ driver' \in DriverType /\ driver'.ignore = driver.ignore
      /\ driver'.status = "running" =>
           /\ driver'.todo # <<>> /\ Last(driver'.todo) = "verdict"
           /\ Head(driver'.todo) # "download" /\ (driver'.error <=> driver.error)
      /\ \A i \in 2 .. Len(driver'.todo) : driver'.todo[i] # "download"
      /\ driver'.status = "ok" => wrong = {}
      /\ driver'.status = "failed" => wrong # {} /\ Head(driver'.todo) # "parse"
  <2>1. CASE driver.error
    <3>1. driver' = [driver EXCEPT !.status = "failed"]
      BY <1>1, <2>1
    <3>2. /\ driver' \in DriverType /\ driver'.status = "failed"
          /\ driver'.todo = t /\ driver'.ignore = driver.ignore
      BY <1>2, <3>1 DEF DriverType
    <3>3. QED BY <1>1, <1>2, <2>1, <3>2 DEF Stage
  <2>2. CASE ~ driver.error
    <3>1. driver' = [driver EXCEPT !.todo = Tail(t),
                                   !.status = IF Len(t) = 1 THEN "ok" ELSE @]
      BY <1>1, <2>2
    <3>2. Tail(t) \in Seq(StageNames) /\ Len(Tail(t)) = Len(t) - 1 /\ Len(t) \in Nat /\ Len(t) >= 1
      BY <1>2
    <3> HIDE DEF t
    <3>3. CASE Len(t) = 1
      <4>1. /\ driver' \in DriverType /\ driver'.status = "ok"
            /\ driver'.todo = Tail(t) /\ driver'.ignore = driver.ignore
        BY <1>2, <3>1, <3>2, <3>3 DEF DriverType
      <4>2. \A i \in 2 .. Len(driver'.todo) : driver'.todo[i] # "download"
        BY <3>2, <3>3, <4>1
      <4>3. QED BY <1>2, <2>2, <4>1, <4>2
    <3>4. CASE Len(t) >= 2
      <4>1. /\ driver' \in DriverType /\ driver'.status = "running"
            /\ driver'.todo = Tail(t) /\ driver'.ignore = driver.ignore
            /\ driver'.error = driver.error
        <5>1. Len(t) # 1 /\ driver.status = "running"
          BY <1>1, <3>2, <3>4
        <5>2. driver' = [status |-> driver.status, todo |-> Tail(t),
                         error |-> driver.error, ignore |-> driver.ignore]
          BY <1>2, <3>1, <5>1 DEF DriverType
        <5>3. driver.error \in BOOLEAN /\ driver.ignore \in BOOLEAN
          BY <1>2 DEF DriverType
        <5>4. driver' \in DriverType
          BY <3>2, <5>1, <5>2, <5>3 DEF DriverType
        <5>5. QED BY <5>1, <5>2, <5>4
      <4>2. /\ Tail(t) # <<>>
            /\ Tail(t)[Len(Tail(t))] = "verdict"
            /\ \A i \in 2 .. Len(Tail(t)) : Tail(t)[i] # "download"
            /\ Head(Tail(t)) # "download"
        BY <1>2, <3>4, TailKeeps
      <4>3. QED BY <4>1, <4>2 DEF Last
    <3>5. QED BY <3>2, <3>3, <3>4
  <2>3. QED BY <2>1, <2>2
<1> HIDE DEF t
<1>6. StoreTypeOK'
  BY <1>3, <1>4, <1>5 DEF StoreInv, StoreTypeOK, DriverType, ProcType
<1>7. TodoInv'
  BY <1>4, <1>5 DEF TodoInv
<1>8. ReportsInv'
  <2>1. TheResults' = TheResults
    BY <1>3, <1>5, CurrentFrame
  <2>2. QED BY <1>1, <1>3, <1>5, <2>1 DEF StoreInv, ReportsInv, Stage
<1>9. WrongInv'
  BY <1>2, <1>3, <1>5 DEF WrongInv, FailureHasReason, Stage
<1>10. QED BY <1>4, <1>6, <1>7, <1>8, <1>9 DEF StoreInv

LEMMA KillKeeps ==
  ASSUME StoreInv, Kill
  PROVE  StoreInv'
<1>1. /\ driver' = [driver EXCEPT !.status = "killed"] /\ proc' = NoProc
      /\ UNCHANGED <<workload, server, version, runs, files, cache, wrong, reports>>
  BY DEF Kill, Stop, data
<1>2. driver \in DriverType
  BY DEF StoreInv, StoreTypeOK, DriverType
<1>3. driver' \in DriverType /\ driver'.status = "killed" /\ driver'.todo = driver.todo
  BY <1>1, <1>2 DEF DriverType
<1>4. /\ WriterInv' /\ ParsedInv' /\ proc'.pc = "none"
      /\ proc' \in [pc : Pcs, hit : BOOLEAN, fields : ResultsOf(workload') \cup {<<>>},
                    version : Nat, get : {"unset", "set", "away"}]
  BY <1>1, NoProcess
<1>5. StoreTypeOK'
  BY <1>1, <1>3, <1>4 DEF StoreInv, StoreTypeOK, DriverType
<1>6. TodoInv' /\ ReportsInv' /\ WrongInv'
  BY <1>3, <1>4 DEF StoreInv, TodoInv, ReportsInv, WrongInv, FailureHasReason
<1>7. QED BY <1>4, <1>5, <1>6 DEF StoreInv

\* Between two runs of the driver.
LEMMA BetweenKeeps ==
  ASSUME StoreInv, ArtifactsArrive \/ ParserChanges
  PROVE  StoreInv'
<1>1. /\ driver.status # "running" /\ driver' = [driver EXCEPT !.status = "idle"]
      /\ UNCHANGED <<workload, server, cache, runs, proc, wrong, reports>>
  BY DEF ArtifactsArrive, ParserChanges, data
<1>2. /\ driver \in DriverType /\ workload \in Workloads
      /\ files \in FilesOf(workload) /\ version \in Nat
  BY StoreTypes DEF StoreInv, StoreTypeOK, DriverType
<1>3. driver' \in DriverType /\ driver'.status = "idle" /\ driver'.todo = driver.todo
  BY <1>1, <1>2 DEF DriverType
<1>4. files' \in FilesOf(workload) /\ version' \in Nat
  <2>1. CASE ArtifactsArrive
    BY <1>2, <2>1 DEF ArtifactsArrive, data, FilesOf
  <2>2. CASE ParserChanges
    BY <1>2, <2>2 DEF ParserChanges
  <2>3. QED BY <2>1, <2>2
<1>5. proc.pc = "none"
  BY <1>1 DEF StoreInv, TodoInv
<1>6. WriterInv' /\ ParsedInv' /\ proc' \in ProcType' /\ proc'.pc = "none"
  BY <1>1, <1>5, StillNoProcess
<1>7. StoreTypeOK'
  BY <1>1, <1>3, <1>4, <1>6 DEF StoreInv, StoreTypeOK, DriverType, ProcType
<1>8. TodoInv' /\ ReportsInv' /\ WrongInv'
  BY <1>3, <1>6 DEF StoreInv, TodoInv, ReportsInv, WrongInv, FailureHasReason
<1>9. QED BY <1>6, <1>7, <1>8 DEF StoreInv

LEMMA StutterKeeps ==
  ASSUME StoreInv, UNCHANGED storeVars
  PROVE  StoreInv'
<1>1. UNCHANGED <<workload, server, files, cache, version, runs, driver, proc, wrong, reports>>
  BY DEF storeVars
<1>2. StoreTypeOK'
  BY <1>1 DEF StoreInv, StoreTypeOK
<1>3. CacheIsCurrent' <=> CacheIsCurrent
  BY <1>1, CurrentFrame
<1>4. TodoInv' /\ WriterInv' /\ ParsedInv'
  BY <1>1, <1>3 DEF StoreInv, TodoInv, WriterInv, ParsedInv, Stage
<1>5. ReportsInv' /\ WrongInv'
  <2>1. TheResults' = TheResults /\ (ReasonToFail' <=> ReasonToFail)
    BY <1>1, CurrentFrame
  <2>2. QED BY <1>1, <2>1 DEF StoreInv, ReportsInv, WrongInv, FailureHasReason, Stage
<1>6. QED BY <1>2, <1>4, <1>5 DEF StoreInv

\* Every step.
LEMMA StoreKeeps ==
  ASSUME StoreInv, [StoreNext]_storeVars
  PROVE  StoreInv'
<1>1. CASE UNCHANGED storeVars
  BY <1>1, StutterKeeps
<1>2. CASE \E plan \in Plans : Run(plan)
  BY <1>2, RunKeeps
<1>3. CASE Download \/ Schema \/ Save \/ Verdict
  BY <1>3, DownloadKeeps, SchemaKeeps, SaveKeeps, VerdictKeeps
<1>4. CASE Start \/ LoadCache \/ ParseAlways \/ ParseOnce \/ AddToMatrix
  BY <1>4, StartKeeps, LoadKeeps, AlwaysKeeps, OnceKeeps, MatrixKeeps
<1>5. CASE OpenCache \/ DumpCache \/ RestoreConfig \/ UseResults
  BY <1>5, OpenKeeps, DumpKeeps, RestoreKeeps, UseKeeps
<1>6. CASE Kill
  BY <1>6, KillKeeps
<1>7. CASE ArtifactsArrive \/ ParserChanges
  BY <1>7, BetweenKeeps
<1>8. CASE Done
  BY <1>8, StutterKeeps DEF Done
<1>9. QED BY <1>1, <1>2, <1>3, <1>4, <1>5, <1>6, <1>7, <1>8 DEF StoreNext

\* The inductive invariant: what a process has parsed so far is what every
\* other process of this run parses, or finds in the cache.
THEOREM StoreInvariant == StoreSpec => []StoreInv
<1>1. StoreInit => StoreInv
  BY InitHolds
<1>2. StoreInv /\ [StoreNext]_storeVars => StoreInv'
  BY StoreKeeps
<1>3. QED BY <1>1, <1>2, PTL DEF StoreSpec

\* The state of the stores, of their cache and of the driver is of its type
\* (store/__init__.py, testing/common/visualize.py).
THEOREM StoreTypeCorrect == StoreSpec => []StoreTypeOK
<1>1. StoreInv => StoreTypeOK
  BY DEF StoreInv
<1>2. QED BY <1>1, StoreInvariant, PTL

\* The reports, the LTS payload and the matrix of one run of the driver are all
\* made from the same results, by the parsers of that run, and none of them
\* finds test_config.get away (store/__init__.py, load_cache of each store):
\* whatever the plan, the artifacts and the cache that is found, and wherever
\* the driver was killed before.
THEOREM ResultsAgree == StoreSpec => []OneReport
<1>1. StoreInv => OneReport
  BY DEF StoreInv, ReportsInv, ParsedInv, OneReport
<1>2. QED BY <1>1, StoreInvariant, PTL

\* The payloads of a run whose LTS stages have all ended well are whole.
PayloadsInv ==
  "lts" \notin wrong => \A r \in reports : r.stage = "lts" => HasLts(workload, r.fields)

\* Only the use of the results makes a payload, which is whole or blamed.
LEMMA UseKeepsPayloads ==
  ASSUME StoreInv, PayloadsInv, UseResults
  PROVE  PayloadsInv'
<1>1. /\ reports' = reports \cup {[stage |-> Stage, version |-> proc.version,
                                   fields |-> proc.fields]}
      /\ \/ LtsPayload /\ Exit(FALSE)
         \/ Stage \in {"lts", "visualize"} /\ Exit(TRUE)
         \/ /\ Stage = "visualize" /\ Proceed(TRUE) /\ proc' = NoProc
            /\ Blame("ERROR")
      /\ workload' = workload
  BY DEF UseResults, data
<1>2. CASE LtsPayload /\ Exit(FALSE)
  BY <1>1, <1>2 DEF Exit, LtsPayload, PayloadsInv
<1>3. CASE Stage \in {"lts", "visualize"} /\ Exit(TRUE)
  BY <1>1, <1>3 DEF Exit, PayloadsInv
<1>4. CASE Stage = "visualize" /\ Proceed(TRUE) /\ proc' = NoProc /\ Blame("ERROR")
  BY <1>1, <1>4 DEF Blame, PayloadsInv
<1>5. QED BY <1>1, <1>2, <1>3, <1>4

\* Every other step leaves the payloads alone, and blames more, or starts anew.
LEMMA PayloadsKeep ==
  ASSUME StoreInv, PayloadsInv, [StoreNext]_storeVars
  PROVE  PayloadsInv'
<1>1. CASE \/ UNCHANGED <<workload, reports, wrong>>
           \/ UNCHANGED <<workload, reports>> /\ wrong \subseteq wrong'
           \/ workload' = workload /\ reports' = {}
  BY <1>1 DEF PayloadsInv
<1>2. CASE UNCHANGED storeVars
  BY <1>1, <1>2 DEF storeVars
<1>3. CASE \E plan \in Plans : Run(plan)
  BY <1>1, <1>3 DEF Run
<1>4. CASE Download
  BY <1>1, <1>4 DEF Download, Blame, data
<1>5. CASE Schema \/ Save
  BY <1>1, <1>5 DEF Schema, Save, Blame, data
<1>6. CASE Verdict \/ Start
  BY <1>1, <1>6 DEF Verdict, Start, data
<1>7. CASE Crash /\ workload' = workload
  BY <1>1, <1>7 DEF Crash, Exit
<1>8. CASE LoadCache
  BY <1>1, <1>7, <1>8 DEF LoadCache, data
<1>9. CASE ParseAlways
  BY <1>1, <1>7, <1>9 DEF ParseAlways, data
<1>10. CASE ParseOnce \/ AddToMatrix
  BY <1>1, <1>7, <1>10 DEF ParseOnce, AddToMatrix, data
<1>11. CASE OpenCache \/ DumpCache \/ RestoreConfig
  BY <1>1, <1>7, <1>11 DEF OpenCache, DumpCache, RestoreConfig, data
<1>12. CASE UseResults
  BY <1>12, UseKeepsPayloads
<1>13. CASE Kill \/ ArtifactsArrive \/ ParserChanges
  BY <1>1, <1>13 DEF Kill, ArtifactsArrive, ParserChanges, data
<1>14. CASE Done
  BY <1>2, <1>14 DEF Done
<1>15. QED BY <1>2, <1>3, <1>4, <1>5, <1>6, <1>8, <1>9, <1>10, <1>11, <1>12, <1>13, <1>14
         DEF StoreNext

\* The driver succeeds only when nothing went wrong, with payloads that have
\* all that their models ask for, and fails only when something did; the
\* parsing stage fails only for a cache that was cut, for an artifact that
\* cannot be parsed, or for a mandatory one that is absent
\* (generate_visualization, _parse_once and build_lts_payloads of each store).
THEOREM VerdictsAreEarned == StoreSpec => []VerdictIsEarned
<1>1. StoreInit => PayloadsInv
  BY DEF StoreInit, PayloadsInv
<1>2. StoreInv /\ PayloadsInv /\ [StoreNext]_storeVars => PayloadsInv'
  BY PayloadsKeep
<1>3. StoreInv /\ PayloadsInv => VerdictIsEarned
  BY DEF StoreInv, WrongInv, PayloadsInv, VerdictIsEarned, SuccessIsWhole
<1>4. QED BY <1>1, <1>2, <1>3, StoreInvariant, PTL DEF StoreSpec

\* The two steps that write a cache find none that is current.
LEMMA CurrentIsKept ==
  ASSUME StoreInv, [StoreNext]_storeVars, CacheIsCurrent
  PROVE  cache' = cache
<1>1. cache.state = "whole"
  BY DEF CacheIsCurrent
<1>2. CASE UNCHANGED storeVars
  BY <1>2 DEF storeVars
<1>3. CASE \E plan \in Plans : Run(plan)
  BY <1>3 DEF Run
<1>4. CASE Download
  BY <1>1, <1>4 DEF Download
<1>5. CASE Schema \/ Save \/ Verdict \/ Start
  BY <1>5 DEF Schema, Save, Verdict, Start
<1>6. CASE LoadCache \/ ParseAlways \/ ParseOnce \/ AddToMatrix
  BY <1>6 DEF LoadCache, ParseAlways, ParseOnce, AddToMatrix
<1>7. CASE OpenCache
  BY <1>7 DEF OpenCache, StoreInv, WriterInv
<1>8. CASE DumpCache
  BY <1>1, <1>8 DEF DumpCache, StoreInv, WriterInv
<1>9. CASE RestoreConfig \/ UseResults \/ Kill
  BY <1>9 DEF RestoreConfig, UseResults, Kill
<1>10. CASE ArtifactsArrive \/ ParserChanges
  BY <1>10 DEF ArtifactsArrive, ParserChanges
<1>11. CASE Done
  BY <1>11 DEF Done, storeVars
<1>12. QED BY <1>2, <1>3, <1>4, <1>5, <1>6, <1>7, <1>8, <1>9, <1>10, <1>11 DEF StoreNext

\* A cache that these parsers can use is never written again, by any step of
\* any process, even one that raises or is killed (_parse_directory).
THEOREM CachesAreSafe == StoreSpec => CacheIsSafe
<1>1. StoreInv /\ [StoreNext]_storeVars => [CacheIsCurrent => cache' = cache]_storeVars
  BY CurrentIsKept
<1>2. QED BY <1>1, StoreInvariant, PTL DEF StoreSpec, CacheIsSafe

=============================================================================
