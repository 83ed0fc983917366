----------------------- MODULE OpenshiftClustersProofs -----------------------
(***************************************************************************)
(* What the create and the destroy steps guarantee, for any set of         *)
(* configurations, wherever they fail or are interrupted; then what the    *)
(* toolbox they call guarantees to the processes that share an             *)
(* ARTIFACT_DIR, for any number of them and any calls.                     *)
(***************************************************************************)
EXTENDS OpenshiftClusters, Toolbox, FiniteSetTheorems, TLAPS

Busy == {"config", "recorded", "install"}

\* What an installer has done so far.
InstallerInv ==
  \A r \in Roles :
    /\ cluster[r] # "none" => record[r]
    /\ installer[r] \in {"recorded", "install", "done"} => record[r]
    /\ installer[r] = "done" /\ step \notin {"destroy", "over"}
         => cluster[r] = "up"
    /\ creator[r] \in {"off", "check"}
         => installer[r] = "off" /\ cluster[r] = "none"
    /\ creator[r] \in {"save", "ok"} => installer[r] = "done"
    /\ creator[r] = "ok" => kubeconfig[r]

\* A role without a cluster of its own has no creator; neither has any role
\* when there is no creator for the cluster of the sutest.
NeedInv ==
  /\ step = "launch" => \A r \in Roles : creator[r] = "off"
  /\ \A r \in Roles : r \notin Needed => creator[r] = "off"
  /\ options.type = "osd" /\ options.managed = "rosa" =>
       \A r \in Roles : creator[r] = "off"

\* The creators are waited for, and who was waited for ended well.
WaitInv ==
  /\ step \in CreateSteps => \A r \in waitList : creator[r] # "off"
  /\ step = "keep_driver" => options.type = "ocp"
  /\ step = "wait" => \A r \in Needed : r \in waitList \/ creator[r] = "ok"
  /\ step \in {"keep_sutest", "keep_driver", "created"} =>
       \A r \in Needed : creator[r] = "ok"

\* A cluster is kept once it is there, and as long as the destroy step can
\* see that it is.
KeptInv ==
  \A r \in Roles :
    /\ kept[r] => creator[r] = "ok"
    /\ kept[r] /\ ~ DestroyMayFail => cluster[r] = "up"
    /\ destroyer[r] = "uninstall" /\ ~ DestroyMayFail => ~ kept[r]

\* The two steps do not overlap; what the destroy step has done so far.
DestroyInv ==
  /\ step \in {"destroy", "over"} =>
       \A r \in Roles : /\ creator[r] \notin {"check", "make", "save"}
                        /\ installer[r] \notin Busy
                        /\ destroyer[r] # "off"
  /\ step \notin {"destroy", "over"} => \A r \in Roles : destroyer[r] = "off"
  /\ \A r \in Roles : destroyer[r] = "error" => /\ options.type = "osd"
                                                /\ options.managed = "rosa"
  /\ \A r \in Roles : destroyer[r] = "done" /\ ~ DestroyMayFail /\ ~ Managed(r)
       => cluster[r] = IF kept[r] THEN "up" ELSE "none"
  /\ step = "over" => \/ \A r \in Roles : destroyer[r] = "done"
                      \/ options.type = "osd" /\ options.managed = "rosa"
  /\ step = "destroy" =>
       \A r \in Roles : r \in waitList \/ destroyer[r] = "done"

IInv == TypeOK /\ InstallerInv /\ NeedInv /\ WaitInv /\ KeptInv /\ DestroyInv

-----------------------------------------------------------------------------
LEMMA NeededAreRoles == Needed \subseteq Roles
BY DEF Needed, Roles

LEMMA InitIInv == Init => IInv
BY DEF Init, IInv, TypeOK, InstallerInv, NeedInv, WaitInv, KeptInv, DestroyInv,
       CreateSteps, Roles, Busy

\* A creator or its installer goes on, in the Pod of the create step.
LEMMA CreatorStepIInv ==
  ASSUME IInv, NEW r \in Roles, CreatorStep(r)
  PROVE  IInv'
<1> USE DEF IInv, CreatorStep, StartInstaller, CheckFails, CopyMetadata,
        CreateCluster, ClusterReady, InstallerFails, InstallerEnds,
        SaveKubeconfig, creation, files
<1>1. TypeOK'
  BY DEF TypeOK, Managed
<1>2. InstallerInv'
  <2>1. CASE StartInstaller(r)
    BY <2>1 DEF TypeOK, InstallerInv, Managed
  <2>2. CASE CheckFails(r)
    BY <2>2 DEF TypeOK, InstallerInv, Managed
  <2>3. CASE CopyMetadata(r)
    BY <2>3 DEF TypeOK, InstallerInv, Managed
  <2>4. CASE CreateCluster(r)
    BY <2>4 DEF TypeOK, InstallerInv, Managed
  <2>5. CASE ClusterReady(r)
    BY <2>5 DEF TypeOK, InstallerInv, Managed
  <2>6. CASE InstallerFails(r)
    BY <2>6 DEF TypeOK, InstallerInv, Managed
  <2>7. CASE InstallerEnds(r)
    BY <2>7 DEF TypeOK, InstallerInv, Managed
  <2>8. CASE SaveKubeconfig(r)
    BY <2>8 DEF TypeOK, InstallerInv, Managed
  <2>9. QED BY <2>1, <2>2, <2>3, <2>4, <2>5, <2>6, <2>7, <2>8
<1>3. NeedInv'
  BY DEF TypeOK, NeedInv, Needed
<1>4. WaitInv'
  BY NeededAreRoles DEF TypeOK, WaitInv, Needed, CreateSteps
<1>5. KeptInv'
  BY DEF TypeOK, KeptInv, DestroyMayFail, InstallerInv
<1>6. DestroyInv'
  BY DEF TypeOK, DestroyInv, DestroyMayFail, Busy
<1>7. QED BY <1>1, <1>2, <1>3, <1>4, <1>5, <1>6

\* clusters.sh create.
LEMMA CreateStepIInv ==
  ASSUME IInv, CreateStep
  PROVE  IInv'
<1> USE OptionsAssumption
        DEF IInv, CreateStep, Launch, WaitOne, KeepCluster, KillOne,
        EndFinalizers, Interrupt, NextCreateStep, creation, files
<1>1. TypeOK'
  <2>1. CASE Launch
    BY <2>1 DEF TypeOK, CreateSteps, Needed, Roles
  <2>2. CASE EndFinalizers \/ Interrupt
    BY <2>2 DEF TypeOK, CreateSteps, Needed, Roles
  <2>3. CASE \E r \in Roles : WaitOne(r)
    BY <2>3 DEF TypeOK, CreateSteps, Needed, Roles
  <2>4. ASSUME NEW r \in Roles, KeepCluster(r)
        PROVE  TypeOK'
    <3>1. kept' \in [Roles -> BOOLEAN]
      BY <2>4 DEF TypeOK
    <3>2. step' \in {"keep_driver", "created", "finalize"}
      BY <2>4
    <3>3. QED BY <2>4, <3>1, <3>2 DEF TypeOK, CreateSteps
  <2>5. CASE \E r \in Roles : KillOne(r)
    BY <2>5 DEF TypeOK, CreateSteps, Needed, Roles
  <2>6. QED BY <2>1, <2>2, <2>3, <2>4, <2>5
<1>2. InstallerInv'
  BY DEF TypeOK, InstallerInv, NeedInv, CreateSteps
<1>3. NeedInv'
  <2>1. CASE Launch
    BY <2>1 DEF TypeOK, NeedInv, Needed, WaitInv, CreateSteps
  <2>2. CASE EndFinalizers \/ Interrupt
    BY <2>2 DEF TypeOK, NeedInv, Needed, WaitInv, CreateSteps
  <2>3. CASE \E r \in Roles : WaitOne(r)
    BY <2>3 DEF TypeOK, NeedInv, Needed, WaitInv, CreateSteps
  <2>4. CASE \E r \in Roles : KeepCluster(r)
    BY <2>4 DEF TypeOK, NeedInv, Needed, WaitInv, CreateSteps
  <2>5. CASE \E r \in Roles : KillOne(r)
    BY <2>5 DEF TypeOK, NeedInv, Needed, WaitInv, CreateSteps
  <2>6. QED BY <2>1, <2>2, <2>3, <2>4, <2>5
<1>4. WaitInv'
  BY NeededAreRoles DEF TypeOK, WaitInv, Needed, CreateSteps
<1>5. KeptInv'
  <2>1. CASE Launch
    BY <2>1 DEF TypeOK, KeptInv, DestroyMayFail, NeedInv
  <2>2. CASE EndFinalizers \/ Interrupt
    BY <2>2 DEF TypeOK, KeptInv, DestroyMayFail, InstallerInv,
                WaitInv, Needed, CreateSteps
  <2>3. CASE \E r \in Roles : WaitOne(r)
    BY <2>3 DEF TypeOK, KeptInv, DestroyMayFail, InstallerInv,
                WaitInv, Needed, CreateSteps
  <2>4. ASSUME NEW r \in Roles, KeepCluster(r)
        PROVE  KeptInv'
    <3>1. r \in Needed
      BY <2>4 DEF WaitInv, Needed, Roles
    <3>2. creator[r] = "ok" /\ cluster[r] = "up"
      BY <2>4, <3>1 DEF WaitInv, InstallerInv
    <3>3. kept' = kept \/ kept' = [kept EXCEPT ![r] = TRUE]
      BY <2>4
    <3>4. UNCHANGED <<creator, cluster, destroyer, options>>
      BY <2>4
    <3>5. destroyer[r] = "off"
      BY <2>4 DEF DestroyInv
    <3>6. QED
      BY <3>2, <3>3, <3>4, <3>5 DEF TypeOK, KeptInv, DestroyMayFail
  <2>5. CASE \E r \in Roles : KillOne(r)
    BY <2>5 DEF TypeOK, KeptInv, DestroyMayFail, InstallerInv,
                WaitInv, Needed, CreateSteps
  <2>6. QED BY <2>1, <2>2, <2>3, <2>4, <2>5
<1>6. DestroyInv'
  BY DEF TypeOK, DestroyInv, DestroyMayFail, CreateSteps
<1>7. QED BY <1>1, <1>2, <1>3, <1>4, <1>5, <1>6

\* clusters.sh destroy.
LEMMA DestroyStepIInv ==
  ASSUME IInv, DestroyStep
  PROVE  IInv'
<1> USE DEF IInv, DestroyStep, StartDestroy, CheckKeep, Uninstall,
        WaitDestroyed, creation, files
<1>1. TypeOK'
  BY DEF TypeOK
<1>2. InstallerInv'
  BY DEF TypeOK, InstallerInv
<1>3. NeedInv'
  BY DEF TypeOK, NeedInv, Needed
<1>4. WaitInv'
  BY DEF TypeOK, WaitInv, Needed, CreateSteps
<1>5. KeptInv'
  BY DEF TypeOK, KeptInv, DestroyMayFail, InstallerInv
<1>6. DestroyInv'
  <2>1. CASE StartDestroy
    BY <2>1 DEF TypeOK, DestroyInv, DestroyMayFail, Busy, Managed,
                KeptInv, NeedInv, InstallerInv
  <2>2. CASE \E r \in Roles : CheckKeep(r)
    BY <2>2 DEF TypeOK, DestroyInv, DestroyMayFail, Busy, Managed,
                KeptInv, NeedInv, InstallerInv
  <2>3. CASE \E r \in Roles : Uninstall(r)
    BY <2>3 DEF TypeOK, DestroyInv, DestroyMayFail, Busy, Managed,
                KeptInv, NeedInv, InstallerInv
  <2>4. CASE \E r \in Roles : WaitDestroyed(r)
    BY <2>4 DEF TypeOK, DestroyInv, DestroyMayFail, Busy, Managed,
                KeptInv, NeedInv, InstallerInv
  <2>5. QED BY <2>1, <2>2, <2>3, <2>4
<1>7. QED BY <1>1, <1>2, <1>3, <1>4, <1>5, <1>6

LEMMA NextIInv == IInv /\ [Next]_vars => IInv'
<1> SUFFICES ASSUME IInv, [Next]_vars
             PROVE  IInv'
  OBVIOUS
<1>1. CASE UNCHANGED vars
  BY <1>1 DEF vars, creation, files, IInv, TypeOK, InstallerInv, NeedInv,
              Needed, WaitInv, KeptInv, DestroyMayFail, DestroyInv, Busy, Managed
<1>2. QED
  BY <1>1, CreatorStepIInv, CreateStepIInv, DestroyStepIInv DEF Next, Over

LEMMA Invariance == Spec => []IInv
<1>1. QED BY InitIInv, NextIInv, PTL DEF Spec

-----------------------------------------------------------------------------
\* The state of the two steps stays in its type.
THEOREM TypeCorrect == Spec => []TypeOK
<1>1. IInv => TypeOK
  BY DEF IInv
<1>2. QED BY <1>1, Invariance, PTL

\* What is needed to destroy a cluster is saved before it is created, whatever
\* is killed and whenever.
THEOREM NoClusterIsLost == Spec => []RecordedBeforeCreated
<1>1. IInv => RecordedBeforeCreated
  BY DEF IInv, InstallerInv, RecordedBeforeCreated
<1>2. QED BY <1>1, Invariance, PTL

\* A create step that succeeds has created all its clusters.
THEOREM CreatesAll == Spec => []CreatedAll
<1>1. IInv => CreatedAll
  BY DEF IInv, InstallerInv, WaitInv, CreatedAll, Needed, Roles
<1>2. QED BY <1>1, Invariance, PTL

\* A destroy step without a failure leaves, of the clusters that are not
\* managed, the kept ones and these only, wherever the create step ended.
THEOREM LeavesNothing == Spec => []NothingLeftBehind
<1>1. IInv => NothingLeftBehind
  BY DEF IInv, InstallerInv, NeedInv, KeptInv, DestroyInv, NothingLeftBehind
<1>2. QED BY <1>1, Invariance, PTL

-----------------------------------------------------------------------------
(* The toolbox.                                                            *)

Started == {"mkdir", "play", "ansible", "clean", "mark"}

\* A directory of ARTIFACT_DIR has a number below the number of directories,
\* also among those that a process has counted.
NumbersInv ==
  /\ \A d \in dirs : d.index < Cardinality(dirs)
  /\ \A q \in Procs : /\ IsFiniteSet(seen[q])
                      /\ \A d \in seen[q] : d.index < Cardinality(seen[q])

\* What a process has counted is still there, and is the number of its own.
CountedInv ==
  \A q \in Procs :
    /\ seen[q] \subseteq dirs
    /\ extra \/ pc[q] \in {"off", "count"} => seen[q] = {}
    /\ seen[q] # {} => dir[q].index = Cardinality(seen[q])
    /\ pc[q] \in Started => IF extra THEN dir[q] = ExtraLogsDir
                                     ELSE /\ dir[q] \in Directories
                                          /\ dir[q].index = Cardinality(seen[q])

\* The return code is that of the play, and the exit status comes last.
ReturnInv ==
  \A p \in Procs :
    /\ pc[p] \in {"off", "count", "mkdir", "play", "ansible"} => ret[p] = Unset
    /\ pc[p] = "clean" => ret[p] \in {-1, 0, 2}
    /\ pc[p] = "mark" => ret[p] \in {-1, 2}
    /\ pc[p] # "over" => code[p] = Unset

ToolboxInv ==
  ToolboxTypeOK /\ NumbersInv /\ CountedInv /\ ReturnInv /\ FailureIsMarked

-----------------------------------------------------------------------------
LEMMA ToolboxInitInv == ToolboxInit => ToolboxInv
<1> SUFFICES ASSUME ToolboxInit
             PROVE  ToolboxInv
  OBVIOUS
<1> USE DEF ToolboxInit
<1>1. dirs \subseteq Directories /\ IsFiniteSet(dirs) /\ \A d \in dirs : d.index < Cardinality(dirs)
  BY ToolboxAssumption
<1>2. ToolboxTypeOK
  BY <1>1, ToolboxAssumption DEF ToolboxTypeOK
<1>3. NumbersInv
  BY <1>1, FS_EmptySet DEF NumbersInv
<1>4. CountedInv
  BY DEF CountedInv, Started
<1>5. ReturnInv /\ FailureIsMarked
  BY DEF ReturnInv, FailureIsMarked, Unset
<1>6. QED BY <1>2, <1>3, <1>4, <1>5 DEF ToolboxInv

\* A call that runs no role exits with 0, 1 or 2: with 0 because it asked for
\* none.
LEMMA EarlyExits ==
  ASSUME NEW c \in Calls, NEW status \in EarlyExit(c)
  PROVE  /\ status \in {0, 1, 2}
         /\ status = 0 => c.how # "run" \/ c.cmd.role = NoRole
<1>1. ExitStatus(0) = 0 /\ ExitStatus(256) = 0
  BY DEF ExitStatus
<1>2. RepoExit(c) \in {0, 1}
  <2>1. CASE "repo=bad" \in c.odd
    BY <1>1, <2>1 DEF RepoExit
  <2>2. CASE "repo=bad" \notin c.odd
    BY <1>1, <2>2 DEF RepoExit
  <2>3. QED BY <2>1, <2>2
<1>3. \A s \in FromConfig(c) : s \in {0, 1} /\ (s = 0 => c.how # "run")
  BY DEF FromConfig
<1>4. \A s \in FromCli(c) : s \in {0, 1, 2} /\ (s = 0 => c.how # "run")
  BY DEF FromCli
<1>5. QED BY <1>2, <1>3, <1>4 DEF EarlyExit

\* The directory a process makes gets the number of those it has counted,
\* which is no more than there are now.
LEMMA OneMoreDirectory ==
  ASSUME NEW S \in SUBSET Directories, IsFiniteSet(S),
         \A d \in S : d.index < Cardinality(S),
         NEW T, T \subseteq S,
         NEW d \in Directories, d.index = Cardinality(T)
  PROVE  /\ IsFiniteSet(S \cup {d})
         /\ \A e \in S \cup {d} : e.index < Cardinality(S \cup {d})
<1>1. IsFiniteSet(S \cup {d})
  BY FS_AddElement
<1>2. Cardinality(T) <= Cardinality(S) /\ Cardinality(S) \in Nat
  BY FS_Subset, FS_CardinalityType
<1>3. Cardinality(S \cup {d}) = IF d \in S THEN Cardinality(S) ELSE Cardinality(S) + 1
  BY FS_AddElement
<1>4. \A e \in S \cup {d} : e.index \in Nat
  BY DEF Directories
<1>5. QED
  <2>1. CASE d \in S
    <3>1. S \cup {d} = S
      BY <2>1
    <3>2. QED BY <1>1, <3>1
  <2>2. CASE d \notin S
    <3>1. Cardinality(S \cup {d}) = Cardinality(S) + 1
      BY <1>3, <2>2
    <3>2. d.index < Cardinality(S) + 1
      BY <1>2, <1>4
    <3>3. \A e \in S : e.index < Cardinality(S) + 1
      BY <1>2, <1>4
    <3>4. QED BY <1>1, <3>1, <3>2, <3>3
  <2>3. QED BY <2>1, <2>2

-----------------------------------------------------------------------------
LEMMA CallInv ==
  ASSUME ToolboxInv, NEW p \in Procs, Call(p)
  PROVE  ToolboxInv'
<1> USE DEF ToolboxInv, Call, Goes, Exits
<1>0. call[p] \in Calls
  BY DEF ToolboxTypeOK
<1>1. \/ pc' = [pc EXCEPT ![p] = "count"] /\ UNCHANGED code
      \/ \E status \in EarlyExit(call[p]) :
           pc' = [pc EXCEPT ![p] = "over"] /\ code' = [code EXCEPT ![p] = status]
  OBVIOUS
<1>2. ToolboxTypeOK'
  BY <1>0, <1>1, EarlyExits DEF ToolboxTypeOK
<1>3. NumbersInv'
  BY DEF NumbersInv
<1>4. CountedInv'
  BY <1>1 DEF CountedInv, ToolboxTypeOK, Started
<1>5. ret[p] = Unset
  BY DEF ReturnInv
<1>6. ReturnInv'
  BY <1>1, <1>5 DEF ReturnInv, ToolboxTypeOK
<1>7. FailureIsMarked'
  <2>1. \A q \in Procs : code'[q] = 0 =>
          \/ code[q] = 0
          \/ call[q].how # "run" \/ call[q].cmd.role = NoRole
    BY <1>0, <1>1, EarlyExits DEF ToolboxTypeOK
  <2>2. \A q \in Procs : pc'[q] = "over" => q = p \/ pc[q] = "over"
    BY <1>1 DEF ToolboxTypeOK
  <2>3. UNCHANGED <<ret, dir, marks, call>>
    OBVIOUS
  <2>4. QED BY <1>5, <2>1, <2>2, <2>3 DEF FailureIsMarked, Unset
<1>8. QED BY <1>2, <1>3, <1>4, <1>6, <1>7

LEMMA CountDirectoriesInv ==
  ASSUME ToolboxInv, NEW p \in Procs, CountDirectories(p)
  PROVE  ToolboxInv'
<1> USE DEF ToolboxInv, CountDirectories, Goes
<1> DEFINE own == [index |-> Cardinality(dirs), group |-> call[p].cmd.group,
                   command |-> call[p].cmd.command,
                   suffix |-> IF call[p].cmd.suffixed THEN call[p].suffix ELSE ""]
<1>0. /\ pc[p] = "count" /\ pc' = [pc EXCEPT ![p] = "mkdir"]
      /\ UNCHANGED <<call, extra, dirs, plays, ret, marks, code>>
  OBVIOUS
<1>1. \/ extra /\ dir' = [dir EXCEPT ![p] = ExtraLogsDir] /\ UNCHANGED seen
      \/ ~extra /\ dir' = [dir EXCEPT ![p] = own] /\ seen' = [seen EXCEPT ![p] = dirs]
  OBVIOUS
<1>2. own \in Directories /\ own.index = Cardinality(dirs)
  <2>1. Cardinality(dirs) \in Nat
    BY FS_CardinalityType DEF ToolboxTypeOK
  <2>2. call[p] \in Calls
    BY DEF ToolboxTypeOK
  <2>3. QED BY <2>1, <2>2 DEF Directories, Calls
<1> HIDE DEF own, CountDirectories
<1>3. ToolboxTypeOK'
  BY <1>0, <1>1, <1>2 DEF ToolboxTypeOK
<1>4. NumbersInv'
  BY <1>0, <1>1 DEF NumbersInv, ToolboxTypeOK
<1>5. CountedInv'
  <2>1. \A q \in Procs : q # p => /\ seen'[q] = seen[q] /\ dir'[q] = dir[q]
                                  /\ pc'[q] = pc[q]
    BY <1>0, <1>1 DEF ToolboxTypeOK
  <2>2. /\ pc'[p] = "mkdir"
        /\ \/ extra /\ dir'[p] = ExtraLogsDir /\ seen'[p] = {}
           \/ ~extra /\ dir'[p] = own /\ seen'[p] = dirs
    BY <1>0, <1>1 DEF ToolboxTypeOK, CountedInv
  <2>3. QED BY <1>0, <1>2, <2>1, <2>2 DEF CountedInv, Started
<1>6. ReturnInv'
  BY <1>0 DEF ReturnInv, ToolboxTypeOK
<1>7. FailureIsMarked'
  <2>1. ret[p] = Unset
    BY <1>0 DEF ReturnInv
  <2>2. \A q \in Procs : q # p => dir'[q] = dir[q]
    BY <1>0, <1>1 DEF ToolboxTypeOK
  <2>3. \A q \in Procs : pc'[q] = "over" => q # p /\ pc[q] = "over"
    BY <1>0 DEF ToolboxTypeOK
  <2>4. QED BY <1>0, <2>1, <2>2, <2>3 DEF FailureIsMarked, Unset
<1>8. QED BY <1>3, <1>4, <1>5, <1>6, <1>7

LEMMA MakeDirectoryInv ==
  ASSUME ToolboxInv, NEW p \in Procs, MakeDirectory(p)
  PROVE  ToolboxInv'
<1> USE DEF ToolboxInv, MakeDirectory, Goes
<1>0. pc[p] = "mkdir" /\ pc' = [pc EXCEPT ![p] = "play"] /\ UNCHANGED <<call, extra, seen, dir, plays, ret, marks, code>>
  OBVIOUS
<1>1. ~extra => dir[p] \in Directories /\ dir[p].index = Cardinality(seen[p])
  BY <1>0 DEF CountedInv, Started
<1>2. /\ IsFiniteSet(dirs') /\ dirs \subseteq dirs' /\ dirs' \subseteq Directories
      /\ \A d \in dirs' : d.index < Cardinality(dirs')
  <2>1. CASE extra
    BY <2>1 DEF ToolboxTypeOK, NumbersInv
  <2>2. CASE ~extra
    <3>1. dirs' = dirs \cup {dir[p]}
      BY <2>2
    <3>2. seen[p] \subseteq dirs
      BY DEF CountedInv
    <3>3. dirs \in SUBSET Directories /\ IsFiniteSet(dirs) /\ \A d \in dirs : d.index < Cardinality(dirs)
      BY DEF ToolboxTypeOK, NumbersInv
    <3>4. /\ IsFiniteSet(dirs \cup {dir[p]})
          /\ \A e \in dirs \cup {dir[p]} : e.index < Cardinality(dirs \cup {dir[p]})
      BY <1>1, <2>2, <3>2, <3>3, OneMoreDirectory
    <3>5. QED BY <1>1, <2>2, <3>1, <3>3, <3>4
  <2>3. QED BY <2>1, <2>2
<1> HIDE DEF MakeDirectory
<1>3. ToolboxTypeOK'
  BY <1>0, <1>2 DEF ToolboxTypeOK
<1>4. NumbersInv'
  BY <1>0, <1>2 DEF NumbersInv
<1>5. CountedInv'
  BY <1>0, <1>2 DEF CountedInv, ToolboxTypeOK, Started
<1>6. ReturnInv'
  BY <1>0 DEF ReturnInv, ToolboxTypeOK
<1>7. FailureIsMarked'
  BY <1>0 DEF FailureIsMarked, ToolboxTypeOK
<1>8. QED BY <1>3, <1>4, <1>5, <1>6, <1>7

LEMMA WritePlayInv ==
  ASSUME ToolboxInv, NEW p \in Procs, WritePlay(p)
  PROVE  ToolboxInv'
<1> USE DEF ToolboxInv, WritePlay, Goes, Exits
<1>0. pc[p] = "play" /\ UNCHANGED <<call, extra, dirs, seen, dir, ret, marks>>
  OBVIOUS
<1>1. \/ plays' = plays /\ pc' = [pc EXCEPT ![p] = "over"] /\ code' = [code EXCEPT ![p] = 1]
      \/ plays' = plays \cup {p} /\ pc' = [pc EXCEPT ![p] = "ansible"] /\ UNCHANGED code
  OBVIOUS
<1> HIDE DEF WritePlay
<1>2. ToolboxTypeOK'
  BY <1>0, <1>1 DEF ToolboxTypeOK
<1>3. NumbersInv'
  BY <1>0 DEF NumbersInv
<1>4. CountedInv'
  BY <1>0, <1>1 DEF CountedInv, ToolboxTypeOK, Started
<1>5. ret[p] = Unset
  BY <1>0 DEF ReturnInv
<1>6. ReturnInv'
  BY <1>0, <1>1, <1>5 DEF ReturnInv, ToolboxTypeOK
<1>7. FailureIsMarked'
  <2>1. \A q \in Procs : code'[q] = 0 => code[q] = 0
    BY <1>1 DEF ToolboxTypeOK
  <2>2. \A q \in Procs : pc'[q] = "over" => q = p \/ pc[q] = "over"
    BY <1>1 DEF ToolboxTypeOK
  <2>3. QED BY <1>0, <1>5, <2>1, <2>2 DEF FailureIsMarked, Unset
<1>8. QED BY <1>2, <1>3, <1>4, <1>6, <1>7

LEMMA AnsibleEndsInv ==
  ASSUME ToolboxInv, NEW p \in Procs, AnsibleEnds(p)
  PROVE  ToolboxInv'
<1> USE DEF ToolboxInv, AnsibleEnds, Goes
<1>0. /\ pc[p] = "ansible" /\ pc' = [pc EXCEPT ![p] = "clean"]
      /\ UNCHANGED <<call, extra, dirs, seen, dir, plays, marks, code>>
  OBVIOUS
<1>1. PICK status \in {-1, 0, 2} : ret' = [ret EXCEPT ![p] = status]
  OBVIOUS
<1> HIDE DEF AnsibleEnds
<1>2. ToolboxTypeOK'
  BY <1>0, <1>1 DEF ToolboxTypeOK
<1>3. NumbersInv'
  BY <1>0 DEF NumbersInv
<1>4. CountedInv'
  BY <1>0 DEF CountedInv, ToolboxTypeOK, Started
<1>5. ReturnInv'
  BY <1>0, <1>1 DEF ReturnInv, ToolboxTypeOK
<1>6. FailureIsMarked'
  <2>1. ret[p] = Unset /\ code[p] = Unset
    BY <1>0 DEF ReturnInv
  <2>2. \A q \in Procs : q # p => ret'[q] = ret[q]
    BY <1>1 DEF ToolboxTypeOK
  <2>3. \A q \in Procs : pc'[q] = "over" => q # p /\ pc[q] = "over"
    BY <1>0 DEF ToolboxTypeOK
  <2>4. QED BY <1>0, <2>1, <2>2, <2>3 DEF FailureIsMarked, Unset
<1>7. QED BY <1>2, <1>3, <1>4, <1>5, <1>6

LEMMA RemovePlayInv ==
  ASSUME ToolboxInv, NEW p \in Procs, RemovePlay(p)
  PROVE  ToolboxInv'
<1> USE DEF ToolboxInv, RemovePlay, Goes, Exits
<1>0. /\ pc[p] = "clean" /\ plays' = plays \ {p}
      /\ UNCHANGED <<call, extra, dirs, seen, dir, ret, marks>>
  OBVIOUS
<1>1. \/ ret[p] = 0 /\ pc' = [pc EXCEPT ![p] = "over"] /\ code' = [code EXCEPT ![p] = 0]
      \/ ret[p] # 0 /\ pc' = [pc EXCEPT ![p] = "mark"] /\ UNCHANGED code
  OBVIOUS
<1> HIDE DEF RemovePlay
<1>2. ToolboxTypeOK'
  BY <1>0, <1>1 DEF ToolboxTypeOK
<1>3. NumbersInv'
  BY <1>0 DEF NumbersInv
<1>4. CountedInv'
  BY <1>0, <1>1 DEF CountedInv, ToolboxTypeOK, Started
<1>5. ReturnInv'
  BY <1>0, <1>1 DEF ReturnInv, ToolboxTypeOK
<1>6. FailureIsMarked'
  <2>1. \A q \in Procs : code'[q] = 0 => code[q] = 0 \/ ret[q] = 0
    BY <1>1 DEF ToolboxTypeOK
  <2>2. \A q \in Procs : pc'[q] = "over" => ret[q] = 0 \/ pc[q] = "over"
    BY <1>1 DEF ToolboxTypeOK
  <2>3. QED BY <1>0, <2>1, <2>2 DEF FailureIsMarked
<1>7. QED BY <1>2, <1>3, <1>4, <1>5, <1>6

LEMMA MarkFailureInv ==
  ASSUME ToolboxInv, NEW p \in Procs, MarkFailure(p)
  PROVE  ToolboxInv'
<1> USE DEF ToolboxInv, MarkFailure, Goes, Exits
<1>0. /\ pc[p] = "mark" /\ marks' = marks \cup {dir[p]} /\ pc' = [pc EXCEPT ![p] = "over"]
      /\ UNCHANGED <<call, extra, dirs, seen, dir, plays, ret>>
  OBVIOUS
<1>1. ret[p] \in {-1, 2} /\ dir[p] \in Directories \cup {ExtraLogsDir}
  BY <1>0 DEF ReturnInv, CountedInv, Started
<1>2. PICK status \in {1, 2} : code' = [code EXCEPT ![p] = status]
  BY <1>1
<1> HIDE DEF MarkFailure
<1>3. ToolboxTypeOK'
  BY <1>0, <1>1, <1>2 DEF ToolboxTypeOK
<1>4. NumbersInv'
  BY <1>0 DEF NumbersInv
<1>5. CountedInv'
  BY <1>0 DEF CountedInv, ToolboxTypeOK, Started
<1>6. ReturnInv'
  BY <1>0, <1>2 DEF ReturnInv, ToolboxTypeOK
<1>7. FailureIsMarked'
  <2>1. \A q \in Procs : code'[q] = 0 => code[q] = 0
    BY <1>2 DEF ToolboxTypeOK
  <2>2. \A q \in Procs : pc'[q] = "over" => q = p \/ pc[q] = "over"
    BY <1>0 DEF ToolboxTypeOK
  <2>3. QED BY <1>0, <1>1, <2>1, <2>2 DEF FailureIsMarked
<1>8. QED BY <1>3, <1>4, <1>5, <1>6, <1>7

LEMMA DieInv ==
  ASSUME ToolboxInv, NEW p \in Procs, Die(p)
  PROVE  ToolboxInv'
<1> USE DEF ToolboxInv, Die, Goes
<1>1. ToolboxTypeOK'
  BY DEF ToolboxTypeOK
<1>2. NumbersInv'
  BY DEF NumbersInv
<1>3. CountedInv'
  BY DEF CountedInv, ToolboxTypeOK, Started
<1>4. ReturnInv'
  BY DEF ReturnInv, ToolboxTypeOK
<1>5. FailureIsMarked'
  BY DEF FailureIsMarked, ToolboxTypeOK
<1>6. QED BY <1>1, <1>2, <1>3, <1>4, <1>5

LEMMA ToolboxNextInv == ToolboxInv /\ [ToolboxNext]_toolboxVars => ToolboxInv'
<1> SUFFICES ASSUME ToolboxInv, [ToolboxNext]_toolboxVars
             PROVE  ToolboxInv'
  OBVIOUS
<1>1. CASE UNCHANGED toolboxVars
  BY <1>1 DEF toolboxVars, ToolboxInv, ToolboxTypeOK, NumbersInv, CountedInv, ReturnInv,
              FailureIsMarked
<1>2. CASE ToolboxNext
  BY <1>2, CallInv, CountDirectoriesInv, MakeDirectoryInv, WritePlayInv, AnsibleEndsInv,
     RemovePlayInv, MarkFailureInv, DieInv DEF ToolboxNext, Step
<1>3. QED BY <1>1, <1>2

\* The inductive invariant holds in every execution.
LEMMA ToolboxInvariance == ToolboxSpec => []ToolboxInv
<1>1. QED BY ToolboxInitInv, ToolboxNextInv, PTL DEF ToolboxSpec

\* The processes that run commands of the toolbox in one ARTIFACT_DIR keep
\* their types; every exit status is 0, 1 or 2.
THEOREM ToolboxTypeCorrect == ToolboxSpec => []ToolboxTypeOK
<1>1. ToolboxInv => ToolboxTypeOK
  BY DEF ToolboxInv
<1>2. QED BY <1>1, ToolboxInvariance, PTL

\* For any number of processes and of directories found: a command that sees
\* the directory of another one when it counts them gets a higher number
\* (_common.py).
THEOREM OrderOfDirectories == ToolboxSpec => []DirectoriesInOrder
<1>1. ToolboxInv => DirectoriesInOrder
  BY DEF ToolboxInv, NumbersInv, CountedInv, DirectoriesInOrder
<1>2. QED BY <1>1, ToolboxInvariance, PTL

\* For any number of processes: a play that failed or was interrupted is marked
\* in its directory, a mark has a failure behind it, and an exit status 0 is a
\* play that succeeded or a call that asked for none.
THEOREM FailuresAreMarked == ToolboxSpec => []FailureIsMarked
<1>1. ToolboxInv => FailureIsMarked
  BY DEF ToolboxInv
<1>2. QED BY <1>1, ToolboxInvariance, PTL
=============================================================================
