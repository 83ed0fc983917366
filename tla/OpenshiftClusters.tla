-------------------------- MODULE OpenshiftClusters --------------------------
(***************************************************************************)
(* The creation of the clusters of a test and their destruction, two steps *)
(* of the CI that run in Pods of their own and share CONFIG_DEST_DIR:      *)
(*   testing/utils/openshift_clusters/clusters.sh   (both steps)           *)
(*   testing/utils/process_ctrl.sh                  (background processes) *)
(*   testing/utils/openshift_clusters/{ocp,osd}_cluster.sh                 *)
(*   subprojects/deploy-cluster                     (make, the installer)  *)
(* A background process is a shell script (the creator) that runs make or  *)
(* the toolbox (the installer).  SIGKILL ends the script, not what it runs.*)
(***************************************************************************)
CONSTANT
  Options  \* clusters.create.type, the kind of managed cluster,
           \* clusters.create.keep, and what may fail in each of the two steps

ASSUME OptionsAssumption ==
  Options \subseteq [type : {"ocp", "osd", "single"}, managed : {"ocm", "rosa"},
                     keep : BOOLEAN,
                     createFaults : BOOLEAN, destroyFaults : BOOLEAN]

VARIABLES
  step,        \* the control state of clusters.sh, create then destroy
  waitList,    \* process_ctrl__wait_list
  creator,     \* the control state of each *_cluster.sh create
  installer,   \* the state of what it runs
  cluster,     \* the cluster itself, in AWS
  record,      \* whether its metadata.json, or its name, is in CONFIG_DEST_DIR
  kubeconfig,  \* whether its kubeconfig is there
  kept,        \* whether it has the keep-cluster ConfigMap
  destroyer,   \* the control state of each *_cluster.sh destroy
  options      \* the configuration

creation == <<creator, installer>>
files == <<record, kubeconfig>>
vars == <<step, waitList, creation, cluster, files, kept, destroyer, options>>

Roles == {"sutest", "driver"}

\* The roles that have a cluster of their own.
Needed == IF options.type = "single" THEN {"sutest"} ELSE Roles
Managed(r) == options.type = "osd" /\ r = "sutest"

CreateSteps == {"launch", "wait", "keep_sutest", "keep_driver", "finalize"}

TypeOK ==
  /\ step \in CreateSteps \cup {"created", "failed", "destroy", "over"}
  /\ waitList \subseteq Roles
  /\ creator \in [Roles -> {"off", "check", "make", "save", "ok", "ko",
                            "killed"}]
  /\ installer \in [Roles -> {"off", "config", "recorded", "install", "done",
                              "failed", "killed"}]
  /\ cluster \in [Roles -> {"none", "partial", "up"}]
  /\ record \in [Roles -> BOOLEAN]
  /\ kubeconfig \in [Roles -> BOOLEAN]
  /\ kept \in [Roles -> BOOLEAN]
  /\ destroyer \in [Roles -> {"off", "check", "uninstall", "done", "error"}]
  /\ options \in Options

Init ==
  /\ step = "launch"
  /\ waitList = {}
  /\ creator = [r \in Roles |-> "off"]
  /\ installer = [r \in Roles |-> "off"]
  /\ cluster = [r \in Roles |-> "none"]
  /\ record = [r \in Roles |-> FALSE]
  /\ kubeconfig = [r \in Roles |-> FALSE]
  /\ kept = [r \in Roles |-> FALSE]
  /\ destroyer = [r \in Roles |-> "off"]
  /\ options \in Options

CreateMayFail == options.createFaults
DestroyMayFail == options.destroyFaults

-----------------------------------------------------------------------------
(* The create step.                                                        *)

\* The checks passed: each creator runs in the background.  There is no
\* creator of ROSA clusters.
Launch ==
  /\ step = "launch"
  /\ \/ /\ ~ (options.type = "osd" /\ options.managed = "rosa")
        /\ step' = "wait"
        /\ waitList' = Needed
        /\ creator' = [r \in Roles |-> IF r \in Needed THEN "check" ELSE "off"]
     \/ /\ CreateMayFail \/ (options.type = "osd" /\ options.managed = "rosa")
        /\ step' = "finalize"
        /\ UNCHANGED <<waitList, creator>>
  /\ UNCHANGED <<installer, cluster, files, kept, destroyer, options>>

\* The name of a managed cluster is saved before the cluster is asked for.
StartInstaller(r) ==
  /\ creator[r] = "check"
  /\ creator' = [creator EXCEPT ![r] = "make"]
  /\ installer' = [installer EXCEPT
                     ![r] = IF Managed(r) THEN "recorded" ELSE "config"]
  /\ record' = [record EXCEPT ![r] = Managed(r)]
  /\ UNCHANGED <<step, waitList, cluster, kubeconfig, kept, destroyer, options>>

\* The author, the tags or the secrets are not what they should be.
CheckFails(r) ==
  /\ CreateMayFail
  /\ creator[r] = "check"
  /\ creator' = [creator EXCEPT ![r] = "ko"]
  /\ UNCHANGED <<step, waitList, installer, cluster, files, kept, destroyer,
                 options>>

\* Mutant: metadata.json is copied once the cluster is there.
CopyMetadataLater(r) ==
  /\ installer[r] = "config"
  /\ installer' = [installer EXCEPT ![r] = "recorded"]
  /\ UNCHANGED <<step, waitList, creator, cluster, files, kept, destroyer,
                 options>>

\* make: manifests, ignition configs, then cp metadata.json.
CopyMetadata(r) ==
  /\ installer[r] = "config"
  /\ installer' = [installer EXCEPT ![r] = "recorded"]
  /\ record' = [record EXCEPT ![r] = TRUE]
  /\ UNCHANGED <<step, waitList, creator, cluster, kubeconfig, kept, destroyer,
                 options>>

CreateCluster(r) ==
  /\ installer[r] = "recorded"
  /\ installer' = [installer EXCEPT ![r] = "install"]
  /\ cluster' = [cluster EXCEPT ![r] = "partial"]
  /\ UNCHANGED <<step, waitList, creator, files, kept, destroyer, options>>

ClusterReady(r) ==
  /\ installer[r] = "install"
  /\ installer' = [installer EXCEPT ![r] = "done"]
  /\ cluster' = [cluster EXCEPT ![r] = "up"]
  /\ UNCHANGED <<step, waitList, creator, files, kept, destroyer, options>>

InstallerFails(r) ==
  /\ CreateMayFail
  /\ installer[r] \in {"config", "recorded", "install"}
  /\ installer' = [installer EXCEPT ![r] = "failed"]
  /\ UNCHANGED <<step, waitList, creator, cluster, files, kept, destroyer,
                 options>>

\* errexit: the creator ends with its installer.
InstallerEnds(r) ==
  /\ creator[r] = "make"
  /\ installer[r] \in {"done", "failed"}
  /\ creator' = [creator EXCEPT
                   ![r] = IF installer[r] = "done" THEN "save" ELSE "ko"]
  /\ UNCHANGED <<step, waitList, installer, cluster, files, kept, destroyer,
                 options>>

SaveKubeconfig(r) ==
  /\ creator[r] = "save"
  /\ \/ /\ creator' = [creator EXCEPT ![r] = "ok"]
        /\ kubeconfig' = [kubeconfig EXCEPT ![r] = TRUE]
     \/ /\ CreateMayFail
        /\ creator' = [creator EXCEPT ![r] = "ko"]
        /\ UNCHANGED kubeconfig
  /\ UNCHANGED <<step, waitList, installer, cluster, record, kept, destroyer,
                 options>>

NextCreateStep ==
  IF ~ options.keep \/ options.type = "osd" THEN "created" ELSE "keep_sutest"

\* wait -n returns for one of the processes that ended; the first failure
\* stops the wait, and the script.
WaitOne(r) ==
  /\ step = "wait"
  /\ r \in waitList
  /\ creator[r] \in {"ok", "ko"}
  /\ waitList' = waitList \ {r}
  /\ step' = IF creator[r] = "ko" THEN "finalize"
             ELSE IF waitList' = {} THEN NextCreateStep
             ELSE "wait"
  /\ UNCHANGED <<creation, cluster, files, kept, destroyer, options>>

\* keep_cluster: the ConfigMap first, then a user and the instructions.
KeepCluster(r) ==
  /\ step = IF r = "sutest" THEN "keep_sutest" ELSE "keep_driver"
  /\ \/ /\ kept' = [kept EXCEPT ![r] = TRUE]
        /\ step' = IF r = "sutest" /\ options.type = "ocp" THEN "keep_driver"
                                                           ELSE "created"
     \/ /\ CreateMayFail
        /\ \/ kept' = [kept EXCEPT ![r] = TRUE]
           \/ UNCHANGED kept
        /\ step' = "finalize"
  /\ UNCHANGED <<waitList, creation, cluster, files, destroyer, options>>

\* kill_bg_processes, the finalizer of the create step.
KillOne(r) ==
  /\ step = "finalize"
  /\ r \in waitList
  /\ waitList' = waitList \ {r}
  /\ creator' = [creator EXCEPT
                   ![r] = IF @ \in {"ok", "ko"} THEN @ ELSE "killed"]
  /\ UNCHANGED <<step, installer, cluster, files, kept, destroyer, options>>

EndFinalizers ==
  /\ step = "finalize"
  /\ waitList = {}
  /\ step' = "failed"
  /\ UNCHANGED <<waitList, creation, cluster, files, kept, destroyer, options>>

\* The CI interrupts the step.
Interrupt ==
  /\ CreateMayFail
  /\ step \in CreateSteps
  /\ step' = "failed"
  /\ UNCHANGED <<waitList, creation, cluster, files, kept, destroyer, options>>

-----------------------------------------------------------------------------
(* The destroy step.                                                       *)

\* Mutant: the step is called with an action clusters.sh does not know.
\* The Pod of the create step is gone, with all its processes; the CI always
\* runs the destroy step.
StartDestroy ==
  /\ step \in {"created", "failed"}
  /\ step' = "destroy"
  /\ waitList' = Roles
  /\ creator' = [r \in Roles |->
       IF creator[r] \in {"check", "make", "save"} THEN "killed"
       ELSE creator[r]]
  /\ installer' = [r \in Roles |->
       IF installer[r] \in {"config", "recorded", "install"} THEN "killed"
                                                         ELSE installer[r]]
  /\ destroyer' = [r \in Roles |-> IF r \in Needed THEN "check" ELSE "done"]
  /\ UNCHANGED <<cluster, files, kept, options>>

\* oc get cm/keep-cluster: any error of the command means "do not keep".
CheckKeep(r) ==
  /\ step = "destroy"
  /\ destroyer[r] = "check"
  /\ \/ /\ kept[r] /\ kubeconfig[r]
        /\ destroyer' = [destroyer EXCEPT ![r] = "done"]
     \/ /\ ~ kept[r] \/ ~ kubeconfig[r] \/ DestroyMayFail
        /\ destroyer' = [destroyer EXCEPT
             ![r] = IF Managed(r) /\ options.managed = "rosa" THEN "error"
                                                           ELSE "uninstall"]
  /\ UNCHANGED <<step, waitList, creation, cluster, files, kept, options>>

\* ocp_cluster.sh or osd_cluster.sh destroy: always a success.  The role
\* cluster_destroy_osd reads a variable that only cluster_create_osd has, and
\* fails before `ocm delete cluster`: a managed cluster is never deleted.
Uninstall(r) ==
  /\ step = "destroy"
  /\ destroyer[r] = "uninstall"
  /\ destroyer' = [destroyer EXCEPT ![r] = "done"]
  /\ \/ /\ record[r] /\ ~ Managed(r)
        /\ cluster' = [cluster EXCEPT ![r] = "none"]
     \/ /\ ~ record[r] \/ Managed(r) \/ DestroyMayFail
        /\ UNCHANGED cluster
  /\ UNCHANGED <<step, waitList, creation, files, kept, options>>

\* Mutant: the step does not wait for its second process.
WaitDestroyedOnce(r) ==
  /\ step = "destroy"
  /\ r \in waitList
  /\ destroyer[r] \in {"done", "error"}
  /\ waitList' = waitList \ {r}
  /\ step' = "over"
  /\ UNCHANGED <<creation, cluster, files, kept, destroyer, options>>

\* The first failure ends the wait, and the step, in success.
WaitDestroyed(r) ==
  /\ step = "destroy"
  /\ r \in waitList
  /\ destroyer[r] \in {"done", "error"}
  /\ waitList' = waitList \ {r}
  /\ step' = IF destroyer[r] = "error" \/ waitList' = {} THEN "over"
                                                         ELSE "destroy"
  /\ UNCHANGED <<creation, cluster, files, kept, destroyer, options>>

-----------------------------------------------------------------------------
\* What runs in the Pod of the create step, until the Pod is gone.
CreatorStep(r) ==
  /\ step # "over"
  /\ \/ StartInstaller(r) \/ CheckFails(r)
     \/ CopyMetadata(r) \/ CreateCluster(r) \/ ClusterReady(r)
     \/ InstallerFails(r) \/ InstallerEnds(r) \/ SaveKubeconfig(r)

CreateStep ==
  \/ Launch \/ EndFinalizers \/ Interrupt
  \/ \E r \in Roles : WaitOne(r) \/ KeepCluster(r) \/ KillOne(r)

DestroyStep ==
  \/ StartDestroy
  \/ \E r \in Roles : CheckKeep(r) \/ Uninstall(r) \/ WaitDestroyed(r)

Over == step = "over" /\ UNCHANGED vars

Next ==
  \/ \E r \in Roles : CreatorStep(r)
  \/ CreateStep \/ DestroyStep \/ Over

Spec == Init /\ [][Next]_vars

-----------------------------------------------------------------------------
\* The metadata.json, or the name, without which a cluster cannot be destroyed
\* is in CONFIG_DEST_DIR before the cluster exists, whatever is killed, and
\* whenever (config_install.mk:62-65, osd_cluster.sh:36-37).
RecordedBeforeCreated == \A r \in Roles : cluster[r] # "none" => record[r]

\* A create step that succeeds leaves every cluster up, with its kubeconfig
\* (clusters.sh:107, process_ctrl.sh:11-26).
CreatedAll ==
  step \in {"keep_sutest", "keep_driver", "created"} =>
    \A r \in Needed : cluster[r] = "up" /\ kubeconfig[r]

\* If the destroy step meets no failure, a kept cluster survives it and any
\* other one is gone, wherever the create step failed or was interrupted
\* (clusters.sh:46-77,158-163).  A managed cluster is not: it is left as it is.
NothingLeftBehind ==
  step = "over" /\ ~ DestroyMayFail =>
    \A r \in Roles : Managed(r) \/ cluster[r] = IF kept[r] THEN "up" ELSE "none"

==============================================================================
