--------------------------- MODULE ResultsParsers ---------------------------
(***************************************************************************)
(* What the stores of visualizations/ parse, workload by workload: the     *)
(* fields of the results, the artifacts each one comes from, and what is   *)
(* left of it when an artifact is absent or cannot be parsed.              *)
(* A step is a function _parse_x or _extract_x; the value it assigns is    *)
(* "full", "part" (an empty or incomplete one) or "none".                  *)
(***************************************************************************)
EXTENDS Naturals, Sequences, SequencesExt

\* A function with @ignore_file_not_found: None for an absent file, and an
\* exception for one that cannot be parsed.
Step(fields, files) ==
  [fields |-> fields,
   files |-> files,
   dir |-> "",          \* the directory they are in, when it is looked for
   nodir |-> "none",    \* the outcome without the directory,
   absent |-> "none",   \* without one of the files,
   bad |-> "raise",     \* and with a file that cannot be parsed
   needs |-> {},        \* the fields that it cannot do without
   from |-> {},         \* the fields it is computed from
   joins |-> FALSE]     \* completes a field that an earlier step may assign

\* Mutant: without `or {}`.
OrNone(step) == step

\* `or {}`, and the functions that skip what is not there.
OrEmpty(step) ==
  [step EXCEPT !.absent = "part",
               !.bad = IF @ = "none" THEN "part" ELSE @]

\* Without the decorator, or with a result that is unpacked.
OrRaise(step) == [step EXCEPT !.absent = "raise"]

In(dir, nodir, step) == [step EXCEPT !.dir = dir, !.nodir = nodir]
Tolerant(bad, step) == [step EXCEPT !.bad = bad]
Joins(step) == [step EXCEPT !.joins = TRUE]
Derived(field, source) ==
  [Step({field}, {}) EXCEPT !.from = {source}, !.needs = {source}]
Needs(source, step) == [step EXCEPT !.needs = {source}]

-----------------------------------------------------------------------------
(* codeflare: the directories are globs. *)

CodeflareAlways ==
  <<Step({"from_local_env"}, {}), OrRaise(Step({"test_config"}, {"config.yaml"}))>>

CodeflareCluster ==
  <<In("capture_environment", "part", OrEmpty(Step({"nodes_info"}, {"nodes.json"}))),
    Derived("cluster_info", "nodes_info"),
    In("capture_environment", "none", Step({"sutest_ocp_version"}, {"ocp_version.yml"})),
    In("dump_prometheus_db", "none", OrEmpty(Step({"metrics"}, {"prometheus.t"})))>>

\* artifact_paths.X / name is a TypeError when X is None.
CodeflareLoad ==
  <<In("generate_mcad_load", "raise", Tolerant("none", Step({"pod_times"}, {"pods.json"}))),
    In("generate_mcad_load", "none",
       OrEmpty(Step({"resource_times"}, {"appwrappers.json", "jobs.json"})))>>

CodeflareTimes ==
  <<In("generate_mcad_load", "raise", Step({"test_start_end_time"}, {"start_end_cm.yaml"})),
    In("cleanup_appwrappers", "raise", Step({"cleanup_times"}, {"cleanup.yaml"}))>>

CodeflareCase ==
  <<In("generate_mcad_load", "raise", Tolerant("none", Step({"mcad_image"}, {"mcad-pods.json"}))),
    Step({"test_case_config"}, {"test_case_config.yaml"}),
    Needs("test_case_config", Step({"test_case_properties"}, {})),
    In("generate_mcad_load", "raise", Step({"file_locations"}, {}))>>

CodeflareOnce == CodeflareCluster \o CodeflareLoad \o CodeflareTimes \o CodeflareCase

-----------------------------------------------------------------------------
(* load-aware: the same, and an OCP version that needs its directory. *)

LoadAwareAlways ==
  <<Step({"from_local_env"}, {}), OrRaise(Step({"test_config"}, {"config.yaml"}))>>

LoadAwarePods ==
  <<In("scale_test", "raise",
       OrEmpty(Tolerant("none", Step({"pods_info"}, {"scale_test_pods.json"}))))>>

LoadAwareCluster ==
  <<In("capture_environment", "part", OrEmpty(Step({"nodes_info"}, {"nodes.json"}))),
    Derived("cluster_info", "nodes_info"),
    In("capture_environment", "raise", Step({"sutest_ocp_version"}, {"ocp_version.yml"})),
    In("dump_prometheus_db", "none", OrEmpty(Step({"metrics"}, {"prometheus.t"}))),
    In("scale_test", "raise", Step({"file_locations"}, {}))>>

LoadAwareOnce == LoadAwarePods \o LoadAwareCluster

-----------------------------------------------------------------------------
(* skeleton and rhods-notebooks-performance: None is unpacked into the     *)
(* start and the end.                                                      *)

SkeletonAlways ==
  <<Step({"from_local_env"}, {}), OrRaise(Step({"test_config"}, {"config.yaml"}))>>

SkeletonOnce ==
  <<OrEmpty(Step({"nodes_info"}, {"nodes.json"})),
    Derived("cluster_info", "nodes_info"),
    Step({"sutest_ocp_version"}, {"ocp_version.yml"}),
    OrEmpty(Step({"metrics"}, {"prometheus.t"})),
    OrRaise(Step({"start_time", "end_time"}, {"_ansible.log"}))>>

PerformanceAlways ==
  <<Step({"from_local_env"}, {}), OrRaise(Step({"test_config"}, {"config.yaml"}))>>

\* A date of creation that is no date is None.
PerformanceOnce ==
  <<OrEmpty(Step({"nodes_info"}, {"nodes.json"})),
    Derived("cluster_info", "nodes_info"),
    Step({"sutest_ocp_version"}, {"ocp_version.yml"}),
    Tolerant("part", Step({"rhods_info"}, {"rhods.version", "rhods.createdAt"})),
    OrRaise(Step({"start_time", "end_time"}, {"_ansible.log"})),
    Step({"notebook_benchmark"}, {"benchmark_measures.json"})>>

-----------------------------------------------------------------------------
(* rhods-pipelines *)

PipelinesAlways ==
  <<Step({"from_local_env"}, {}), OrRaise(Step({"test_config"}, {"config.yaml"}))>>

PipelinesCluster ==
  <<Step({"artifacts_version"}, {"artifacts_version"}),
    Needs("test_config", Step({"user_count"}, {})),
    OrEmpty(Step({"nodes_info"}, {"nodes.json"})),
    Derived("rhods_cluster_info", "nodes_info"),
    Step({"sutest_ocp_version"}, {"ocp_version.yml"}),
    Tolerant("part", Step({"rhods_info"}, {"rhods.version", "rhods.createdAt"})),
    Step({"success_count"}, {"success_count"})>>

\* One user, whose data is None without its directory.  `None |= progress`
\* is a TypeError.
PipelinesUser ==
  <<In("ci-pod", "none", OrEmpty(Needs("user_count", Step({"user_data"}, {"test.exit_code"})))),
    Joins(In("ci-pod", "none", OrRaise(Step({"user_data"}, {"progress_ts.yaml"})))),
    Joins(In("ci-pod", "none", OrEmpty(Step({"user_data"}, {"step_ansible.log"}))))>>

PipelinesUserPods ==
  <<Joins(In("ci-pod", "none",
       OrEmpty(Step({"user_data"}, {"applications.json", "deployments.json", "pipelines.json"})))),
    Joins(In("ci-pod", "none", Tolerant("part", OrEmpty(Step({"user_data"}, {"pod.json"})))))>>

PipelinesJob ==
  <<Step({"tester_job"}, {"ci_job.yaml"}),
    OrEmpty(Step({"metrics"}, {"prometheus_ocp.t"}))>>

PipelinesOnce == PipelinesCluster \o PipelinesUser \o PipelinesUserPods \o PipelinesJob

-----------------------------------------------------------------------------
(* rhods-notebooks: one user. *)

NotebooksEnv == Step({"from_local_env"}, {})
NotebooksThresholds == Step({"thresholds"}, {})
NotebooksConfig == OrRaise(Step({"test_config"}, {"config.yaml"}))
NotebooksMetrics == OrEmpty(Step({"metrics"}, {"prometheus_ocp.t", "prometheus_rhods.t"}))
NotebooksMachines == Step({"possible_machines"}, {})

NotebooksAlways ==
  <<NotebooksEnv, NotebooksThresholds, NotebooksConfig,
    Derived("check_thresholds", "thresholds")>>

NotebooksRun ==
  <<Step({"start_time", "end_time"}, {"_ansible.log"}),
    Step({"user_count", "location"}, {}),
    Step({"tester_job"}, {"tester_job.yaml"}),
    Step({"from_env"}, {"_ansible.env"}),
    Step({"from_pr"}, {"pull_request.json"}),
    Step({"pr_comments"}, {"pull_request-comments.json"})>>

NotebooksCluster ==
  <<Tolerant("part", Step({"rhods_info"}, {"rhods.version", "rhods.createdAt"})),
    Step({"odh_dashboard_config"}, {"odh-dashboard-config.yaml"}),
    OrEmpty(Step({"nodes_info"}, {"driver/nodes.json", "sutest/nodes.json"})),
    Step({"sutest_ocp_version"}, {"ocp_version.yml"}),
    NotebooksMetrics>>

NotebooksPods ==
  <<Needs("test_config",
          OrEmpty(Step({"testpod_times", "testpod_hostnames"}, {"tester_pods.json"}))),
    OrEmpty(Step({"notebook_pod_times", "notebook_hostnames"}, {"notebook_pods.json"})),
    Joins(OrEmpty(Step({"notebook_pod_times"}, {"notebooks.json"}))),
    Derived("rhods_cluster_info", "nodes_info")>>

\* The benchmark of a notebook is the result of the user -1, without output.
NotebooksOdsCi ==
  <<In("ods-ci", "none", Tolerant("part", OrEmpty(Step({"ods_ci", "ods_ci.output"},
                                                       {"output.xml", "test.exit_code"})))),
    Joins(In("ods-ci", "none", OrEmpty(Step({"ods_ci"}, {"user_measures.json", "progress_ts.yaml"})))),
    Joins(In("notebook-artifacts", "none", OrEmpty(Step({"ods_ci"}, {"benchmark_measures.json"}))))>>

NotebooksResources ==
  <<NotebooksMachines,
    Step({"notebook_perf"}, {"000_rhods_notebook.yaml"}),
    OrEmpty(Step({"all_resource_times"},
                 {"notebook_pods.json", "notebooks.json", "namespaces.json",
                  "statefulsets.json", "routes.json", "services.json", "secrets_safe.json"}))>>

NotebooksOnce ==
  <<Step({"artifacts_version"}, {"artifacts_version"})>>
  \o NotebooksRun \o NotebooksCluster \o NotebooksPods \o NotebooksOdsCi \o NotebooksResources

-----------------------------------------------------------------------------
(* The fields without which build_lts_payloads() raises, or its models     *)
(* (models/lts.py), whose fields are not optional, refuse the payload.     *)

\* The parsers of codeflare assign no start_time and no end_time.
CodeflareLts == {"start_time", "end_time", "sutest_ocp_version", "metrics"}
SkeletonLts == {"start_time", "end_time", "sutest_ocp_version", "metrics"}
PerformanceLts ==
  {"start_time", "end_time", "rhods_info", "sutest_ocp_version", "notebook_benchmark"}
PipelinesLts ==
  {"tester_job", "sutest_ocp_version", "rhods_info", "user_count", "metrics"}

\* A metric that is missing is an empty list.
NotebooksLts ==
  {"start_time", "end_time", "rhods_info", "sutest_ocp_version", "thresholds",
   "rhods_cluster_info", "ods_ci"}

\* A user of the payload, who has an output, has a hostname too.
NotebooksUsers == [given |-> "ods_ci.output", needs |-> "testpod_hostnames"]
=============================================================================
