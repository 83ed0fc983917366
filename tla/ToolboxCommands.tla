-------------------------- MODULE ToolboxCommands --------------------------
(***************************************************************************)
(* The commands of the toolbox (toolbox/*.py): the Ansible role of each    *)
(* one, the calls it refuses and the variables it gives its role.          *)
(* Of the optional parameters, only those are listed that a check or a     *)
(* dictionary of the command reads: locals() passes the others along.      *)
(* A variable is <<prefix, name>>; the prefix is the name of a role.       *)
(***************************************************************************)
EXTENDS Naturals, FiniteSets, Sequences

\* @AnsibleRole, @AnsibleMappedParams and RunAnsibleRole(locals()).
Mapped(group, command, role, required) ==
  [group |-> group, command |-> command, role |-> role,
   required |-> required,
   optional |-> {},
   on |-> {},          \* the optional parameters that are true by default
   odd |-> {},         \* values a check looks for, as parameter=value
   refuses |-> {},     \* <<with, without>>: the calls that end with exit(1)
   mapped |-> TRUE,    \* @AnsibleMappedParams
   passes |-> TRUE,    \* RunAnsibleRole(locals()), and not RunAnsibleRole()
   locals |-> {},      \* locals that are no parameters
   constants |-> {},   \* the names of @AnsibleConstant
   own |-> {},         \* opts: <<parameter, variable>>, "" for no parameter
   skip |-> FALSE,     \* @AnsibleSkipConfigGeneration
   suffixed |-> FALSE] \* sets ARTIFACT_TOOLBOX_NAME_SUFFIX

\* RunAnsibleRole(), whatever the parameters.
Silent(group, command, role) ==
  [Mapped(group, command, role, {}) EXCEPT !.passes = FALSE]

\* RunAnsibleRole(opts), without @AnsibleMappedParams.
Plain(group, command, role, required, own) ==
  [Mapped(group, command, role, required) EXCEPT
     !.mapped = FALSE, !.own = own, !.optional = {o[1] : o \in own} \ {""}]

Always(prefix, names) == {""} \X ({prefix} \X names)

-----------------------------------------------------------------------------
\* cluster: set_scale .. deploy_operator
ClusterScale ==
  {Plain("cluster", "set_scale", "cluster_set_scale", {"instance_type", "scale"},
         Always("", {"machineset_instance_type", "scale", "machineset_taint",
                     "machineset_name", "force_scale"})
         \cup Always("cluster_ensure_machineset", {"base_machineset", "spot"})),
   Mapped("cluster", "upgrade_to_image", "cluster_upgrade_to_image", {"image"}),
   Silent("cluster", "capture_environment", "cluster_capture_environment"),
   [Mapped("cluster", "deploy_operator", "cluster_deploy_operator",
           {"catalog", "manifest_name", "namespace"}) EXCEPT
      !.optional = {"version", "channel", "namespace_monitoring"},
      !.odd = {"namespace=all", "installplan_approval=other"},
      !.refuses = {<<{"namespace=all", "namespace_monitoring"}, {}>>,
                   <<{"version", "channel"}, {}>>,
                   <<{"installplan_approval=other"}, {}>>}]}

\* cluster: deploy_aws_efs .. dump_prometheus_db
ClusterServers ==
  {Silent("cluster", "deploy_aws_efs", "cluster_deploy_aws_efs"),
   Mapped("cluster", "deploy_nfs_provisioner", "cluster_deploy_nfs_provisioner", {}),
   [Mapped("cluster", "deploy_minio_s3_server", "cluster_deploy_minio_s3_server",
           {"secret_properties_file"}) EXCEPT !.constants = {"access_key", "root_user"}],
   Mapped("cluster", "deploy_nginx_server", "cluster_deploy_nginx_server",
          {"namespace", "directory"}),
   Mapped("cluster", "deploy_redis_server", "cluster_deploy_redis_server", {"namespace"}),
   [Mapped("cluster", "reset_prometheus_db", "cluster_prometheus_db", {}) EXCEPT
      !.optional = {"mode", "label", "namespace"},
      !.constants = {"directory", "dump_name_prefix"}],
   [Mapped("cluster", "dump_prometheus_db", "cluster_prometheus_db", {}) EXCEPT
      !.optional = {"label", "namespace", "dump_name_prefix"},
      !.constants = {"mode"}, !.skip = TRUE]}

\* cluster: destroy_ocp .. preload_image
ClusterUsers ==
  {Mapped("cluster", "destroy_ocp", "cluster_destroy_ocp", {}),
   [Mapped("cluster", "create_osd", "cluster_create_osd",
           {"cluster_name", "secret_file", "kubeconfig"}) EXCEPT
      !.constants = {"kubeadmin_name", "kubeadmin_group", "machinepool_name"}],
   Mapped("cluster", "destroy_osd", "cluster_destroy_osd", {"cluster_name"}),
   [Mapped("cluster", "deploy_ldap", "cluster_deploy_ldap",
           {"idp_name", "username_prefix", "username_count", "secret_properties_file"})
      EXCEPT !.constants = {"admin_user"}],
   Mapped("cluster", "undeploy_ldap", "cluster_undeploy_ldap", {"idp_name"}),
   [Mapped("cluster", "preload_image", "cluster_preload_image", {"name", "image"})
      EXCEPT !.locals = {"toolbox_name_suffix"}, !.suffixed = TRUE]}

\* cluster: create_htpasswd_adminuser .. undeploy_kepler
ClusterSettings ==
  {[Mapped("cluster", "create_htpasswd_adminuser", "cluster_create_htpasswd_user",
           {"username", "passwordfile"}) EXCEPT
      !.constants = {"groupname", "role", "htpasswd_idp_name", "secret_name"}],
   [Mapped("cluster", "set_project_annotation", "cluster_set_project_annotation",
           {"key"}) EXCEPT
      !.optional = {"project", "all"},
      !.refuses = {<<{"all", "project"}, {}>>, <<{}, {"all", "project"}>>}],
   Mapped("cluster", "fill_workernodes", "cluster_fill_workernodes", {}),
   Mapped("cluster", "deploy_kepler", "cluster_deploy_kepler", {}),
   Mapped("cluster", "undeploy_kepler", "cluster_undeploy_kepler", {})}

Codeflare ==
  {Mapped("codeflare", c, "codeflare_" \o c, {"namespace"}) :
     c \in {"generate_mcad_load", "cleanup_appwrappers", "capture_state"}}

Entitlement ==
  {Plain("entitlement", "deploy", "entitlement_deploy", {"pem"},
         {<<"", <<"entitlement", "pem">>>>, <<"pem_ca", <<"entitlement", "repo_ca">>>>}),
   Plain("entitlement", "test_in_cluster", "entitlement_test_in_cluster", {"pem_key"},
         Always("entitlement", {"pem"})),
   Plain("entitlement", "test_in_podman", "entitlement_test_in_podman", {"pem_key"},
         Always("entitlement", {"pem"})),
   Plain("entitlement", "test_cluster", "entitlement_test_wait_deployment", {},
         {<<"no_inspect", <<"entitlement", "inspect_on_failure">>>>}),
   Plain("entitlement", "inspect", "entitlement_inspect", {}, {}),
   Plain("entitlement", "undeploy", "entitlement_undeploy", {}, {}),
   Plain("entitlement", "wait", "entitlement_test_wait_deployment", {},
         Always("entitlement", {"test_and_wait"}))}

\* gpu_operator: deploy_cluster_policy .. deploy_from_operatorhub
GpuDeployments ==
  {Plain("gpu_operator", "deploy_cluster_policy", "gpu_operator_deploy_from_operatorhub",
         {}, Always("gpu_operator", {"deploy_from"})),
   [Plain("gpu_operator", "deploy_from_bundle", "gpu_operator_deploy_from_operatorhub",
          {"bundle"}, Always("gpu_operator", {"deploy_from", "target_namespace"})
                      \cup Always("", {"deploy_bundle_image"}))
      EXCEPT !.odd = {"bundle=master"}],
   [Plain("gpu_operator", "deploy_from_operatorhub", "cluster_deploy_operator", {},
          Always("cluster_deploy_operator",
                 {"catalog", "manifest_name", "namespace", "all_namespaces", "deploy_cr",
                  "namespace_monitoring", "installplan_approval"})
          \cup {<<p, <<"cluster_deploy_operator", p>>>> : p \in {"channel", "version"}})
      EXCEPT !.optional = {"channel", "version"},
             !.odd = {"installPlan=other"},
             !.refuses = {<<{"version"}, {"channel"}>>, <<{"installPlan=other"}, {}>>}]}

\* gpu_operator: run_gpu_burn .. enable_time_sharing
GpuTests ==
  {Plain("gpu_operator", c, "gpu_operator_" \o c, {}, {}) :
     c \in {"undeploy_from_operatorhub", "wait_deployment",
            "capture_deployment_state", "get_csv_version"}}
  \cup
  {Mapped("gpu_operator", c, "gpu_operator_" \o c, {}) :
     c \in {"run_gpu_burn", "wait_stack_deployed", "enable_time_sharing"}}

Nfd ==
  {Plain("nfd", "has_gpu_nodes", "nfd_test_wait_gpu", {}, {}),
   Plain("nfd", "has_labels", "nfd_has_labels", {}, {}),
   Plain("nfd", "wait_gpu_nodes", "nfd_test_wait_gpu", {}, Always("nfd", {"wait_gpu_nodes"})),
   Plain("nfd", "wait_labels", "nfd_test_wait_labels", {}, {})}

NfdOperator ==
  {[Mapped("nfdoperator", "deploy_from_operatorhub", "cluster_deploy_operator", {})
      EXCEPT !.optional = {"channel"}, !.skip = TRUE,
             !.constants = {"catalog", "manifest_name", "namespace", "deploy_cr"}],
   [Silent("nfdoperator", "undeploy_from_operatorhub",
           "nfd_operator_undeploy_from_operatorhub") EXCEPT !.skip = TRUE]}

Benchmarking ==
  {Mapped("benchmarking", "download_coco_dataset", "benchmarking_deploy_coco_dataset",
          {"node_hostname"}),
   [Mapped("benchmarking", "run_mlperf_ssd", "benchmarking_run_mlperf_ssd",
           {"node_hostname"}) EXCEPT
      !.odd = {"epochs=no int", "threshold=no float"},
      !.refuses = {<<{"epochs=no int"}, {}>>, <<{"threshold=no float"}, {}>>}]}

Utils ==
  {[Mapped("utils", "build_push_image", "utils_build_push_image",
           {"image_local_name", "tag"}) EXCEPT
      !.optional = {"git_repo", "git_ref", "dockerfile_path", "context_dir",
                    "remote_repo", "remote_auth_file", "from_image", "from_imagetag"},
      !.on = {"dockerfile_path"},
      !.odd = {"memory=no float", "tag=with / or _"},
      !.refuses = {<<{}, {"git_repo", "dockerfile_path"}>>,
                   <<{"remote_repo"}, {"remote_auth_file"}>>,
                   <<{"remote_auth_file"}, {"remote_repo"}>>,
                   <<{"git_repo"}, {"git_ref"}>>, <<{"git_ref"}, {"git_repo"}>>,
                   <<{"context_dir"}, {"git_repo"}>>,
                   <<{"from_image", "from_imagetag"}, {}>>,
                   <<{"memory=no float"}, {}>>, <<{"tag=with / or _"}, {}>>},
      !.locals = {"toolbox_name_suffix"}, !.suffixed = TRUE]}

LocalCi ==
  {[Mapped("local_ci", "run", "local_ci_run", {"ci_command"}) EXCEPT
      !.optional = {"pr_number", "update_git", "export", "export_bucket_name"},
      !.on = {"update_git", "export"},
      !.refuses = {<<{"pr_number"}, {"update_git"}>>,
                   <<{"export"}, {"export_bucket_name"}>>}],
   [Mapped("local_ci", "run_multi", "local_ci_run_multi", {"ci_command"}) EXCEPT
      !.optional = {"retrieve_artifacts", "minio_namespace", "minio_bucket_name"},
      !.refuses = {<<{"retrieve_artifacts"}, {"minio_namespace"}>>,
                   <<{"retrieve_artifacts"}, {"minio_bucket_name"}>>}]}

LoadAware ==
  {[Mapped("load_aware", "deploy_trimaran", "load_aware_deploy_trimaran", {}) EXCEPT
      !.odd = {"plugin=other"}, !.refuses = {<<{"plugin=other"}, {}>>}],
   Mapped("load_aware", "undeploy_trimaran", "load_aware_undeploy_trimaran", {}),
   [Mapped("load_aware", "scale_test", "load_aware_scale_test", {}) EXCEPT
      !.odd = {"distribution=other", "scheduler=other"},
      !.refuses = {<<{"distribution=other"}, {}>>, <<{"scheduler=other"}, {}>>}]}

Pipelines ==
  {Mapped("pipelines", "deploy_application", "pipelines_deploy_application",
          {"name", "namespace", "secret_properties_file"}),
   Mapped("pipelines", "run_kfp_notebook", "pipelines_run_kfp_notebook", {}),
   Mapped("pipelines", "capture_state", "pipelines_capture_state", {})}

\* wisdom: what every command needs is written once.
Tester == {"protos_path", "tester_imagestream_name", "tester_image_tag"}
Wisdom ==
  {Mapped("wisdom", "deploy_model", "wisdom_deploy_model",
          Tester \cup {"replicas", "s3_secret_path", "quay_pull_secret_path"}),
   Mapped("wisdom", "warmup_model", "wisdom_warmup_model", Tester),
   Mapped("wisdom", "run_llm_load_test", "wisdom_llm_load_test",
          Tester \cup {"requests", "concurrency", "replicas", "dataset_path",
                       "s3_secret_path"}),
   Mapped("wisdom", "run_llm_load_test_multiplexed", "wisdom_llm_load_test_multiplexed",
          Tester \cup {"requests", "concurrency", "replicas", "max_duration",
                       "dataset_path", "s3_secret_path"})}

\* rhods: deploy_ods .. notebook_ods_ci_scale_test.  The constant of
\* deploy_addon has a prefix already, and its variable one too little.
RhodsDeployments ==
  {Mapped("rhods", "deploy_ods", "rhods_deploy_ods", {"catalog_image", "tag"}),
   [Silent("rhods", "wait_ods", "rhods_wait_ods") EXCEPT !.constants = {"images"}],
   [Silent("rhods", "wait_odh", "rhods_wait_odh") EXCEPT !.optional = {"namespace"}],
   [Mapped("rhods", "deploy_addon", "ocm_deploy_addon",
           {"cluster_name", "notification_email"}) EXCEPT
      !.locals = {"addon_parameters"},
      !.constants = {"ocm_deploy_addon_id"}, !.skip = TRUE],
   [Mapped("rhods", "notebook_ods_ci_scale_test", "rhods_notebook_ods_ci_scale_test",
           {"namespace", "idp_name", "username_prefix", "user_count",
            "secret_properties_file", "notebook_url", "minio_namespace",
            "minio_bucket_name"}) EXCEPT
      !.odd = {"artifacts_collected=other"},
      !.refuses = {<<{"artifacts_collected=other"}, {}>>}]}

\* rhods: cleanup_notebooks .. benchmark_notebook_performance
RhodsTests ==
  {Mapped("rhods", "cleanup_notebooks", "rhods_cleanup_notebooks", {"username_prefix"}),
   Mapped("rhods", "notebook_locust_scale_test", "rhods_notebook_locust_scale_test",
          {"namespace", "idp_name", "secret_properties_file", "test_name",
           "minio_namespace", "minio_bucket_name", "username_prefix", "user_count",
           "user_index_offset", "locust_istag", "artifacts_exporter_istag"}),
   [Mapped("rhods", "benchmark_notebook_performance",
           "rhods_benchmark_notebook_performance", {})
      EXCEPT !.constants = {"imagestream_source_location"}]}

\* rhods: delete_ods .. capture_state.  The constants of the Prometheus
\* commands have a prefix already; those of the reset are not used.
PrefixedTwice == {"cluster_prometheus_db_mode", "cluster_prometheus_db_label",
                  "cluster_prometheus_db_namespace"}
RhodsCleanup ==
  {[Mapped("rhods", "delete_ods", "rhods_delete_ods", {}) EXCEPT !.optional = {"namespace"}],
   [Mapped("rhods", "undeploy_ods", "rhods_delete_ods", {}) EXCEPT !.optional = {"namespace"}],
   [Silent("rhods", "cleanup_aws", "rhods_cleanup_aws")
      EXCEPT !.optional = {"openshift_installer"}],
   [Plain("rhods", "reset_prometheus_db", "cluster_prometheus_db", {}, {})
      EXCEPT !.constants = PrefixedTwice, !.skip = TRUE],
   [Mapped("rhods", "dump_prometheus_db", "cluster_prometheus_db", {})
      EXCEPT !.optional = {"dump_name_prefix"},
             !.constants = PrefixedTwice \cup {"cluster_prometheus_db_directory"},
             !.skip = TRUE],
   Silent("rhods", "capture_state", "rhods_capture_state")}

\* The commands that run no role.
NoRole == "none"
Repo ==
  {[Plain("repo", c, NoRole, {}, {}) EXCEPT !.odd = {"repo=bad"}] :
     c \in {"validate_role_files", "validate_role_vars_used", "validate_no_wip",
            "generate_ansible_default_settings"}}

\* Toolbox.__init__
Commands ==
  UNION {ClusterScale, ClusterServers, ClusterUsers, ClusterSettings, Entitlement,
         GpuDeployments, GpuTests, NfdOperator, Nfd, Repo, Benchmarking, Utils,
         RhodsDeployments, RhodsTests, RhodsCleanup, Pipelines, LocalCi, Wisdom,
         LoadAware, Codeflare}
=============================================================================
