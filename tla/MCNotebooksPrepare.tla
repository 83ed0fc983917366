------------------------- MODULE MCNotebooksPrepare -------------------------
EXTENDS NotebooksPrepare
MCImages == <<"ods-ci">>
MCServices == <<>>
\* One bare-metal cluster: RHODS is deployed and removed, or it is there already
\* and the namespaces and LDAP are removed; or nothing is removed.
OneMetalCluster == {"metal", "single"}
MCConfigs == {OneMetalCluster \cup {"admins", "uninstall_rhods"},
              OneMetalCluster \cup {"installed", "delete_namespaces", "uninstall_ldap"},
              OneMetalCluster \cup {"installed", "preload", "skip_cleanup"}}
=============================================================================
