---------------------------- MODULE LocustSession ----------------------------
(***************************************************************************)
(* The web session of a simulated user of the Locust scale test:           *)
(*   roles/rhods/rhods_notebook_locust_scale_test/files/locust-files/      *)
(*   locustfile.py (launch_a_workbench, on_stop), dashboard.py, oauth.py,  *)
(*   project.py, workbench.py, jupyterlab.py, common.py (Step)             *)
(* A request is sent and answered in one step: it may have its effect and  *)
(* no usable answer.  wb and routeUp are the cluster; the other variables  *)
(* belong to the session.  LocustTest runs the sessions.                   *)
(* locustfile.py uses env.start_event, which nothing in the repository     *)
(* sets: it is taken to be set, or no session would ever start.            *)
(***************************************************************************)
EXTENDS Integers, FiniteSets

CONSTANTS
  MaxUsers,  \* the indexes of the users are below it
  MaxRetries, \* MAX_RETRIES of jupyterlab.py
  Found       \* the workbenches an earlier test may have left

ASSUME SessionAssumption ==
  /\ MaxUsers \in Nat \ {0}
  /\ MaxRetries \in Nat \ {0}
  /\ Found \subseteq {"absent", "running", "stopped"}

Users == 0 .. MaxUsers - 1

VARIABLES
  wb,      \* the workbench of the user on the cluster
  routeUp, \* its Route exists
  pc,      \* where the session is
  obj,     \* self.workbench_obj: its copy of the workbench, if any
  route,   \* the route of wait(): None, False ("absent") or the host
  ready,   \* the local of wait()
  tries,   \* try_count of a JupyterLab page
  failed,  \* the local of login_to_jupyterlab_page
  killed,  \* where the session was when a GreenletExit was raised in it
  refused, \* how many of the requests of stop() got no usable answer
  csv      \* the entries of the progress file that matter: an entry with an
           \* exception, and those of the last two steps without exception

cluster == <<wb, routeUp>>
locals == <<route, ready, tries, failed>>
sessionVars == <<cluster, pc, obj, locals, killed, refused, csv>>

InTheTask == {"connect", "project", "create", "start", "wait", "login",
              "access", "finally", "again"}

SessionTypeOK ==
  /\ wb \in [Users -> {"absent", "running", "stopped"}]
  /\ routeUp \in [Users -> BOOLEAN]
  /\ pc \in [Users -> InTheTask \cup {"none", "on_stop", "done", "lost"}]
  /\ obj \in [Users -> {"none", "running", "stopped"}]
  /\ route \in [Users -> {"none", "absent", "host"}]
  /\ ready \in [Users -> BOOLEAN]
  /\ tries \in [Users -> 1 .. MaxRetries]
  /\ failed \in [Users -> BOOLEAN]
  /\ killed \in [Users -> InTheTask \cup {"no"}]
  /\ refused \in [Users -> 0 .. 2]
  /\ csv \in [Users -> SUBSET {"error", "login", "access"}]

SessionInit ==
  /\ wb \in [Users -> Found]
  /\ routeUp = [u \in Users |-> wb[u] # "absent"]
  /\ pc = [u \in Users |-> "none"]
  /\ obj = [u \in Users |-> "none"]
  /\ route = [u \in Users |-> "none"]
  /\ ready = [u \in Users |-> FALSE]
  /\ tries = [u \in Users |-> 1]
  /\ failed = [u \in Users |-> FALSE]
  /\ killed = [u \in Users |-> "no"]
  /\ refused = [u \in Users |-> 0]
  /\ csv = [u \in Users |-> {}]

-----------------------------------------------------------------------------
(* The recording of the steps (common.py). *)

\* Mutant: a step that fails writes no entry.
RecordOnlySuccess(u, exception) ==
  csv' = [csv EXCEPT ![u] =
            IF exception # "ScaleTestError" /\ pc[u] \in {"login", "access"}
            THEN @ \cup {pc[u]} ELSE @]

\* str(value) is the exception of an entry: it is empty for a GreenletExit.
Record(u, exception) ==
  csv' = [csv EXCEPT ![u] =
            @ \cup IF exception = "ScaleTestError" THEN {"error"}
                   ELSE {pc[u]} \cap {"login", "access"}]

\* The locals of a step go away with it; the route is used until the last one.
Leave(u, where) ==
  /\ pc' = [pc EXCEPT ![u] = where]
  /\ ready' = [ready EXCEPT ![u] = FALSE]
  /\ tries' = [tries EXCEPT ![u] = 1]
  /\ failed' = [failed EXCEPT ![u] = FALSE]
  /\ route' = IF where \in {"login", "access"} THEN route
                                               ELSE [route EXCEPT ![u] = "none"]

Passes(u, next) == Record(u, "None") /\ Leave(u, next)

\* An error of the first steps leaves the task, which Locust runs again; one
\* of the last steps goes through the finally clause, which has nothing to
\* stop as long as create_and_start_the_workbench has not returned.
Fails(u) ==
  /\ Record(u, "ScaleTestError")
  /\ Leave(u, IF obj[u] # "none" THEN "finally" ELSE "again")

-----------------------------------------------------------------------------
(* The requests. *)

\* What a request does to the workbench.
Effect(where, state) ==
  IF where = "start" \/ (where = "create" /\ state # "running")
  THEN "running"
  ELSE "stopped" \* a workbench that runs is stopped first

\* A request that may have had its effect.
MaybeEffect(u) ==
  \E state \in {wb[u], Effect(pc[u], wb[u])} : wb' = [wb EXCEPT ![u] = state]

\* The pages of do_login.  Only the first and the last one may not be there.
LoginPages == {"openshift", "idp", "account", "authorize"}
LoginReplies ==
  {r \in [LoginPages -> {"none", "accepted", "refused"}] :
     r["idp"] # "none" /\ r["account"] # "none"}
DoLogin == {\A p \in LoginPages : r[p] # "refused" : r \in LoginReplies}

-----------------------------------------------------------------------------
(* The steps of the task. *)

\* initialize: a page that is neither the dashboard nor a 403 makes it return
\* False, which launch_a_workbench ignores.
ConnectToTheDashboard(u) ==
  /\ pc[u] = "connect"
  /\ \/ Passes(u, "project")
     \/ \E loggedIn \in DoLogin :
          IF loggedIn THEN Passes(u, "project") ELSE Fails(u)
  /\ UNCHANGED <<cluster, obj, killed, refused>>

\* get_or_create_the_project, and the list of the workbenches.
ProjectReplies ==
  [phase : {"absent", "active", "terminating"}, created : BOOLEAN,
   tagged : BOOLEAN, listed : BOOLEAN]
ProjectIsThere(r) ==
  r.phase = "active" \/ (r.phase = "absent" /\ r.created /\ r.tagged)
GoToTheProjectPage(u) ==
  /\ pc[u] = "project"
  /\ \E r \in ProjectReplies :
       /\ wb[u] # "absent" => r.phase # "absent"
       /\ IF ProjectIsThere(r) /\ r.listed
          THEN Passes(u, "create")
          ELSE Fails(u)
  /\ UNCHANGED <<cluster, obj, killed, refused>>

\* create() when there is none, start(), or stop() then start() when it runs.
CreateOrStart(u) ==
  /\ pc[u] \in {"create", "start"}
  /\ \/ /\ wb' = [wb EXCEPT ![u] = Effect(pc[u], wb[u])]
        /\ Leave(u, IF wb'[u] = "stopped" THEN "start" ELSE "wait")
        /\ UNCHANGED csv
     \/ MaybeEffect(u) /\ Fails(u)
  /\ UNCHANGED <<routeUp, obj, killed, refused>>

\* create_and_start_the_workbench returns: only now is the object assigned.
Returns(u) ==
  /\ pc' = [pc EXCEPT ![u] = "login"]
  /\ obj' = [obj EXCEPT ![u] = "running"]

\* One iteration of wait(): get_route answers False on a 404, and is not
\* called again unless the route is None; is_ready is called until it is True.
Poll(u) ==
  LET seen == IF route[u] # "none" THEN route[u]
              ELSE IF routeUp[u] THEN "host" ELSE "absent" IN
  \E up \in {TRUE, ready[u]} :
    /\ pc[u] = "wait"
    /\ route' = [route EXCEPT ![u] = seen]
    /\ IF up /\ seen = "host"
       THEN Returns(u) /\ ready' = [ready EXCEPT ![u] = FALSE]
       ELSE UNCHANGED <<pc, obj>> /\ ready' = [ready EXCEPT ![u] = up]
    /\ UNCHANGED <<cluster, tries, failed, killed, refused, csv>>

\* LAUNCH_TIMEOUT: the exception is put in a dictionary the event has copied.
WaitTimesOut(u) ==
  /\ pc[u] = "wait"
  /\ route[u] # "none" \* it has polled once
  /\ Returns(u)
  /\ ready' = [ready EXCEPT ![u] = FALSE]
  /\ UNCHANGED <<cluster, route, tries, failed, killed, refused, csv>>

\* check_status, or the undefined name in a warning of get_route.
PollFails(u) ==
  /\ pc[u] = "wait"
  /\ Fails(u)
  /\ UNCHANGED <<cluster, obj, killed, refused>>

\* What a page of JupyterLab shows; a host named False does not answer.
Shown(u, pages) == IF route[u] = "host" THEN pages ELSE {"empty"}

\* Mutant: the tries are not counted.
LoginToJupyterlabForever(u) ==
  /\ pc[u] = "login"
  /\ \E shown \in Shown(u, {"login", "lab", "lab error", "503", "empty", "other"}) :
       IF failed[u] \/ shown \in {"503", "empty", "other"}
       THEN failed' = [failed EXCEPT ![u] = TRUE] /\ UNCHANGED <<pc, route, ready, tries, csv>>
       ELSE Passes(u, "access")
  /\ UNCHANGED <<cluster, obj, killed, refused>>

\* `failed` keeps the failure of an earlier try.
LoginToJupyterlab(u) ==
  /\ pc[u] = "login"
  /\ \E shown \in Shown(u, {"login", "lab", "lab error", "503", "empty", "other"}),
        loggedIn \in DoLogin :
       LET fault == failed[u] \/ shown \in {"503", "empty", "other"} IN
       CASE fault /\ tries[u] < MaxRetries ->
              /\ failed' = [failed EXCEPT ![u] = TRUE]
              /\ tries' = [tries EXCEPT ![u] = @ + 1]
              /\ UNCHANGED <<pc, route, ready, csv>>
         [] fault /\ tries[u] = MaxRetries -> Fails(u)
         [] ~fault /\ shown = "login" /\ ~loggedIn -> Fails(u)
         [] ~fault /\ shown = "lab error" -> Passes(u, "finally")
         [] OTHER -> Passes(u, "access")
  /\ UNCHANGED <<cluster, obj, killed, refused>>

\* Only an empty answer is tried again.
GetJupyterlabPage(u) ==
  /\ pc[u] = "access"
  /\ \/ /\ tries[u] < MaxRetries
        /\ tries' = [tries EXCEPT ![u] = @ + 1]
        /\ UNCHANGED <<pc, route, ready, failed, csv>>
     \/ Passes(u, "finally")
     \/ Fails(u)
  /\ UNCHANGED <<cluster, obj, killed, refused>>

-----------------------------------------------------------------------------
(* The end of the session. *)

\* stop(): nothing to do when there is no object, or when it is stopped.
Stop(u) ==
  IF obj[u] # "running" THEN UNCHANGED <<wb, obj, refused>>
  ELSE \/ /\ wb' = [wb EXCEPT ![u] = "stopped"]
          /\ obj' = [obj EXCEPT ![u] = "stopped"]
          /\ UNCHANGED refused
       \/ /\ MaybeEffect(u)
          /\ refused' = [refused EXCEPT ![u] = @ + 1]
          /\ UNCHANGED obj

\* An error of stop() leaves the task too.
Finally(u) ==
  /\ pc[u] = "finally"
  /\ Stop(u)
  /\ Leave(u, IF killed[u] = "no" THEN "again" ELSE "on_stop")
  /\ UNCHANGED <<routeUp, killed, csv>>

\* Mutant: on_stop does not stop the workbench.
OnStopNothing(u) ==
  /\ pc[u] = "on_stop"
  /\ Leave(u, "done")
  /\ UNCHANGED <<wb, obj, refused, routeUp, killed, csv>>

OnStop(u) ==
  /\ pc[u] = "on_stop"
  /\ Stop(u)
  /\ Leave(u, "done")
  /\ UNCHANGED <<routeUp, killed, csv>>

\* Locust stops the user: a GreenletExit is raised in the request in progress.
KillSession(u) ==
  /\ pc[u] \in InTheTask
  /\ killed[u] = "no"
  /\ killed' = [killed EXCEPT ![u] = pc[u]]
  /\ Record(u, "")
  /\ Leave(u, IF pc[u] \in {"login", "access"} THEN "finally" ELSE "on_stop")
  /\ IF pc[u] = "finally" /\ obj[u] = "running"
     THEN MaybeEffect(u) /\ refused' = [refused EXCEPT ![u] = @ + 1]
     ELSE /\ IF pc[u] \in {"create", "start"} THEN MaybeEffect(u)
                                             ELSE UNCHANGED wb
          /\ UNCHANGED refused
  /\ UNCHANGED <<routeUp, obj>>

\* The controller creates the Route, sooner or later (while somebody looks).
RouteAppears(u) ==
  /\ pc[u] = "wait"
  /\ ~routeUp[u]
  /\ routeUp' = [routeUp EXCEPT ![u] = TRUE]
  /\ UNCHANGED <<wb, pc, obj, locals, killed, refused, csv>>

SessionStep(u) ==
  \/ ConnectToTheDashboard(u) \/ GoToTheProjectPage(u) \/ CreateOrStart(u)
  \/ Poll(u) \/ WaitTimesOut(u) \/ PollFails(u)
  \/ LoginToJupyterlab(u) \/ GetJupyterlabPage(u)
  \/ Finally(u) \/ OnStop(u)
-----------------------------------------------------------------------------
(* Properties. *)

\* A session that ends by itself without having logged in to JupyterLab has
\* an error in the progress file: "it has already been recorded", says
\* launch_a_workbench of the error it drops.
FailureIsRecorded ==
  \A u \in Users :
    /\ pc[u] \in {"finally", "again", "on_stop", "done"}
    /\ killed[u] \in {"no", "finally", "again"}
    => "error" \in csv[u] \/ "login" \in csv[u]

\* A session leaves its workbench running only when it has not got it from
\* create_and_start_the_workbench, or when stop() has failed twice: in the
\* finally clause of the task and in on_stop.
LeftRunning ==
  \A u \in Users :
    pc[u] = "done" /\ wb[u] = "running" => obj[u] = "none" \/ refused[u] = 2
=============================================================================
