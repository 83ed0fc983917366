--------------------------- MODULE NotebooksPrepare ---------------------------
(***************************************************************************)
(* The preparation of the clusters of the notebooks test, in parallel:     *)
(*   testing/notebooks/test.sh, prepare_common.sh    (prepare_ci, prepare) *)
(*   testing/notebooks/prepare_sutest.sh, prepare_driver.sh                *)
(*   testing/utils/process_ctrl.sh                   (background processes) *)
(* `main` starts two background shells, and these start jobs in their own  *)
(* background.  Each shell is a copy of its parent, wait-list included.  A *)
(* job is another shell (a function: retry, the build of an image) or a    *)
(* command.  A shell that fails runs the ERR trap it has inherited: kill   *)
(* its wait-list, clean both clusters up, exit 1.  SIGKILL ends a shell,   *)
(* not the command it runs.                                                *)
(***************************************************************************)
EXTENDS Naturals, Sequences, FiniteSets

CONSTANTS
  Images,      \* the images built in the background of the driver's shell, in order
  Services,    \* the services deployed there, in order
  Configs,     \* the configurations: the options that are set in each
  MaxFailures  \* a bound on the number of commands that fail

Items(s) == {s[i] : i \in DOMAIN s}

AllOptions == {"managed", "installed", "metal", "single", "admins", "nfs",
               "preload", "skip_cleanup", "uninstall_rhods", "uninstall_ldap",
               "delete_namespaces"}
Shells == {"sutest", "driver"}

ASSUME PrepareAssumption ==
  /\ Images \in Seq(STRING)
  /\ Services \in Seq(STRING)
  /\ Items(Images) \cap Items(Services) = {}
  /\ (Items(Images) \cup Items(Services))
       \cap ({"main", "rhods", "ldap"} \cup Shells) = {}
  /\ Configs \subseteq SUBSET AllOptions
  /\ MaxFailures \in Nat

VARIABLES
  state,      \* state of each process
  code,       \* "prepare", or "trap" once it runs the ERR trap
  at,         \* its position in that code
  child,      \* the state of the command it runs, or was running when killed
  list,       \* its process_ctrl__wait_list
  deployed,   \* what there is on the clusters
  succeeded,  \* what has been deployed by a command that reported a success
  uncleaned,  \* what a clean-up command of main failed to remove
  abandoned,  \* the processes that main's trap leaves behind
  failures,   \* the number of commands that failed
  config      \* the options that are set

control == <<state, code, at, child, list>>
history == <<succeeded, uncleaned, abandoned, failures>>
vars == <<control, deployed, history, config>>

If(b, s) == IF b THEN s ELSE <<>>

Run(r) == [op |-> "run", arg |-> {r}]       \* run a command, that deploys r
Spawn(p) == [op |-> "spawn", arg |-> {p}]   \* run_in_bg
Wait == [op |-> "wait", arg |-> {}]         \* wait_bg_processes
Undo(rs) == [op |-> "run", arg |-> rs]      \* run a command, that removes rs

Jobs == {"rhods", "ldap"} \cup Items(Images) \cup Items(Services)
Procs == {"main"} \cup Shells \cup Jobs

\* The jobs that run a shell function are shells too, with the ERR trap.
HasTrap(p) == p \in {"main"} \cup Shells \cup Items(Images)
                    \cup (IF "managed" \in config THEN {} ELSE {"rhods"})

DeployRhods(c) ==
  If("managed" \in c \/ "installed" \notin c,
     <<Spawn("rhods")>>
     \o If(c \cap {"managed", "admins"} = {}, <<Run("dedicated_admins")>>))

\* prepare_ci; prepare.
MainProgram ==
  <<Run("notebook_namespace"), Spawn("sutest"), Spawn("driver"), Wait,
    Run("rhods_ready"), Wait>>

\* prepare_sutest_cluster.
SutestProgram(c) ==
  DeployRhods(c) \o <<Spawn("ldap")>>
  \o If("metal" \notin c, <<Run("sutest_machines")>>)
  \o <<Run("admin_users")>> \o If("nfs" \in c, <<Run("nfs")>>)

\* prepare_driver_cluster.
DriverProgram(c) ==
  If(~({"metal", "single"} \subseteq c), <<Run("driver_machines")>>)
  \o <<Run("driver_namespace")>>
  \o [i \in DOMAIN Images |-> Spawn(Images[i])]
  \o [i \in DOMAIN Services |-> Spawn(Services[i])]

\* driver_build_and_preload_image, or a command.
JobProgram(c, j) ==
  <<Run(j)>> \o If(j \in Items(Images) /\ "preload" \in c, <<Run("preloaded")>>)

\* What each process runs in each configuration, until its first failure.
Programs == [c \in Configs |-> [p \in Procs |->
  CASE p = "main" -> MainProgram
    [] p = "sutest" -> SutestProgram(c)
    [] p = "driver" -> DriverProgram(c)
    [] OTHER -> JobProgram(c, p)]]

\* sutest_cleanup; driver_cleanup.  The failure of a command is ignored.
Cleanups == [c \in Configs |-> If("skip_cleanup" \notin c,
  If("metal" \notin c, <<Undo({"sutest_machines"})>>)
  \o If("uninstall_rhods" \in c, <<Undo({"rhods"})>>)
  \o If("delete_namespaces" \in c, <<Undo({"notebook_namespace"})>>)
  \o If("uninstall_ldap" \in c, <<Undo({"ldap"})>>)
  \o If("metal" \notin c, <<Undo({"driver_machines"})>>)
  \o If("delete_namespaces" \in c,
        <<Undo({"driver_namespace"} \cup Items(Images) \cup Items(Services))>>))]

Program(p) == Programs[config][p]
Cleanup == Cleanups[config]
Steps(p) == IF code[p] = "trap" THEN Cleanup ELSE Program(p)
Current(p) == Steps(p)[at[p]]
IsAt(p, op) == at[p] \in DOMAIN Steps(p) /\ Current(p).op = op

\* A process that comes to a command starts it.
ChildAt(steps, i) ==
  IF i \in DOMAIN steps /\ steps[i].op = "run" THEN "running" ELSE "none"
Active(p) == child[p] \in {"running", "landed"}

Init ==
  /\ config \in Configs
  /\ state = [p \in Procs |-> IF p = "main" THEN "running" ELSE "idle"]
  /\ code = [p \in Procs |-> "prepare"]
  /\ at = [p \in Procs |-> 1]
  /\ child = [p \in Procs |-> IF p = "main" THEN "running" ELSE "none"]
  /\ list = [p \in Procs |-> {}]
  /\ deployed = IF "installed" \in config THEN {"rhods"} ELSE {}
  /\ succeeded = {} /\ uncleaned = {} /\ abandoned = {} /\ failures = 0
-----------------------------------------------------------------------------
(* The commands.  What they do to the clusters comes before their verdict. *)

\* `rhods wait_ods` waits for RHODS, a bounded number of times.
Blocked(p) ==
  code[p] = "prepare" /\ Current(p).arg = {"rhods_ready"} /\ "rhods" \notin deployed

\* The command of p has its effect.
Land(p) ==
  /\ child[p] = "running"
  /\ ~Blocked(p)
  /\ child' = [child EXCEPT ![p] = "landed"]
  /\ deployed' = IF code[p] = "trap" THEN deployed \ Current(p).arg
                                     ELSE deployed \cup Current(p).arg
  /\ UNCHANGED <<state, code, at, list, history, config>>

\* Mutant: the shell skips a step.
\* The step of p after the current one; nothing when p has been killed.
GoOn(p) ==
  IF state[p] = "running"
    THEN /\ at' = [at EXCEPT ![p] = @ + 1]
         /\ child' = [child EXCEPT ![p] = ChildAt(Steps(p), at[p] + 1)]
    ELSE at' = at /\ child' = [child EXCEPT ![p] = "none"]

CommandSucceeds(p) ==
  /\ child[p] = "landed"
  /\ GoOn(p)
  /\ succeeded' = IF code[p] = "trap" THEN succeeded ELSE succeeded \cup Current(p).arg
  /\ UNCHANGED <<state, code, list, deployed, uncleaned, abandoned, failures, config>>

\* It fails, whether or not it has had its effect.
CommandFails(p) ==
  /\ Active(p)
  /\ code[p] = "prepare"
  /\ failures < MaxFailures
  /\ failures' = failures + 1
  /\ child' = [child EXCEPT ![p] = "failed"]
  /\ UNCHANGED <<state, code, at, list, deployed, succeeded, uncleaned, abandoned, config>>

TimesOut(p) ==
  /\ child[p] = "running"
  /\ Blocked(p)
  /\ child' = [child EXCEPT ![p] = "failed"]
  /\ UNCHANGED <<state, code, at, list, deployed, history, config>>

\* Mutant: errexit in the trap too.
CleanupStops(p) ==
  /\ Active(p)
  /\ code[p] = "trap"
  /\ failures < MaxFailures
  /\ failures' = failures + 1
  /\ at' = [at EXCEPT ![p] = Len(Cleanup) + 1]
  /\ child' = [child EXCEPT ![p] = "none"]
  /\ uncleaned' = IF p = "main" THEN uncleaned \cup Current(p).arg ELSE uncleaned
  /\ UNCHANGED <<state, code, list, deployed, succeeded, abandoned, config>>

\* `set +e`: the trap goes on.
CleanupFails(p) ==
  /\ Active(p)
  /\ code[p] = "trap"
  /\ failures < MaxFailures
  /\ failures' = failures + 1
  /\ GoOn(p)
  /\ uncleaned' = IF p = "main" THEN uncleaned \cup Current(p).arg ELSE uncleaned
  /\ UNCHANGED <<state, code, list, deployed, succeeded, abandoned, config>>
-----------------------------------------------------------------------------
(* The processes. *)

\* process_ctrl::run_in_bg: the fork, then the pid in the wait-list.
RunInBg(p) ==
  /\ state[p] = "running"
  /\ IsAt(p, "spawn")
  /\ \E q \in Current(p).arg :
       /\ state' = [state EXCEPT ![q] = "running"]
       /\ list' = [list EXCEPT ![q] = list[p], ![p] = @ \cup {q}]
       /\ code' = [code EXCEPT ![q] = "prepare"]
       /\ at' = [at EXCEPT ![q] = 1, ![p] = @ + 1]
       /\ child' = [child EXCEPT ![q] = ChildAt(Program(q), 1),
                                 ![p] = ChildAt(Steps(p), at[p] + 1)]
  /\ UNCHANGED <<deployed, history, config>>

\* process_ctrl::kill_bg_processes: what is left of the states.
Killed(ps) == [q \in Procs |-> IF q \in ps /\ state[q] = "running"
                                 THEN "killed" ELSE state[q]]

\* The processes that go on after p's kill: jobs, and commands of shells.
LeftBehind(p) == {q \in Procs \ {p} : \/ Active(q)
                                      \/ q \in Jobs /\ Killed(list[p])[q] = "running"}

\* The ERR trap: set +e; kill_bg_processes; sutest_cleanup; ...
EnterTrap(p) ==
  /\ code' = [code EXCEPT ![p] = "trap"]
  /\ state' = Killed(list[p])
  /\ list' = [list EXCEPT ![p] = {}]
  /\ at' = [at EXCEPT ![p] = 1]
  /\ child' = [child EXCEPT ![p] = ChildAt(Cleanup, 1)]
  /\ abandoned' = IF p = "main" THEN LeftBehind(p) ELSE abandoned
  /\ UNCHANGED <<deployed, succeeded, uncleaned, failures, config>>

\* Mutant: the return code is ignored.
WaitNextAny(p) ==
  /\ state[p] = "running"
  /\ IsAt(p, "wait")
  /\ \E q \in list[p] :
       /\ state[q] \in {"ok", "failed", "killed"}
       /\ list' = [list EXCEPT ![p] = @ \ {q}]
  /\ UNCHANGED <<state, code, at, child, deployed, history, config>>

\* Mutant: the process stays in the wait-list.
WaitNextKeeps(p) ==
  /\ state[p] = "running"
  /\ IsAt(p, "wait")
  /\ \E q \in list[p] : state[q] = "ok" /\ list' = list
  /\ UNCHANGED <<state, code, at, child, deployed, history, config>>

\* One of the processes that main waits for has ended well.
WaitNext(p) ==
  /\ state[p] = "running"
  /\ IsAt(p, "wait")
  /\ \E q \in list[p] :
       /\ state[q] = "ok"
       /\ list' = [list EXCEPT ![p] = @ \ {q}]
  /\ UNCHANGED <<state, code, at, child, deployed, history, config>>

\* Or not.
WaitFails(p) ==
  /\ state[p] = "running"
  /\ IsAt(p, "wait")
  /\ \E q \in list[p] : state[q] \in {"failed", "killed"}
  /\ EnterTrap(p)

WaitEnds(p) ==
  /\ state[p] = "running"
  /\ IsAt(p, "wait")
  /\ list[p] = {}
  /\ GoOn(p)
  /\ UNCHANGED <<state, code, list, deployed, history, config>>

StepFails(p) ==
  /\ state[p] = "running"
  /\ code[p] = "prepare"
  /\ child[p] = "failed"
  /\ HasTrap(p)
  /\ EnterTrap(p)

\* A job that is a command has no trap.
JobFails(p) ==
  /\ state[p] = "running"
  /\ child[p] = "failed"
  /\ ~HasTrap(p)
  /\ state' = [state EXCEPT ![p] = "failed"]
  /\ child' = [child EXCEPT ![p] = "none"]
  /\ UNCHANGED <<code, at, list, deployed, history, config>>

\* The end of the program, or of the trap: exit 1.
Exit(p) ==
  /\ state[p] = "running"
  /\ at[p] \notin DOMAIN Steps(p)
  /\ state' = [state EXCEPT ![p] = IF code[p] = "trap" THEN "failed" ELSE "ok"]
  /\ UNCHANGED <<code, at, child, list, deployed, history, config>>

Command(p) == Land(p) \/ CommandSucceeds(p) \/ CommandFails(p)
              \/ TimesOut(p) \/ CleanupFails(p)
Process(p) == \/ RunInBg(p) \/ WaitNext(p) \/ WaitFails(p)
              \/ WaitEnds(p) \/ StepFails(p) \/ JobFails(p) \/ Exit(p)

Next == \E p \in Procs : Command(p) \/ Process(p)

Spec == Init /\ [][Next]_vars
\* Bash goes on, and a command ends: the waits of the toolbox have bounded
\* retries.
FairSpec == /\ Spec
            /\ \A p \in Procs : WF_vars(Process(p)) /\ WF_vars(Command(p))
-----------------------------------------------------------------------------
(* Properties. *)

TypeOK ==
  /\ config \in Configs
  /\ state \in [Procs -> {"idle", "running", "ok", "failed", "killed"}]
  /\ code \in [Procs -> {"prepare", "trap"}]
  /\ at \in [Procs -> Nat \ {0}]
  /\ \A p \in Procs : at[p] <= Len(Steps(p)) + 1
  /\ child \in [Procs -> {"none", "running", "landed", "failed"}]
  /\ list \in [Procs -> SUBSET Procs]
  /\ abandoned \subseteq Procs
  /\ failures \in 0..MaxFailures

\* What the commands of a process deploy.
Deploys(p) == UNION {Program(p)[i].arg : i \in {j \in DOMAIN Program(p) :
                                                  Program(p)[j].op = "run"}}
Undoable == UNION {Cleanup[i].arg : i \in DOMAIN Cleanup}

\* The preparation succeeds only if each of the two shells has, and if all that
\* main and the shells deploy themselves has been (wait_bg_processes, the ERR
\* trap): a failure in one shell is not hidden by the other.
FailureIsSeen ==
  state["main"] = "ok" => \A p \in {"main"} \cup Shells :
                            state[p] = "ok" /\ Deploys(p) \subseteq succeeded

\* Once main cleans up, neither shell is there to start another deployment.
NoShellIsLeft ==
  code["main"] = "trap" => \A p \in Shells : state[p] # "running"

\* When the preparation has failed, what is left on the clusters among what the
\* clean-up removes comes from a process abandoned by kill_bg_processes, or from
\* a clean-up command that failed; the failures do not stop the clean-up, and no
\* other process deploys behind it.
CleanUnlessAbandoned ==
  state["main"] = "failed" =>
    \A r \in deployed \cap Undoable :
      r \in uncleaned \/ \E p \in abandoned : r \in Deploys(p)

\* Main, the shells and their jobs all end.
EverythingEnds == <>(\A p \in Procs : state[p] # "running" /\ ~Active(p))

\* "All the processes are done!", says wait_bg_processes before main succeeds.
AllDone == state["main"] = "ok" => \A p \in Procs : state[p] # "running"
=============================================================================
