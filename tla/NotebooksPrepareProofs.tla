------------------------ MODULE NotebooksPrepareProofs ------------------------
(***************************************************************************)
(* What the two tests of the notebooks with many users rest on.  First,    *)
(* what their preparation guarantees, for any images, services, set of     *)
(* configurations and number of failures; then what the Locust scale test  *)
(* guarantees, for any number of users, of workers and of retries.         *)
(***************************************************************************)
EXTENDS NotebooksPrepare, LocustTest, WellFoundedInduction, TLAPS

\* A command is run at a step that runs one.
ChildInv == \A p \in Procs : child[p] # "none" => IsAt(p, "run")

\* What a process has gone past has been done.
DoneInv ==
  \A p \in Procs :
    /\ code[p] = "prepare" =>
         \A i \in DOMAIN Program(p) :
           i < at[p] /\ Program(p)[i].op = "run" => Program(p)[i].arg \subseteq succeeded
    /\ state[p] = "ok" => code[p] = "prepare" /\ at[p] \notin DOMAIN Program(p)

\* Main waits for the two shells, and nobody kills it.
MainInv ==
  /\ \A p \in Procs : "main" \notin list[p]
  /\ state["main"] \in {"running", "ok", "failed"}
  /\ state["main"] = "failed" => code["main"] = "trap" /\ at["main"] \notin DOMAIN Cleanup
  /\ code["main"] = "prepare" =>
       /\ at["main"] <= 2 => state["sutest"] = "idle"
       /\ at["main"] <= 3 => state["driver"] = "idle"
       /\ at["main"] > 2 => "sutest" \in list["main"] \/ state["sutest"] = "ok"
       /\ at["main"] > 3 => "driver" \in list["main"] \/ state["driver"] = "ok"
       /\ at["main"] > 4 => list["main"] = {}

\* What is left when main cleans up.
TrapInv ==
  code["main"] = "trap" =>
    /\ NoShellIsLeft
    /\ \A p \in Procs \ {"main"} :
         Active(p) \/ (p \in Jobs /\ state[p] = "running") => p \in abandoned
    /\ \A i \in DOMAIN Cleanup :
         i < at["main"] \/ (i = at["main"] /\ child["main"] = "landed") =>
           \A r \in Cleanup[i].arg \cap deployed :
             r \in uncleaned \/ \E p \in abandoned : r \in Deploys(p)

IInv == TypeOK /\ ChildInv /\ DoneInv /\ MainInv /\ TrapInv
-----------------------------------------------------------------------------
(* The programs, of which the other proofs only use these facts. *)

Things == Procs \cup {"notebook_namespace", "rhods_ready", "dedicated_admins",
                      "sutest_machines", "admin_users", "nfs", "driver_machines",
                      "driver_namespace", "preloaded"}
RunSteps == [op : {"run"}, arg : SUBSET Things]
SpawnSteps == {Spawn(q) : q \in Jobs}

LEMMA JobNames ==
  /\ "main" \notin Jobs /\ "sutest" \notin Jobs /\ "driver" \notin Jobs
  /\ "rhods" \in Jobs /\ "ldap" \in Jobs
  /\ Items(Images) \subseteq Jobs /\ Items(Services) \subseteq Jobs
<1>1. \A x \in {"main", "sutest", "driver"} : x \notin Items(Images) \cup Items(Services)
  BY PrepareAssumption, Zenon DEF Shells
<1>2. QED BY <1>1 DEF Jobs

LEMMA Names ==
  /\ {"main", "sutest", "driver", "rhods", "ldap"} \subseteq Procs
  /\ Shells \cap Jobs = {} /\ "main" \notin Shells
  /\ Procs \subseteq Things
BY JobNames DEF Procs, Shells, Things

LEMMA StepsAreSteps ==
  /\ \A r \in Things : Run(r) \in RunSteps
  /\ \A rs \in SUBSET Things : Undo(rs) \in RunSteps
  /\ \A q \in Jobs : Spawn(q) \in SpawnSteps
<1>1. \A r \in Things : {r} \in SUBSET Things
  OBVIOUS
<1>2. QED BY <1>1 DEF RunSteps, SpawnSteps, Run, Undo, Spawn

LEMMA OneStep == ASSUME NEW S, NEW x \in S PROVE <<x>> \in Seq(S) /\ <<>> \in Seq(S)
OBVIOUS

LEMMA Concat == ASSUME NEW S, NEW s \in Seq(S), NEW t \in Seq(S)
                PROVE  s \o t \in Seq(S)
OBVIOUS

LEMMA SpawnSeq == ASSUME NEW T, NEW s \in Seq(T), Items(s) \subseteq Jobs
                  PROVE  [i \in DOMAIN s |-> Spawn(s[i])] \in Seq(SpawnSteps)
<1>1. \A i \in DOMAIN s : Spawn(s[i]) \in SpawnSteps
  BY DEF Items, SpawnSteps
<1>2. DOMAIN s = 1..Len(s) /\ Len(s) \in Nat
  OBVIOUS
<1>3. QED BY <1>1, <1>2

LEMMA SubSeqs == ASSUME NEW S, NEW T, S \subseteq T, NEW s \in Seq(S)
                 PROVE  s \in Seq(T)
OBVIOUS

LEMMA SutestSteps ==
  ASSUME NEW c \in Configs
  PROVE  SutestProgram(c) \in Seq(RunSteps \cup SpawnSteps)
<1> DEFINE S == RunSteps \cup SpawnSteps
           s1 == If(c \cap {"managed", "admins"} = {}, <<Run("dedicated_admins")>>)
           s2 == If("metal" \notin c, <<Run("sutest_machines")>>)
           s3 == If("nfs" \in c, <<Run("nfs")>>)
<1>1. /\ \A r \in Things : <<Run(r)>> \in Seq(S)
      /\ \A q \in Jobs : <<Spawn(q)>> \in Seq(S)
      /\ <<>> \in Seq(S)
  BY StepsAreSteps, OneStep
<1>2. s1 \in Seq(S) /\ s2 \in Seq(S) /\ s3 \in Seq(S)
  BY <1>1 DEF If, Things
<1>3. <<Spawn("rhods")>> \in Seq(S) /\ <<Spawn("ldap")>> \in Seq(S)
      /\ <<Run("admin_users")>> \in Seq(S)
  BY <1>1, JobNames DEF Things
<1> HIDE DEF S, s1, s2, s3
<1>4. <<Spawn("rhods")>> \o s1 \in Seq(S)
  BY <1>2, <1>3, Concat
<1>5. DeployRhods(c) \in Seq(S)
  BY <1>1, <1>4 DEF DeployRhods, If, s1
<1>6. DeployRhods(c) \o <<Spawn("ldap")>> \in Seq(S)
  BY <1>3, <1>5, Concat
<1>7. DeployRhods(c) \o <<Spawn("ldap")>> \o s2 \in Seq(S)
  BY <1>2, <1>6, Concat
<1>8. DeployRhods(c) \o <<Spawn("ldap")>> \o s2 \o <<Run("admin_users")>> \in Seq(S)
  BY <1>3, <1>7, Concat
<1>9. DeployRhods(c) \o <<Spawn("ldap")>> \o s2 \o <<Run("admin_users")>> \o s3 \in Seq(S)
  BY <1>2, <1>8, Concat
<1>10. QED BY <1>9 DEF SutestProgram, S, s2, s3

LEMMA DriverSteps ==
  ASSUME NEW c \in Configs
  PROVE  DriverProgram(c) \in Seq(RunSteps \cup SpawnSteps)
<1> DEFINE S == RunSteps \cup SpawnSteps
           s1 == If(~({"metal", "single"} \subseteq c), <<Run("driver_machines")>>)
           s2 == [i \in DOMAIN Images |-> Spawn(Images[i])]
           s3 == [i \in DOMAIN Services |-> Spawn(Services[i])]
<1>1. /\ \A r \in Things : <<Run(r)>> \in Seq(S)
      /\ <<>> \in Seq(S)
  BY StepsAreSteps, OneStep
<1>2. s1 \in Seq(S) /\ <<Run("driver_namespace")>> \in Seq(S)
  BY <1>1 DEF If, Things
<1>3. s2 \in Seq(SpawnSteps) /\ s3 \in Seq(SpawnSteps)
  BY SpawnSeq, PrepareAssumption, JobNames
<1>4. s2 \in Seq(S) /\ s3 \in Seq(S)
  BY <1>3, SubSeqs
<1> HIDE DEF S, s1, s2, s3
<1>5. s1 \o <<Run("driver_namespace")>> \in Seq(S)
  BY <1>2, Concat
<1>6. s1 \o <<Run("driver_namespace")>> \o s2 \in Seq(S)
  BY <1>4, <1>5, Concat
<1>7. s1 \o <<Run("driver_namespace")>> \o s2 \o s3 \in Seq(S)
  BY <1>4, <1>6, Concat
<1>8. QED BY <1>7 DEF DriverProgram, S, s1, s2, s3

LEMMA JobSteps ==
  ASSUME NEW c \in Configs, NEW j \in Jobs
  PROVE  JobProgram(c, j) \in Seq(RunSteps)
<1> DEFINE s1 == If(j \in Items(Images) /\ "preload" \in c, <<Run("preloaded")>>)
<1>1. j \in Things
  BY Names DEF Procs
<1>2. <<Run(j)>> \in Seq(RunSteps) /\ <<Run("preloaded")>> \in Seq(RunSteps)
      /\ <<>> \in Seq(RunSteps)
  BY <1>1, StepsAreSteps, OneStep DEF Things
<1>3. s1 \in Seq(RunSteps)
  BY <1>2 DEF If
<1> HIDE DEF s1
<1>4. <<Run(j)>> \o s1 \in Seq(RunSteps)
  BY <1>2, <1>3, Concat
<1>5. QED BY <1>4 DEF JobProgram, s1

LEMMA CleanupSteps ==
  ASSUME NEW c \in Configs
  PROVE  Cleanups[c] \in Seq(RunSteps)
<1> DEFINE Ns == {"driver_namespace"} \cup Items(Images) \cup Items(Services)
           s1 == If("metal" \notin c, <<Undo({"sutest_machines"})>>)
           s2 == If("uninstall_rhods" \in c, <<Undo({"rhods"})>>)
           s3 == If("delete_namespaces" \in c, <<Undo({"notebook_namespace"})>>)
           s4 == If("uninstall_ldap" \in c, <<Undo({"ldap"})>>)
           s5 == If("metal" \notin c, <<Undo({"driver_machines"})>>)
           s6 == If("delete_namespaces" \in c, <<Undo(Ns)>>)
<1>1. /\ Ns \in SUBSET Things /\ {"sutest_machines"} \in SUBSET Things
      /\ {"rhods"} \in SUBSET Things /\ {"notebook_namespace"} \in SUBSET Things
      /\ {"ldap"} \in SUBSET Things /\ {"driver_machines"} \in SUBSET Things
  BY JobNames DEF Things, Procs
<1>2. \A rs \in SUBSET Things : <<Undo(rs)>> \in Seq(RunSteps) /\ <<>> \in Seq(RunSteps)
  BY StepsAreSteps, OneStep
<1>3. /\ s1 \in Seq(RunSteps) /\ s2 \in Seq(RunSteps) /\ s3 \in Seq(RunSteps)
      /\ s4 \in Seq(RunSteps) /\ s5 \in Seq(RunSteps) /\ s6 \in Seq(RunSteps)
      /\ <<>> \in Seq(RunSteps)
  BY <1>1, <1>2 DEF If
<1> HIDE DEF s1, s2, s3, s4, s5, s6
<1>4. s1 \o s2 \in Seq(RunSteps)
  BY <1>3, Concat
<1>5. s1 \o s2 \o s3 \in Seq(RunSteps)
  BY <1>3, <1>4, Concat
<1>6. s1 \o s2 \o s3 \o s4 \in Seq(RunSteps)
  BY <1>3, <1>5, Concat
<1>7. s1 \o s2 \o s3 \o s4 \o s5 \in Seq(RunSteps)
  BY <1>3, <1>6, Concat
<1>8. s1 \o s2 \o s3 \o s4 \o s5 \o s6 \in Seq(RunSteps)
  BY <1>3, <1>7, Concat
<1>9. Cleanups[c] = IF "skip_cleanup" \notin c
                      THEN s1 \o s2 \o s3 \o s4 \o s5 \o s6 ELSE <<>>
  BY DEF Cleanups, s1, s2, s3, s4, s5, s6, If
<1>10. QED BY <1>3, <1>8, <1>9
-----------------------------------------------------------------------------
LEMMA ProgramFacts ==
  ASSUME config \in Configs
  PROVE  /\ Program("main") = MainProgram
         /\ \A p \in Procs : /\ Len(Program(p)) \in Nat
                             /\ DOMAIN Program(p) = 1..Len(Program(p))
         /\ \A s \in Shells : \A i \in DOMAIN Program(s) :
              \/ Program(s)[i].op = "run"
              \/ /\ Program(s)[i].op = "spawn"
                 /\ \E q \in Jobs : Program(s)[i].arg = {q}
         /\ \A j \in Jobs : \A i \in DOMAIN Program(j) : Program(j)[i].op = "run"
         /\ Len(Cleanup) \in Nat /\ DOMAIN Cleanup = 1..Len(Cleanup)
         /\ \A i \in DOMAIN Cleanup : Cleanup[i].op = "run"
<1>1. Program("main") = MainProgram
  BY Names DEF Program, Programs
<1>2. \A s \in Shells : Program(s) \in Seq(RunSteps \cup SpawnSteps)
  BY Names, SutestSteps, DriverSteps DEF Program, Programs, Shells
<1>3. \A j \in Jobs : Program(j) \in Seq(RunSteps)
  BY Names, JobNames, JobSteps DEF Program, Programs, Procs
<1>4. Cleanup \in Seq(RunSteps)
  BY CleanupSteps DEF Cleanup
<1>5. \A x \in RunSteps : x.op = "run"
  BY DEF RunSteps
<1>6. \A x \in SpawnSteps : x.op = "spawn" /\ \E q \in Jobs : x.arg = {q}
  BY DEF SpawnSteps, Spawn
<1>7. Len(MainProgram) \in Nat /\ DOMAIN MainProgram = 1..Len(MainProgram)
  BY DEF MainProgram
<1>8. \A p \in Procs : /\ Len(Program(p)) \in Nat
                       /\ DOMAIN Program(p) = 1..Len(Program(p))
  <2>1. TAKE p \in Procs
  <2>2. CASE p = "main"
    BY <1>1, <1>7, <2>2
  <2>3. CASE p \in Shells
    BY <1>2, <2>3
  <2>4. CASE p \in Jobs
    BY <1>3, <2>4
  <2>5. QED BY <2>2, <2>3, <2>4 DEF Procs
<1>9. \A s \in Shells : \A i \in DOMAIN Program(s) :
        \/ Program(s)[i].op = "run"
        \/ /\ Program(s)[i].op = "spawn"
           /\ \E q \in Jobs : Program(s)[i].arg = {q}
  <2>1. \A s \in Shells : \A i \in DOMAIN Program(s) :
          Program(s)[i] \in RunSteps \cup SpawnSteps
    BY <1>2
  <2>2. QED BY <2>1, <1>5, <1>6
<1>10. \A j \in Jobs : \A i \in DOMAIN Program(j) : Program(j)[i].op = "run"
  <2>1. \A j \in Jobs : \A i \in DOMAIN Program(j) : Program(j)[i] \in RunSteps
    BY <1>3
  <2>2. QED BY <2>1, <1>5
<1>11. /\ Len(Cleanup) \in Nat /\ DOMAIN Cleanup = 1..Len(Cleanup)
       /\ \A i \in DOMAIN Cleanup : Cleanup[i].op = "run"
  <2>1. \A i \in DOMAIN Cleanup : Cleanup[i] \in RunSteps
    BY <1>4
  <2>2. QED BY <1>4, <1>5, <2>1
<1>12. QED BY <1>1, <1>8, <1>9, <1>10, <1>11

LEMMA MainSteps ==
  /\ DOMAIN MainProgram = 1..6 /\ Len(MainProgram) = 6
  /\ MainProgram[1].op = "run" /\ MainProgram[5].op = "run"
  /\ MainProgram[2] = Spawn("sutest") /\ MainProgram[3] = Spawn("driver")
  /\ MainProgram[4].op = "wait" /\ MainProgram[6].op = "wait"
BY DEF MainProgram, Run, Wait

\* The configuration does not change, and neither do the programs.
LEMMA Frame ==
  ASSUME config' = config
  PROVE  /\ Cleanup' = Cleanup
         /\ \A p : Program(p)' = Program(p) /\ Deploys(p)' = Deploys(p)
BY DEF Cleanup, Program, Deploys

LEMMA DeploysIt ==
  ASSUME NEW p, NEW i \in DOMAIN Program(p), Program(p)[i].op = "run"
  PROVE  Program(p)[i].arg \subseteq Deploys(p)
BY DEF Deploys

\* A process stays where it is, goes on after what has succeeded, or starts.
LEMMA DoneStep ==
  ASSUME TypeOK, DoneInv, config' = config, succeeded \subseteq succeeded',
         \A q \in Procs :
           /\ code'[q] = "prepare" =>
                \/ at'[q] = 1
                \/ code[q] = "prepare" /\ at'[q] = at[q]
                \/ /\ code[q] = "prepare" /\ at'[q] = at[q] + 1
                   /\ at[q] \in DOMAIN Program(q) /\ Program(q)[at[q]].op = "run"
                        => Program(q)[at[q]].arg \subseteq succeeded'
           /\ state'[q] = "ok" =>
                code'[q] = "prepare" /\ at'[q] \notin DOMAIN Program(q)
  PROVE  DoneInv'
<1>1. ASSUME NEW q \in Procs, code'[q] = "prepare", NEW i \in DOMAIN Program(q),
             i < at'[q], Program(q)[i].op = "run"
      PROVE  Program(q)[i].arg \subseteq succeeded'
  <2>1. i \in Nat \ {0} /\ at[q] \in Nat
    BY <1>1, ProgramFacts DEF TypeOK
  <2>2. CASE at'[q] = 1
    BY <1>1, <2>1, <2>2
  <2>3. CASE code[q] = "prepare" /\ i < at[q]
    BY <1>1, <2>3 DEF DoneInv
  <2>4. CASE code[q] = "prepare" /\ at'[q] = at[q] + 1 /\ i = at[q]
    BY <1>1, <2>1, <2>4
  <2>5. QED BY <1>1, <2>1, <2>2, <2>3, <2>4
<1>2. QED BY <1>1, Frame DEF DoneInv

LEMMA InitIInv == Init => IInv
<1> SUFFICES ASSUME Init PROVE IInv
  OBVIOUS
<1> USE ProgramFacts, MainSteps, Names DEF Init
<1>1. TypeOK
  <2>1. \A p \in Procs : at[p] <= Len(Steps(p)) + 1
    BY DEF Steps
  <2>2. QED BY <2>1, PrepareAssumption DEF TypeOK
<1>2. ChildInv
  BY DEF ChildInv, IsAt, Current, Steps
<1>3. DoneInv
  BY DEF DoneInv
<1>4. MainInv
  BY DEF MainInv
<1>5. TrapInv
  BY DEF TrapInv
<1>6. QED BY <1>1, <1>2, <1>3, <1>4, <1>5 DEF IInv

\* A command has its effect.
LEMMA LandIInv ==
  ASSUME IInv, NEW p \in Procs, Land(p)
  PROVE  IInv'
<1>1. /\ config' = config /\ TypeOK /\ ChildInv /\ DoneInv /\ MainInv /\ TrapInv
      /\ child[p] = "running"
      /\ at[p] \in DOMAIN Steps(p) /\ Current(p).op = "run"
      /\ state' = state /\ code' = code /\ at' = at /\ list' = list
      /\ child' = [child EXCEPT ![p] = "landed"]
      /\ deployed' = IF code[p] = "trap" THEN deployed \ Current(p).arg
                                         ELSE deployed \cup Current(p).arg
      /\ succeeded' = succeeded /\ uncleaned' = uncleaned
      /\ abandoned' = abandoned /\ failures' = failures
  BY DEF IInv, Land, ChildInv, IsAt, history
<1>2. TypeOK'
  <2>1. child' \in [Procs -> {"none", "running", "landed", "failed"}]
    BY <1>1 DEF TypeOK
  <2>2. (\A q \in Procs : at[q] <= Len(Steps(q)) + 1)'
    BY <1>1, Frame DEF TypeOK, Steps
  <2>3. QED BY <1>1, <2>1, <2>2 DEF TypeOK
<1>3. ChildInv'
  <2>1. \A q \in Procs : child'[q] # "none" => child[q] # "none"
    BY <1>1 DEF TypeOK
  <2>2. QED BY <1>1, <2>1, Frame DEF ChildInv, IsAt, Current, Steps
<1>4. DoneInv'
  BY <1>1, DoneStep DEF TypeOK, DoneInv
<1>5. MainInv'
  BY <1>1, Frame DEF MainInv
<1> USE Frame, ProgramFacts, Names
<1>6. TrapInv'
  <2> SUFFICES ASSUME code["main"] = "trap" PROVE TrapInv'
    BY <1>1 DEF TrapInv
  <2>1. NoShellIsLeft'
    BY <1>1 DEF TrapInv, NoShellIsLeft
  <2>2. \A q \in Procs \ {"main"} :
          (Active(q) \/ (q \in Jobs /\ state[q] = "running") => q \in abandoned)'
    BY <1>1 DEF TypeOK, TrapInv, Active
  <2>3. ASSUME NEW i \in DOMAIN Cleanup,
               i < at["main"] \/ (i = at["main"] /\ child'["main"] = "landed"),
               NEW r \in Cleanup[i].arg, r \in deployed'
        PROVE  r \in uncleaned \/ \E q \in abandoned : r \in Deploys(q)
    <3>1. CASE p = "main"
      BY <1>1, <2>3, <3>1 DEF TypeOK, TrapInv, Current, Steps
    <3>2. CASE p # "main" /\ code[p] = "prepare" /\ r \notin deployed
      <4>1. p \in abandoned
        BY <1>1, <3>2 DEF TrapInv, Active
      <4>2. r \in Deploys(p)
        BY <1>1, <2>3, <3>2, DeploysIt DEF Current, Steps
      <4>3. QED BY <4>1, <4>2
    <3>3. CASE p # "main" /\ r \in deployed
      BY <1>1, <2>3, <3>3 DEF TypeOK, TrapInv
    <3>4. QED BY <1>1, <2>3, <3>1, <3>2, <3>3 DEF TypeOK
  <2>4. QED BY <1>1, <2>1, <2>2, <2>3 DEF TrapInv
<1>7. QED BY <1>2, <1>3, <1>4, <1>5, <1>6 DEF IInv

\* The steps of q after an action, in terms of the programs before it.
NewSteps(q) == IF code'[q] = "trap" THEN Cleanup ELSE Program(q)

LEMMA NewStepsFrame ==
  ASSUME config' = config,
         \A q \in Procs :
           /\ at'[q] <= Len(NewSteps(q)) + 1
           /\ child'[q] # "none" => /\ at'[q] \in DOMAIN NewSteps(q)
                                    /\ NewSteps(q)[at'[q]].op = "run"
  PROVE  /\ \A q \in Procs : (at[q] <= Len(Steps(q)) + 1)'
         /\ ChildInv'
<1>1. \A q \in Procs : (at[q] <= Len(Steps(q)) + 1)'
  BY Frame DEF NewSteps, Steps
<1>2. ChildInv'
  BY Frame DEF NewSteps, Steps, ChildInv, IsAt, Current
<1>3. QED BY <1>1, <1>2

LEMMA StepsTyped ==
  ASSUME TypeOK
  PROVE  \A q \in Procs : /\ Len(Steps(q)) \in Nat
                          /\ DOMAIN Steps(q) = 1..Len(Steps(q))
                          /\ at[q] \in 1..(Len(Steps(q)) + 1)
BY ProgramFacts DEF TypeOK, Steps

\* p goes on to its next step.
LEMMA GoOnStep ==
  ASSUME TypeOK, ChildInv, NEW p \in Procs, GoOn(p), at[p] \in DOMAIN Steps(p),
         code' = code, config' = config
  PROVE  /\ at' \in [Procs -> Nat \ {0}]
         /\ child' \in [Procs -> {"none", "running", "landed", "failed"}]
         /\ \A q \in Procs : (at[q] <= Len(Steps(q)) + 1)'
         /\ ChildInv'
         /\ \A q \in Procs : \/ q # p /\ at'[q] = at[q] /\ child'[q] = child[q]
                             \/ q = p /\ at'[q] = at[q] /\ child'[q] = "none"
                             \/ /\ q = p /\ state[q] = "running" /\ at'[q] = at[q] + 1
                                /\ child'[q] \in {"none", "running"}
<1>1. \A q \in Procs : NewSteps(q) = Steps(q)
  BY DEF NewSteps, Steps
<1>2. \A q \in Procs : child[q] # "none" => /\ at[q] \in DOMAIN Steps(q)
                                            /\ Steps(q)[at[q]].op = "run"
  BY DEF ChildInv, IsAt, Current
<1>3. at \in [Procs -> Nat \ {0}] /\ child \in [Procs -> {"none", "running", "landed", "failed"}]
  BY DEF TypeOK
<1>4. CASE state[p] = "running"
  <2>1. /\ at' = [at EXCEPT ![p] = at[p] + 1]
        /\ child' = [child EXCEPT ![p] = ChildAt(Steps(p), at[p] + 1)]
    BY <1>4 DEF GoOn
  <2>2. /\ ChildAt(Steps(p), at[p] + 1) \in {"none", "running"}
        /\ ChildAt(Steps(p), at[p] + 1) # "none" =>
             at[p] + 1 \in DOMAIN Steps(p) /\ Steps(p)[at[p] + 1].op = "run"
    BY DEF ChildAt
  <2>3. \A q \in Procs :
          /\ at'[q] <= Len(NewSteps(q)) + 1
          /\ child'[q] # "none" => /\ at'[q] \in DOMAIN NewSteps(q)
                                   /\ NewSteps(q)[at'[q]].op = "run"
    BY <1>1, <1>2, <1>3, <2>1, <2>2, StepsTyped
  <2>4. QED BY <1>3, <1>4, <2>1, <2>2, <2>3, NewStepsFrame
<1>5. CASE state[p] # "running"
  <2>1. at' = at /\ child' = [child EXCEPT ![p] = "none"]
    BY <1>5 DEF GoOn
  <2>2. \A q \in Procs :
          /\ at'[q] <= Len(NewSteps(q)) + 1
          /\ child'[q] # "none" => /\ at'[q] \in DOMAIN NewSteps(q)
                                   /\ NewSteps(q)[at'[q]].op = "run"
    BY <1>1, <1>2, <1>3, <2>1, StepsTyped
  <2>3. QED BY <1>3, <2>1, <2>2, NewStepsFrame
<1>6. QED BY <1>4, <1>5

\* Main's trap has something else than `no shell', `nothing but abandoned
\* processes' to lose: what it has removed so far.
LEMMA TrapStep ==
  ASSUME TypeOK, TrapInv, config' = config, code'["main"] = "trap", code["main"] = "trap",
         deployed' = deployed, uncleaned \subseteq uncleaned', abandoned' = abandoned,
         \A q \in Procs : state'[q] = "running" => state[q] = "running",
         \A q \in Procs \ {"main"} :
           Active(q)' => Active(q) \/ state[q] = "running",
         \/ at'["main"] = at["main"] /\ (child'["main"] = "landed" => child["main"] = "landed")
         \/ /\ at'["main"] = at["main"] + 1 /\ child'["main"] # "landed"
            /\ \/ child["main"] = "landed"
               \/ Cleanup[at["main"]].arg \subseteq uncleaned'
  PROVE  TrapInv'
<1>1. NoShellIsLeft'
  BY DEF TrapInv, NoShellIsLeft, Shells, Procs
<1>2. \A q \in Procs \ {"main"} :
        (Active(q) \/ (q \in Jobs /\ state[q] = "running") => q \in abandoned)'
  BY DEF TrapInv, NoShellIsLeft, Procs
<1>3. ASSUME NEW i \in DOMAIN Cleanup,
             i < at'["main"] \/ (i = at'["main"] /\ child'["main"] = "landed"),
             NEW r \in Cleanup[i].arg \cap deployed
      PROVE  r \in uncleaned' \/ \E q \in abandoned : r \in Deploys(q)
  <2>1. i \in Nat /\ at["main"] \in Nat
    BY ProgramFacts, Names DEF TypeOK
  <2>2. CASE i < at["main"] \/ (i = at["main"] /\ child["main"] = "landed")
    BY <2>2 DEF TrapInv
  <2>3. CASE i = at["main"] /\ child["main"] # "landed"
    BY <1>3, <2>1, <2>3
  <2>4. QED BY <1>3, <2>1, <2>2, <2>3
<1>4. ASSUME NEW i \in DOMAIN Cleanup',
             i < at'["main"] \/ (i = at'["main"] /\ child'["main"] = "landed"),
             NEW r \in Cleanup'[i].arg \cap deployed'
      PROVE  r \in uncleaned' \/ \E q \in abandoned' : r \in Deploys(q)'
  BY <1>3, <1>4, Frame
<1>5. QED BY <1>1, <1>2, <1>4 DEF TrapInv

\* Main goes past a command.
LEMMA MainGoesOn ==
  ASSUME TypeOK, ChildInv, MainInv, NEW p \in Procs, GoOn(p), IsAt(p, "run"),
         code' = code, config' = config, state' = state, list' = list
  PROVE  MainInv'
<1>1. at[p] \in DOMAIN Steps(p) /\ at["main"] \in Nat
  BY Names DEF IsAt, TypeOK
<1>2. \/ at'["main"] = at["main"]
      \/ p = "main" /\ state["main"] = "running" /\ at'["main"] = at["main"] + 1
  BY <1>1, GoOnStep, Names
<1>3. p = "main" /\ code["main"] = "prepare" => at["main"] \in {1, 5}
  BY <1>1, ProgramFacts, MainSteps DEF TypeOK, IsAt, Current, Steps, Spawn
<1>4. Cleanup' = Cleanup
  BY Frame
<1>5. QED BY <1>1, <1>2, <1>3, <1>4 DEF MainInv

LEMMA CommandSucceedsIInv ==
  ASSUME IInv, NEW p \in Procs, CommandSucceeds(p)
  PROVE  IInv'
<1>1. /\ config' = config /\ TypeOK /\ ChildInv /\ DoneInv /\ MainInv /\ TrapInv
      /\ child[p] = "landed" /\ GoOn(p) /\ IsAt(p, "run")
      /\ at[p] \in DOMAIN Steps(p) /\ Current(p).op = "run"
      /\ state' = state /\ code' = code /\ list' = list /\ deployed' = deployed
      /\ uncleaned' = uncleaned /\ abandoned' = abandoned /\ failures' = failures
      /\ succeeded' = IF code[p] = "trap" THEN succeeded
                                          ELSE succeeded \cup Current(p).arg
  BY DEF IInv, CommandSucceeds, ChildInv, IsAt
<1> USE Frame, ProgramFacts, Names
<1>2. TypeOK'
  BY <1>1, GoOnStep DEF TypeOK
<1>3. ChildInv'
  BY <1>1, GoOnStep
<1>4. DoneInv'
  <2>1. \A q \in Procs : state[q] = "ok" => at'[q] = at[q]
    BY <1>1, GoOnStep
  <2>2. code[p] = "prepare" => Program(p)[at[p]].arg \subseteq succeeded'
    BY <1>1 DEF Current, Steps
  <2>3. \A q \in Procs : at'[q] = at[q] \/ (q = p /\ at'[q] = at[q] + 1)
    BY <1>1, GoOnStep
  <2>4. QED BY <1>1, <2>1, <2>2, <2>3, DoneStep DEF DoneInv
<1>5. MainInv'
  BY <1>1, MainGoesOn
<1>6. TrapInv'
  BY <1>1, TrapStep, GoOnStep DEF TypeOK, TrapInv, Active
<1>7. QED BY <1>2, <1>3, <1>4, <1>5, <1>6 DEF IInv

\* CommandFails and TimesOut: the shell finds out later.
LEMMA FailureIInv ==
  ASSUME IInv, NEW p \in Procs, CommandFails(p) \/ TimesOut(p)
  PROVE  IInv'
<1>1. /\ config' = config /\ TypeOK /\ ChildInv /\ DoneInv /\ MainInv /\ TrapInv
      /\ Active(p) /\ child' = [child EXCEPT ![p] = "failed"]
      /\ at[p] \in DOMAIN Steps(p) /\ Steps(p)[at[p]].op = "run"
      /\ state' = state /\ code' = code /\ at' = at /\ list' = list
      /\ deployed' = deployed /\ succeeded' = succeeded
      /\ uncleaned' = uncleaned /\ abandoned' = abandoned
      /\ failures' \in 0..MaxFailures
  BY PrepareAssumption DEF IInv, CommandFails, TimesOut, Active, Blocked, ChildInv,
     IsAt, Current, TypeOK, history
<1>2. \A q \in Procs :
        /\ at'[q] <= Len(NewSteps(q)) + 1
        /\ child'[q] # "none" => /\ at'[q] \in DOMAIN NewSteps(q)
                                 /\ NewSteps(q)[at'[q]].op = "run"
  BY <1>1, StepsTyped DEF TypeOK, ChildInv, IsAt, Current, NewSteps, Steps
<1>3. TypeOK' /\ ChildInv'
  BY <1>1, <1>2, NewStepsFrame DEF TypeOK
<1>4. DoneInv'
  BY <1>1, DoneStep DEF DoneInv
<1>5. MainInv'
  BY <1>1, Frame DEF MainInv
<1>6. TrapInv'
  BY <1>1, TrapStep, Names DEF TypeOK, TrapInv, Active
<1>7. QED BY <1>3, <1>4, <1>5, <1>6 DEF IInv

LEMMA CleanupFailsIInv ==
  ASSUME IInv, NEW p \in Procs, CleanupFails(p)
  PROVE  IInv'
<1>1. /\ config' = config /\ TypeOK /\ ChildInv /\ DoneInv /\ MainInv /\ TrapInv
      /\ Active(p) /\ code[p] = "trap" /\ GoOn(p) /\ IsAt(p, "run")
      /\ at[p] \in DOMAIN Steps(p) /\ Current(p) = Cleanup[at[p]]
      /\ state' = state /\ code' = code /\ list' = list /\ deployed' = deployed
      /\ succeeded' = succeeded /\ abandoned' = abandoned
      /\ failures' \in 0..MaxFailures
      /\ uncleaned' = IF p = "main" THEN uncleaned \cup Current(p).arg ELSE uncleaned
  BY PrepareAssumption DEF IInv, CleanupFails, ChildInv, IsAt, Active, TypeOK, Current, Steps
<1>2. TypeOK' /\ ChildInv'
  BY <1>1, GoOnStep DEF TypeOK
<1>3. DoneInv'
  <2>1. \A q \in Procs : state[q] = "ok" => at'[q] = at[q]
    BY <1>1, GoOnStep
  <2>2. \A q \in Procs : at'[q] = at[q] \/ q = p
    BY <1>1, GoOnStep
  <2>3. QED BY <1>1, <2>1, <2>2, DoneStep DEF DoneInv
<1>4. MainInv'
  BY <1>1, MainGoesOn
<1>5. TrapInv'
  BY <1>1, TrapStep, GoOnStep, Names DEF TypeOK, TrapInv, Active
<1>6. QED BY <1>2, <1>3, <1>4, <1>5 DEF IInv

LEMMA WaitEndsIInv ==
  ASSUME IInv, NEW p \in Procs, WaitEnds(p)
  PROVE  IInv'
<1>1. /\ config' = config /\ TypeOK /\ ChildInv /\ DoneInv /\ MainInv /\ TrapInv
      /\ state[p] = "running" /\ list[p] = {} /\ GoOn(p)
      /\ at[p] \in DOMAIN Steps(p) /\ Steps(p)[at[p]].op = "wait"
      /\ state' = state /\ code' = code /\ list' = list /\ deployed' = deployed
      /\ succeeded' = succeeded /\ uncleaned' = uncleaned
      /\ abandoned' = abandoned /\ failures' = failures
  BY DEF IInv, WaitEnds, IsAt, Current, history
<1>2. /\ p = "main" /\ code[p] = "prepare" /\ at["main"] \in {4, 6}
  <2>1. code[p] = "prepare"
    BY <1>1, ProgramFacts DEF TypeOK, Steps
  <2>2. at[p] \in DOMAIN Program(p) /\ Program(p)[at[p]].op = "wait"
    BY <1>1, <2>1 DEF Steps
  <2>3. p = "main"
    BY <1>1, <2>2, ProgramFacts DEF TypeOK, Procs
  <2>4. at["main"] \in 1..6 /\ MainProgram[at["main"]].op = "wait"
    BY <1>1, <2>2, <2>3, ProgramFacts, MainSteps DEF TypeOK
  <2>5. Spawn("sutest").op = "spawn" /\ Spawn("driver").op = "spawn"
    BY DEF Spawn
  <2>6. at["main"] \notin {1, 2, 3, 5}
    BY <2>4, <2>5, MainSteps
  <2>7. QED BY <2>1, <2>3, <2>4, <2>6
<1>3. TypeOK' /\ ChildInv'
  BY <1>1, GoOnStep DEF TypeOK
<1>4. DoneInv'
  <2>1. \A q \in Procs : at'[q] = at[q] \/ (q = p /\ at'[q] = at[q] + 1)
    BY <1>1, GoOnStep
  <2>2. Program(p)[at[p]].op # "run"
    BY <1>1, <1>2 DEF Steps
  <2>3. QED BY <1>1, <2>1, <2>2, DoneStep DEF DoneInv
<1>5. MainInv'
  <2>1. at'["main"] \in {at["main"], at["main"] + 1}
    BY <1>1, <1>2, GoOnStep
  <2>2. QED BY <1>1, <1>2, <2>1, Frame DEF MainInv
<1>6. TrapInv'
  BY <1>1, <1>2 DEF TrapInv
<1>7. QED BY <1>3, <1>4, <1>5, <1>6 DEF IInv

LEMMA WaitNextIInv ==
  ASSUME IInv, NEW p \in Procs, WaitNext(p)
  PROVE  IInv'
<1>1. PICK r \in list[p] : state[r] = "ok" /\ list' = [list EXCEPT ![p] = @ \ {r}]
  BY DEF WaitNext
<1>2. /\ config' = config /\ TypeOK /\ ChildInv /\ DoneInv /\ MainInv /\ TrapInv
      /\ at[p] \in DOMAIN Steps(p) /\ Steps(p)[at[p]].op = "wait"
      /\ state' = state /\ code' = code /\ at' = at /\ child' = child
      /\ deployed' = deployed /\ succeeded' = succeeded /\ uncleaned' = uncleaned
      /\ abandoned' = abandoned /\ failures' = failures
  BY DEF IInv, WaitNext, IsAt, Current, history
<1>3. TypeOK'
  <2>1. \A q \in Procs : (at[q] <= Len(Steps(q)) + 1)'
    BY <1>2, Frame DEF TypeOK, Steps
  <2>2. list' \in [Procs -> SUBSET Procs]
    BY <1>1, <1>2 DEF TypeOK
  <2>3. QED BY <1>2, <2>1, <2>2 DEF TypeOK
<1>4. ChildInv'
  BY <1>2, Frame DEF ChildInv, IsAt, Current, Steps
<1>5. DoneInv'
  BY <1>2, DoneStep DEF DoneInv
<1>6. MainInv'
  BY <1>1, <1>2, Frame, Names DEF MainInv, TypeOK
<1>7. TrapInv'
  BY <1>2, TrapStep, Names DEF TypeOK, TrapInv, Active
<1>8. QED BY <1>3, <1>4, <1>5, <1>6, <1>7 DEF IInv

LEMMA JobFailsIInv ==
  ASSUME IInv, NEW p \in Procs, JobFails(p)
  PROVE  IInv'
<1>1. /\ config' = config /\ TypeOK /\ ChildInv /\ DoneInv /\ MainInv /\ TrapInv
      /\ p \in Jobs /\ p # "main" /\ p \notin Shells
      /\ state' = [state EXCEPT ![p] = "failed"]
      /\ child' = [child EXCEPT ![p] = "none"]
      /\ code' = code /\ at' = at /\ list' = list
      /\ deployed' = deployed /\ succeeded' = succeeded /\ uncleaned' = uncleaned
      /\ abandoned' = abandoned /\ failures' = failures
  BY JobNames DEF IInv, JobFails, HasTrap, Procs, Shells, history
<1>2. TypeOK' /\ ChildInv'
  <2>1. \A q \in Procs :
          /\ at'[q] <= Len(NewSteps(q)) + 1
          /\ child'[q] # "none" => /\ at'[q] \in DOMAIN NewSteps(q)
                                   /\ NewSteps(q)[at'[q]].op = "run"
    BY <1>1, StepsTyped DEF TypeOK, ChildInv, IsAt, Current, NewSteps, Steps
  <2>2. QED BY <1>1, <2>1, NewStepsFrame DEF TypeOK
<1>3. DoneInv'
  BY <1>1, DoneStep DEF DoneInv, TypeOK
<1>4. MainInv'
  BY <1>1, Frame, Names DEF MainInv, TypeOK, Shells
<1>5. TrapInv'
  BY <1>1, TrapStep, Names DEF TypeOK, TrapInv, Active
<1>6. QED BY <1>2, <1>3, <1>4, <1>5 DEF IInv

LEMMA ExitIInv ==
  ASSUME IInv, NEW p \in Procs, Exit(p)
  PROVE  IInv'
<1>1. /\ config' = config /\ TypeOK /\ ChildInv /\ DoneInv /\ MainInv /\ TrapInv
      /\ state[p] = "running" /\ at[p] \notin DOMAIN Steps(p)
      /\ state' = [state EXCEPT ![p] = IF code[p] = "trap" THEN "failed" ELSE "ok"]
      /\ code' = code /\ at' = at /\ list' = list /\ child' = child
      /\ deployed' = deployed /\ succeeded' = succeeded /\ uncleaned' = uncleaned
      /\ abandoned' = abandoned /\ failures' = failures
  BY DEF IInv, Exit, history
<1>2. TypeOK'
  <2>1. \A q \in Procs : (at[q] <= Len(Steps(q)) + 1)'
    BY <1>1, Frame DEF TypeOK, Steps
  <2>2. state' \in [Procs -> {"idle", "running", "ok", "failed", "killed"}]
    BY <1>1 DEF TypeOK
  <2>3. QED BY <1>1, <2>1, <2>2 DEF TypeOK
<1>3. ChildInv'
  BY <1>1, Frame DEF ChildInv, IsAt, Current, Steps
<1>4. DoneInv'
  BY <1>1, DoneStep DEF DoneInv, TypeOK, Steps
<1>5. MainInv'
  BY <1>1, Frame, Names DEF MainInv, TypeOK, Steps
<1>6. TrapInv'
  BY <1>1, TrapStep, Names DEF TypeOK, TrapInv, Active
<1>7. QED BY <1>2, <1>3, <1>4, <1>5, <1>6 DEF IInv

\* Where processes start others.
LEMMA SpawnFacts ==
  ASSUME IInv, NEW p \in Procs, state[p] = "running", IsAt(p, "spawn"), NEW q \in Current(p).arg
  PROVE  /\ code[p] = "prepare"
         /\ \/ p = "main" /\ at["main"] = 2 /\ q = "sutest"
            \/ p = "main" /\ at["main"] = 3 /\ q = "driver"
            \/ p \in Shells /\ q \in Jobs
<1>1. TypeOK /\ at[p] \in DOMAIN Steps(p) /\ Steps(p)[at[p]].op = "spawn"
      /\ q \in Steps(p)[at[p]].arg
  BY DEF IInv, IsAt, Current
<1>2. code[p] = "prepare"
  BY <1>1, ProgramFacts DEF TypeOK, Steps
<1>3. at[p] \in DOMAIN Program(p) /\ Program(p)[at[p]].op = "spawn"
      /\ q \in Program(p)[at[p]].arg
  BY <1>1, <1>2 DEF Steps
<1>4. CASE p = "main"
  <2>1. at["main"] \in {2, 3}
    <3>1. Program("main") = MainProgram
      BY <1>1, ProgramFacts DEF TypeOK
    <3>2. at["main"] \in 1..6 /\ MainProgram[at["main"]].op = "spawn"
      BY <1>3, <1>4, <3>1, MainSteps
    <3>3. QED BY <3>2, MainSteps
  <2>2. QED BY <1>1, <1>2, <1>3, <1>4, <2>1, ProgramFacts, MainSteps DEF TypeOK, Spawn
<1>5. CASE p \in Shells
  BY <1>1, <1>2, <1>3, <1>5, ProgramFacts DEF TypeOK
<1>6. CASE p \in Jobs
  BY <1>1, <1>3, <1>6, ProgramFacts DEF TypeOK
<1>7. QED BY <1>4, <1>5, <1>6 DEF Procs

LEMMA RunInBgIInv ==
  ASSUME IInv, NEW p \in Procs, RunInBg(p)
  PROVE  IInv'
<1>1. PICK q \in Current(p).arg :
        /\ state' = [state EXCEPT ![q] = "running"]
        /\ list' = [list EXCEPT ![q] = list[p], ![p] = @ \cup {q}]
        /\ code' = [code EXCEPT ![q] = "prepare"]
        /\ at' = [at EXCEPT ![q] = 1, ![p] = @ + 1]
        /\ child' = [child EXCEPT ![q] = ChildAt(Program(q), 1),
                                  ![p] = ChildAt(Steps(p), at[p] + 1)]
  BY DEF RunInBg
<1>2. /\ config' = config /\ TypeOK /\ ChildInv /\ DoneInv /\ MainInv /\ TrapInv
      /\ state[p] = "running" /\ IsAt(p, "spawn")
      /\ at[p] \in DOMAIN Steps(p) /\ Steps(p)[at[p]].op = "spawn"
      /\ deployed' = deployed /\ succeeded' = succeeded /\ uncleaned' = uncleaned
      /\ abandoned' = abandoned /\ failures' = failures
  BY DEF IInv, RunInBg, IsAt, Current, history
<1>3. /\ code[p] = "prepare"
      /\ \/ p = "main" /\ at["main"] = 2 /\ q = "sutest"
         \/ p = "main" /\ at["main"] = 3 /\ q = "driver"
         \/ p \in Shells /\ q \in Jobs
  BY <1>2, SpawnFacts
<1>4. q \in Procs /\ q # "main" /\ q # p
  BY <1>3, Names, JobNames DEF Procs, Shells
<1>5. /\ state' \in [Procs -> {"idle", "running", "ok", "failed", "killed"}]
      /\ code' \in [Procs -> {"prepare", "trap"}]
      /\ at' \in [Procs -> Nat \ {0}]
      /\ list' \in [Procs -> SUBSET Procs]
  <2>1. /\ state \in [Procs -> {"idle", "running", "ok", "failed", "killed"}]
        /\ code \in [Procs -> {"prepare", "trap"}]
        /\ at \in [Procs -> Nat \ {0}]
        /\ list \in [Procs -> SUBSET Procs]
    BY <1>2 DEF TypeOK
  <2>2. state' \in [Procs -> {"idle", "running", "ok", "failed", "killed"}]
    BY <1>1, <1>4, <2>1
  <2>3. code' \in [Procs -> {"prepare", "trap"}]
    BY <1>1, <1>4, <2>1
  <2>4. at' \in [Procs -> Nat \ {0}]
    BY <1>1, <1>4, <2>1
  <2>5. list' \in [Procs -> SUBSET Procs]
    <3>1. list[p] \in SUBSET Procs /\ list[p] \cup {q} \in SUBSET Procs
      BY <1>4, <2>1
    <3>2. list' = [[list EXCEPT ![q] = list[p]] EXCEPT ![p] = list[p] \cup {q}]
      BY <1>1, <1>4, <2>1
    <3>3. [list EXCEPT ![q] = list[p]] \in [Procs -> SUBSET Procs]
      BY <1>4, <2>1, <3>1
    <3>4. QED BY <3>1, <3>2, <3>3
  <2>6. QED BY <2>2, <2>3, <2>4, <2>5
<1>6. /\ ChildAt(Program(q), 1) \in {"none", "running"}
      /\ ChildAt(Program(q), 1) # "none" =>
           1 \in DOMAIN Program(q) /\ Program(q)[1].op = "run"
      /\ ChildAt(Steps(p), at[p] + 1) \in {"none", "running"}
      /\ ChildAt(Steps(p), at[p] + 1) # "none" =>
           at[p] + 1 \in DOMAIN Steps(p) /\ Steps(p)[at[p] + 1].op = "run"
  BY DEF ChildAt
<1>7. child' \in [Procs -> {"none", "running", "landed", "failed"}]
  BY <1>1, <1>2, <1>4, <1>6 DEF TypeOK
<1>8. \A r \in Procs :
        /\ at'[r] <= Len(NewSteps(r)) + 1
        /\ child'[r] # "none" => /\ at'[r] \in DOMAIN NewSteps(r)
                                 /\ NewSteps(r)[at'[r]].op = "run"
  <2>1. TAKE r \in Procs
  <2>2. CASE r = q
    <3>1. NewSteps(r) = Program(r) /\ at'[r] = 1 /\ child'[r] = ChildAt(Program(r), 1)
      BY <1>1, <1>2, <1>4, <2>2 DEF TypeOK, NewSteps
    <3>2. QED BY <1>2, <1>6, <2>2, <3>1, ProgramFacts DEF TypeOK
  <2>3. CASE r = p
    <3>1. NewSteps(r) = Steps(r) /\ at'[r] = at[r] + 1
          /\ child'[r] = ChildAt(Steps(r), at[r] + 1)
      BY <1>1, <1>2, <1>4, <2>3 DEF TypeOK, NewSteps, Steps
    <3>2. QED BY <1>2, <1>6, <2>3, <3>1, StepsTyped
  <2>4. CASE r # p /\ r # q
    <3>1. NewSteps(r) = Steps(r) /\ at'[r] = at[r] /\ child'[r] = child[r]
      BY <1>1, <1>2, <1>4, <2>4 DEF TypeOK, NewSteps, Steps
    <3>2. QED BY <1>2, <3>1, StepsTyped DEF ChildInv, IsAt, Current
  <2>5. QED BY <2>2, <2>3, <2>4
<1>9. TypeOK' /\ ChildInv'
  BY <1>2, <1>5, <1>7, <1>8, NewStepsFrame DEF TypeOK
<1>10. DoneInv'
  <2>1. Program(p)[at[p]].op # "run"
    BY <1>2, <1>3 DEF Steps
  <2>2. \A r \in Procs : r # p /\ r # q =>
          state'[r] = state[r] /\ code'[r] = code[r] /\ at'[r] = at[r]
    BY <1>1, <1>2, <1>4 DEF TypeOK
  <2>3. /\ state'[p] = "running" /\ code'[p] = "prepare" /\ at'[p] = at[p] + 1
        /\ state'[q] = "running" /\ at'[q] = 1
    BY <1>1, <1>2, <1>3, <1>4 DEF TypeOK
  <2>4. QED BY <1>2, <1>3, <2>1, <2>2, <2>3, DoneStep DEF DoneInv
<1>11. MainInv'
  <2>1. \A r \in Procs : "main" \notin list'[r]
    BY <1>1, <1>2, <1>4 DEF TypeOK, MainInv
  <2>2. CASE p = "main"
    <3>1. /\ state'["main"] = "running" /\ code'["main"] = "prepare"
          /\ at'["main"] = at["main"] + 1 /\ list'["main"] = list["main"] \cup {q}
          /\ state'[q] = "running"
          /\ \A r \in Procs : r # q => state'[r] = state[r]
      BY <1>1, <1>2, <1>3, <1>4, <2>2 DEF TypeOK
    <3>2. QED BY <1>2, <1>3, <2>1, <2>2, <3>1, Names, JobNames DEF MainInv, Shells
  <2>3. CASE p # "main"
    <3>1. /\ \A r \in Procs : r # q => state'[r] = state[r]
          /\ at'["main"] = at["main"] /\ code'["main"] = code["main"]
          /\ list'["main"] = list["main"]
          /\ q # "sutest" /\ q # "driver"
      BY <1>1, <1>2, <1>3, <1>4, <2>3, Names, JobNames DEF TypeOK
    <3>2. QED BY <1>2, <2>1, <3>1, <1>4, Names, Frame DEF MainInv
  <2>4. QED BY <2>2, <2>3
<1>12. TrapInv'
  <2>1. CASE code["main"] = "trap"
    BY <1>2, <1>3, <2>1 DEF TrapInv, NoShellIsLeft
  <2>2. CASE code["main"] # "trap"
    BY <1>1, <1>2, <1>4, <2>2, Names DEF TypeOK, TrapInv
  <2>3. QED BY <2>1, <2>2
<1>13. QED BY <1>9, <1>10, <1>11, <1>12 DEF IInv

\* WaitFails and StepFails: the ERR trap.
LEMMA EnterTrapIInv ==
  ASSUME IInv, NEW p \in Procs, state[p] = "running", code[p] = "prepare", EnterTrap(p)
  PROVE  IInv'
<1>1. /\ config' = config /\ TypeOK /\ ChildInv /\ DoneInv /\ MainInv /\ TrapInv
      /\ state' = Killed(list[p])
      /\ code' = [code EXCEPT ![p] = "trap"]
      /\ list' = [list EXCEPT ![p] = {}]
      /\ at' = [at EXCEPT ![p] = 1]
      /\ child' = [child EXCEPT ![p] = ChildAt(Cleanup, 1)]
      /\ abandoned' = IF p = "main" THEN LeftBehind(p) ELSE abandoned
      /\ deployed' = deployed /\ succeeded' = succeeded /\ uncleaned' = uncleaned
      /\ failures' = failures
  BY DEF IInv, EnterTrap
<1>2. /\ ChildAt(Cleanup, 1) \in {"none", "running"}
      /\ ChildAt(Cleanup, 1) # "none" => 1 \in DOMAIN Cleanup /\ Cleanup[1].op = "run"
  BY DEF ChildAt
<1>3. /\ state' \in [Procs -> {"idle", "running", "ok", "failed", "killed"}]
      /\ \A q \in Procs : state'[q] = state[q] \/ (state[q] = "running" /\ state'[q] = "killed")
      /\ \A q \in list[p] : state'[q] # "running"
      /\ \A q \in Procs : q \notin list[p] => state'[q] = state[q]
  BY <1>1 DEF TypeOK, Killed
<1>4. TypeOK' /\ ChildInv'
  <2>1. \A r \in Procs :
          /\ at'[r] <= Len(NewSteps(r)) + 1
          /\ child'[r] # "none" => /\ at'[r] \in DOMAIN NewSteps(r)
                                   /\ NewSteps(r)[at'[r]].op = "run"
    <3>1. TAKE r \in Procs
    <3>2. CASE r = p
      <4>1. NewSteps(r) = Cleanup /\ at'[r] = 1 /\ child'[r] = ChildAt(Cleanup, 1)
        BY <1>1, <3>2 DEF TypeOK, NewSteps
      <4>2. QED BY <1>1, <1>2, <4>1, ProgramFacts DEF TypeOK
    <3>3. CASE r # p
      <4>1. NewSteps(r) = Steps(r) /\ at'[r] = at[r] /\ child'[r] = child[r]
        BY <1>1, <3>3 DEF TypeOK, NewSteps, Steps
      <4>2. QED BY <1>1, <4>1, StepsTyped DEF ChildInv, IsAt, Current
    <3>4. QED BY <3>2, <3>3
  <2>2. abandoned' \subseteq Procs
    BY <1>1 DEF TypeOK, LeftBehind
  <2>3. /\ at' \in [Procs -> Nat \ {0}]
        /\ code' \in [Procs -> {"prepare", "trap"}]
        /\ child' \in [Procs -> {"none", "running", "landed", "failed"}]
        /\ list' \in [Procs -> SUBSET Procs]
    <3>1. at' \in [Procs -> Nat \ {0}]
      BY <1>1 DEF TypeOK
    <3>2. code' \in [Procs -> {"prepare", "trap"}]
      BY <1>1 DEF TypeOK
    <3>3. child' \in [Procs -> {"none", "running", "landed", "failed"}]
      BY <1>1, <1>2 DEF TypeOK
    <3>4. list' \in [Procs -> SUBSET Procs]
      BY <1>1 DEF TypeOK
    <3>5. QED BY <3>1, <3>2, <3>3, <3>4
  <2>4. (\A r \in Procs : at[r] <= Len(Steps(r)) + 1)' /\ ChildInv'
    BY <1>1, <2>1, NewStepsFrame
  <2>5. QED BY <1>1, <1>3, <2>2, <2>3, <2>4 DEF TypeOK
<1>5. DoneInv'
  <2>1. \A q \in Procs : q # p => code'[q] = code[q] /\ at'[q] = at[q]
    BY <1>1 DEF TypeOK
  <2>2. code'[p] = "trap" /\ state'[p] # "ok"
    BY <1>1, <1>3 DEF TypeOK
  <2>3. QED BY <1>1, <1>3, <2>1, <2>2, DoneStep DEF DoneInv
<1>6. MainInv'
  <2>1. \A r \in Procs : "main" \notin list'[r]
    BY <1>1 DEF TypeOK, MainInv
  <2>2. state'["main"] = state["main"]
    BY <1>1, <1>3, Names DEF MainInv
  <2>3. CASE p = "main"
    BY <1>1, <2>1, <2>2, <2>3, Frame DEF TypeOK, MainInv
  <2>4. CASE p # "main"
    <3>1. code'["main"] = code["main"] /\ at'["main"] = at["main"] /\ list'["main"] = list["main"]
      BY <1>1, <2>4, Names DEF TypeOK
    <3>2. QED BY <1>1, <1>3, <2>1, <2>2, <3>1, Names, Frame DEF MainInv
  <2>5. QED BY <2>3, <2>4
<1>7. TrapInv'
  <2>1. CASE p = "main"
    <3>1. code'["main"] = "trap" /\ at'["main"] = 1 /\ child'["main"] # "landed"
      BY <1>1, <1>2, <2>1, Names DEF TypeOK
    <3>2. NoShellIsLeft'
      <4>1. state'["sutest"] # "running"
        BY <1>1, <1>3, <2>1, Names DEF TypeOK, MainInv
      <4>2. state'["driver"] # "running"
        BY <1>1, <1>3, <2>1, Names DEF TypeOK, MainInv
      <4>3. QED BY <4>1, <4>2 DEF NoShellIsLeft, Shells
    <3>3. \A q \in Procs \ {"main"} :
            (Active(q) \/ (q \in Jobs /\ state[q] = "running") => q \in abandoned)'
      BY <1>1, <2>1 DEF TypeOK, LeftBehind, Active
    <3>4. \A i \in DOMAIN Cleanup' :
            ~(i < at'["main"] \/ (i = at'["main"] /\ child'["main"] = "landed"))
      BY <1>1, <3>1, Frame, ProgramFacts DEF TypeOK
    <3>5. QED BY <3>2, <3>3, <3>4 DEF TrapInv
  <2>2. CASE p # "main" /\ code["main"] = "trap"
    <3>1. /\ code'["main"] = code["main"] /\ at'["main"] = at["main"]
          /\ child'["main"] = child["main"] /\ abandoned' = abandoned
          /\ \A q \in Procs : q # p => child'[q] = child[q]
      BY <1>1, <2>2, Names DEF TypeOK
    <3>2. \A q \in Procs : state'[q] = "running" => state[q] = "running"
      BY <1>3
    <3>3. \A q \in Procs \ {"main"} : Active(q)' => Active(q) \/ state[q] = "running"
      BY <3>1 DEF Active
    <3>4. QED BY <1>1, <2>2, <3>1, <3>2, <3>3, TrapStep
  <2>3. CASE p # "main" /\ code["main"] # "trap"
    BY <1>1, <2>3, Names DEF TypeOK, TrapInv
  <2>4. QED BY <2>1, <2>2, <2>3
<1>8. QED BY <1>4, <1>5, <1>6, <1>7 DEF IInv

-----------------------------------------------------------------------------
LEMMA NextIInv == IInv /\ [Next]_vars => IInv'
<1> SUFFICES ASSUME IInv, [Next]_vars PROVE IInv'
  OBVIOUS
<1>1. CASE UNCHANGED vars
  <2>1. /\ config' = config /\ state' = state /\ code' = code /\ at' = at
        /\ child' = child /\ list' = list /\ deployed' = deployed
        /\ succeeded' = succeeded /\ uncleaned' = uncleaned
        /\ abandoned' = abandoned /\ failures' = failures
    BY <1>1 DEF vars, control, history
  <2>2. TypeOK' /\ ChildInv'
    BY <2>1, Frame DEF IInv, TypeOK, ChildInv, IsAt, Current, Steps
  <2>3. DoneInv'
    BY <2>1, DoneStep DEF IInv, DoneInv
  <2>4. MainInv'
    BY <2>1, Frame DEF IInv, MainInv
  <2>5. TrapInv'
    BY <2>1, TrapStep, Names DEF IInv, TypeOK, TrapInv, Active
  <2>6. QED BY <2>2, <2>3, <2>4, <2>5 DEF IInv
<1>2. ASSUME NEW p \in Procs, Command(p) PROVE IInv'
  BY <1>2, LandIInv, CommandSucceedsIInv, FailureIInv, CleanupFailsIInv DEF Command
<1>3. ASSUME NEW p \in Procs, Process(p) PROVE IInv'
  <2>1. CASE StepFails(p)
    BY <2>1, EnterTrapIInv DEF StepFails
  <2>2. CASE WaitFails(p)
    <3>1. code[p] = "prepare"
      BY <2>2, ProgramFacts DEF IInv, TypeOK, WaitFails, IsAt, Current, Steps
    <3>2. QED BY <2>2, <3>1, EnterTrapIInv DEF WaitFails
  <2>3. QED
    BY <1>3, <2>1, <2>2, RunInBgIInv, WaitNextIInv, WaitEndsIInv, JobFailsIInv, ExitIInv
    DEF Process
<1>4. QED BY <1>1, <1>2, <1>3 DEF Next

LEMMA Invariance == Spec => []IInv
BY InitIInv, NextIInv, PTL DEF Spec

\* The variables keep their types (test.sh, prepare_common.sh).
THEOREM TypeCorrect == Spec => []TypeOK
<1>1. IInv => TypeOK
  BY DEF IInv
<1>2. QED BY Invariance, <1>1, PTL

\* The preparation (prepare, wait_bg_processes) succeeds only if both shells
\* have, and if all that they and main deploy themselves has been.
THEOREM FailuresAreSeen == Spec => []FailureIsSeen
<1>1. IInv => FailureIsSeen
  <2> SUFFICES ASSUME IInv, state["main"] = "ok",
                      NEW p \in {"main"} \cup Shells
               PROVE  state[p] = "ok" /\ Deploys(p) \subseteq succeeded
    BY DEF FailureIsSeen
  <2>1. TypeOK /\ DoneInv /\ MainInv
    BY DEF IInv
  <2>2. code["main"] = "prepare" /\ at["main"] > 6
    <3>1. code["main"] = "prepare" /\ at["main"] \notin DOMAIN Program("main")
      BY <2>1, Names DEF DoneInv
    <3>2. at["main"] \notin 1..6 /\ at["main"] \in Nat \ {0}
      BY <2>1, <3>1, Names, ProgramFacts, MainSteps DEF TypeOK
    <3>3. QED BY <3>1, <3>2
  <2>3. state[p] = "ok"
    BY <2>1, <2>2, Names DEF MainInv, TypeOK, Shells
  <2>4. \A i \in DOMAIN Program(p) : i < at[p]
    BY <2>1, <2>3, ProgramFacts, Names DEF DoneInv, TypeOK, Shells, Steps
  <2>5. Deploys(p) \subseteq succeeded
    BY <2>1, <2>3, <2>4, Names DEF DoneInv, Deploys, Shells
  <2>6. QED BY <2>3, <2>5
<1>2. QED BY Invariance, <1>1, PTL

\* Once main runs the ERR trap of prepare_ci, neither shell is running.
THEOREM NoShellGoesOn == Spec => []NoShellIsLeft
<1>1. IInv => NoShellIsLeft
  BY DEF IInv, TrapInv, NoShellIsLeft
<1>2. QED BY Invariance, <1>1, PTL

\* When the preparation has failed, what the clean-up removes is left only by a
\* process that kill_bg_processes has abandoned, or by a clean-up that failed.
THEOREM CleanupCleans == Spec => []CleanUnlessAbandoned
<1>1. IInv => CleanUnlessAbandoned
  <2> SUFFICES ASSUME IInv, state["main"] = "failed",
                      NEW r \in deployed \cap Undoable
               PROVE  r \in uncleaned \/ \E p \in abandoned : r \in Deploys(p)
    BY DEF CleanUnlessAbandoned
  <2>1. TypeOK /\ MainInv /\ TrapInv
    BY DEF IInv
  <2>2. PICK i \in DOMAIN Cleanup : r \in Cleanup[i].arg
    BY DEF Undoable
  <2>3. code["main"] = "trap" /\ i < at["main"]
    <3>1. code["main"] = "trap" /\ at["main"] \notin DOMAIN Cleanup
      BY <2>1 DEF MainInv, Steps
    <3>2. Len(Cleanup) \in Nat /\ DOMAIN Cleanup = 1..Len(Cleanup)
      BY <2>1, ProgramFacts DEF TypeOK
    <3>3. at["main"] \in Nat \ {0} /\ i \in 1..Len(Cleanup)
      BY <2>1, <2>2, <3>2, Names DEF TypeOK
    <3>4. QED BY <3>1, <3>2, <3>3, SMT
  <2>4. QED BY <2>1, <2>2, <2>3 DEF TrapInv
<1>2. QED BY Invariance, <1>1, PTL

-----------------------------------------------------------------------------
(* The Locust scale test: the sessions, then the workers that share the    *)
(* users out.                                                              *)

\* One session: what it has of its workbench, how often its end was tried, and
\* what it has recorded.
SessionOf(u) ==
  /\ pc[u] \in {"none", "connect", "project", "create", "start", "wait"}
       => obj[u] = "none" /\ refused[u] = 0
  /\ pc[u] \in {"login", "access", "finally"} => obj[u] = "running" /\ refused[u] = 0
  /\ pc[u] \in {"again", "on_stop"} /\ obj[u] = "running" => refused[u] = 1
  /\ pc[u] = "done" /\ obj[u] = "running" => refused[u] = 2
  /\ obj[u] = "stopped" => wb[u] = "stopped"
  /\ pc[u] \notin {"finally", "on_stop", "done", "lost"} => killed[u] = "no"
  /\ pc[u] = "access" => "login" \in csv[u]
  /\ /\ pc[u] \in {"finally", "again", "on_stop", "done"}
     /\ killed[u] \in {"no", "finally", "again"}
     => "error" \in csv[u] \/ "login" \in csv[u]
SessionInv == \A u \in Users : SessionOf(u)

Untouched(u) ==
  /\ wb'[u] = wb[u] /\ pc'[u] = pc[u] /\ obj'[u] = obj[u]
  /\ killed'[u] = killed[u] /\ refused'[u] = refused[u] /\ csv'[u] = csv[u]

\* The indexes of a worker come with the one message it gets.
WorkersInv ==
  /\ \A i, j \in DOMAIN clients : clients[i] = clients[j] => i = j
  /\ ~started => \A w \in Workers : inbox[w] = <<>> /\ ~ready_[w]
  /\ \A w \in Workers :
       /\ inbox[w] = <<>> \/ \E S \in SUBSET Users : inbox[w] = <<S>>
       /\ ready_[w] => inbox[w] = <<>>
       /\ ~ready_[w] => indexes[w] = {} /\ \A u \in Users : on[u] # w

\* A user nobody has taken has no session.
IdleInv == \A u \in Users : on[u] = Leader => pc[u] = "none"

LocustInv ==
  LocustTypeOK /\ SessionInv /\ WorkersInv /\ IdleInv /\ OneSessionPerUser

-----------------------------------------------------------------------------
Places == InTheTask \cup {"none", "on_stop", "done", "lost"}

\* What the end of a step leaves: the place of one session has changed, and
\* the locals have their types.
LEMMA LeaveKeeps ==
  ASSUME SessionTypeOK, NEW u \in Users, NEW where \in Places, Leave(u, where)
  PROVE  /\ pc' \in [Users -> Places] /\ pc'[u] = where
         /\ \A v \in Users \ {u} : pc'[v] = pc[v]
         /\ route' \in [Users -> {"none", "absent", "host"}]
         /\ ready' \in [Users -> BOOLEAN]
         /\ tries' \in [Users -> 1 .. MaxRetries]
         /\ failed' \in [Users -> BOOLEAN]
<1>1. 1 \in 1 .. MaxRetries
  BY SessionAssumption
<1>2. pc' = [pc EXCEPT ![u] = where] /\ pc \in [Users -> Places]
  BY DEF Leave, SessionTypeOK, Places
<1>3. route' \in [Users -> {"none", "absent", "host"}]
  BY DEF Leave, SessionTypeOK
<1>4. ready' \in [Users -> BOOLEAN] /\ failed' \in [Users -> BOOLEAN]
  BY DEF Leave, SessionTypeOK
<1>5. tries' \in [Users -> 1 .. MaxRetries]
  BY <1>1 DEF Leave, SessionTypeOK
<1>6. QED BY <1>2, <1>3, <1>4, <1>5

\* An entry is written for a step that fails, and for the last two steps.
LEMMA RecordKeeps ==
  ASSUME SessionTypeOK, NEW u \in Users, NEW exception, Record(u, exception)
  PROVE  /\ csv' \in [Users -> SUBSET {"error", "login", "access"}]
         /\ csv[u] \subseteq csv'[u]
         /\ exception = "ScaleTestError" => "error" \in csv'[u]
         /\ exception # "ScaleTestError" /\ pc[u] = "login" => "login" \in csv'[u]
         /\ \A v \in Users \ {u} : csv'[v] = csv[v]
<1> DEFINE entries == IF exception = "ScaleTestError" THEN {"error"}
                      ELSE {pc[u]} \cap {"login", "access"}
<1>1. csv' = [csv EXCEPT ![u] = csv[u] \cup entries]
  BY DEF Record
<1>2. entries \subseteq {"error", "login", "access"}
  OBVIOUS
<1>3. exception = "ScaleTestError" => "error" \in entries
  OBVIOUS
<1>4. exception # "ScaleTestError" /\ pc[u] = "login" => "login" \in entries
  OBVIOUS
<1> HIDE DEF entries
<1>5. QED BY <1>1, <1>2, <1>3, <1>4 DEF SessionTypeOK

\* A step that passes, or that fails, changes one session.
LEMMA PassesKeeps ==
  ASSUME SessionTypeOK, NEW u \in Users, NEW next \in Places, Passes(u, next),
         UNCHANGED <<cluster, obj, killed, refused>>
  PROVE  /\ SessionTypeOK'
         /\ \A v \in Users \ {u} : Untouched(v)
         /\ pc'[u] = next /\ csv[u] \subseteq csv'[u]
         /\ pc[u] = "login" => "login" \in csv'[u]
<1>1. Record(u, "None") /\ Leave(u, next)
  BY DEF Passes
<1>2. QED
  BY <1>1, LeaveKeeps, RecordKeeps DEF SessionTypeOK, Untouched, Places, cluster

LEMMA FailsKeeps ==
  ASSUME SessionTypeOK, NEW u \in Users, Fails(u), UNCHANGED <<routeUp, obj, killed, refused>>,
         NEW after \in {"absent", "running", "stopped"}, wb' = [wb EXCEPT ![u] = after]
  PROVE  /\ SessionTypeOK'
         /\ \A v \in Users \ {u} : Untouched(v)
         /\ pc'[u] = IF obj[u] # "none" THEN "finally" ELSE "again"
         /\ "error" \in csv'[u]
<1> DEFINE where == IF obj[u] # "none" THEN "finally" ELSE "again"
<1>1. Record(u, "ScaleTestError") /\ Leave(u, where)
  BY DEF Fails
<1>2. where \in Places
  BY DEF Places, InTheTask
<1>3. pc'[u] = where
  BY <1>1, <1>2, LeaveKeeps
<1>4. wb' \in [Users -> {"absent", "running", "stopped"}] /\ \A v \in Users \ {u} : wb'[v] = wb[v]
  BY DEF SessionTypeOK
<1> HIDE DEF where
<1>5. SessionTypeOK' /\ \A v \in Users \ {u} : Untouched(v)
  BY <1>1, <1>2, <1>4, LeaveKeeps, RecordKeeps DEF SessionTypeOK, Untouched, Places
<1>6. "error" \in csv'[u]
  BY <1>1, RecordKeeps
<1>7. QED BY <1>3, <1>5, <1>6 DEF where

LEMMA SameWorkbench ==
  ASSUME SessionTypeOK, NEW u \in Users
  PROVE  wb[u] \in {"absent", "running", "stopped"} /\ wb = [wb EXCEPT ![u] = wb[u]]
BY DEF SessionTypeOK

\* A step that changes one session keeps what it keeps of that session.
LEMMA OneSession ==
  ASSUME SessionInv, NEW u \in Users, \A v \in Users \ {u} : Untouched(v), SessionOf(u)'
  PROVE  SessionInv'
<1> SUFFICES ASSUME NEW v \in Users
             PROVE  SessionOf(v)'
  BY DEF SessionInv
<1>1. CASE v = u
  BY <1>1
<1>2. CASE v # u
  <2>1. Untouched(v) /\ SessionOf(v)
    BY <1>2 DEF SessionInv
  <2>2. QED BY <2>1 DEF Untouched, SessionOf
<1>3. QED BY <1>1, <1>2

-----------------------------------------------------------------------------
\* What a step of a session keeps.
Kept(u) == SessionTypeOK' /\ SessionInv' /\ \A v \in Users \ {u} : Untouched(v)

LEMMA FailsInv ==
  ASSUME SessionTypeOK, SessionInv, NEW u \in Users,
         pc[u] \in {"connect", "project", "create", "start", "wait", "login", "access"},
         Fails(u), UNCHANGED <<routeUp, obj, killed, refused>>,
         NEW after \in {"absent", "running", "stopped"}, wb' = [wb EXCEPT ![u] = after]
  PROVE  Kept(u)
<1>1. SessionOf(u)
  BY DEF SessionInv
<1>2. /\ SessionTypeOK' /\ \A v \in Users \ {u} : Untouched(v)
      /\ pc'[u] = (IF obj[u] # "none" THEN "finally" ELSE "again")
      /\ "error" \in csv'[u]
  BY FailsKeeps
<1>3. obj'[u] = obj[u] /\ killed'[u] = killed[u] /\ refused'[u] = refused[u]
  OBVIOUS
<1>4. obj[u] \in {"none", "running"}
  BY <1>1 DEF SessionOf
<1>5. SessionOf(u)'
  BY <1>1, <1>2, <1>3, <1>4 DEF SessionOf
<1>6. QED BY <1>2, <1>5, OneSession DEF Kept

LEMMA ConnectInv ==
  ASSUME SessionTypeOK, SessionInv, NEW u \in Users, ConnectToTheDashboard(u)
  PROVE  Kept(u)
<1>1. pc[u] = "connect" /\ UNCHANGED <<cluster, obj, killed, refused>>
  BY DEF ConnectToTheDashboard
<1>2. Passes(u, "project") \/ Fails(u)
  BY DEF ConnectToTheDashboard
<1>3. CASE Passes(u, "project")
  <2>1. SessionOf(u)
    BY DEF SessionInv
  <2>2. "project" \in Places
    BY DEF Places, InTheTask
  <2>3. /\ SessionTypeOK' /\ \A v \in Users \ {u} : Untouched(v)
        /\ pc'[u] = "project"
    BY <1>1, <1>3, <2>2, PassesKeeps
  <2>4. SessionOf(u)'
    BY <1>1, <2>1, <2>3 DEF SessionOf, cluster
  <2>5. QED BY <2>3, <2>4, OneSession DEF Kept
<1>4. CASE Fails(u)
  BY <1>1, <1>4, SameWorkbench, FailsInv DEF cluster
<1>5. QED BY <1>2, <1>3, <1>4

LEMMA ProjectInv ==
  ASSUME SessionTypeOK, SessionInv, NEW u \in Users, GoToTheProjectPage(u)
  PROVE  Kept(u)
<1>1. pc[u] = "project" /\ UNCHANGED <<cluster, obj, killed, refused>>
  BY DEF GoToTheProjectPage
<1>2. Passes(u, "create") \/ Fails(u)
  BY DEF GoToTheProjectPage
<1>3. CASE Passes(u, "create")
  <2>1. SessionOf(u)
    BY DEF SessionInv
  <2>2. "create" \in Places
    BY DEF Places, InTheTask
  <2>3. /\ SessionTypeOK' /\ \A v \in Users \ {u} : Untouched(v)
        /\ pc'[u] = "create"
    BY <1>1, <1>3, <2>2, PassesKeeps
  <2>4. SessionOf(u)'
    BY <1>1, <2>1, <2>3 DEF SessionOf, cluster
  <2>5. QED BY <2>3, <2>4, OneSession DEF Kept
<1>4. CASE Fails(u)
  BY <1>1, <1>4, SameWorkbench, FailsInv DEF cluster
<1>5. QED BY <1>2, <1>3, <1>4

\* A request leaves a workbench in one of its states.
LEMMA EffectTypes ==
  \A where, after : Effect(where, after) \in {"running", "stopped"}
BY DEF Effect

LEMMA MaybeEffectKeeps ==
  ASSUME SessionTypeOK, NEW u \in Users, MaybeEffect(u)
  PROVE  \E after \in {wb[u], Effect(pc[u], wb[u])} :
           after \in {"absent", "running", "stopped"} /\ wb' = [wb EXCEPT ![u] = after]
BY EffectTypes, SameWorkbench DEF MaybeEffect

LEMMA CreateInv ==
  ASSUME SessionTypeOK, SessionInv, NEW u \in Users, CreateOrStart(u)
  PROVE  Kept(u)
<1>1. pc[u] \in {"create", "start"} /\ UNCHANGED <<routeUp, obj, killed, refused>>
  BY DEF CreateOrStart
<1>2. SessionOf(u)
  BY DEF SessionInv
<1>3. ASSUME MaybeEffect(u), Fails(u)
      PROVE  Kept(u)
  BY <1>1, <1>3, MaybeEffectKeeps, FailsInv
<1>4. ASSUME wb' = [wb EXCEPT ![u] = Effect(pc[u], wb[u])],
             Leave(u, IF wb'[u] = "stopped" THEN "start" ELSE "wait"), UNCHANGED csv
      PROVE  Kept(u)
  <2> DEFINE where == IF wb'[u] = "stopped" THEN "start" ELSE "wait"
  <2>1. where \in {"start", "wait"} /\ where \in Places
    BY DEF Places, InTheTask
  <2>2. Leave(u, where)
    BY <1>4
  <2> HIDE DEF where
  <2>3. wb' \in [Users -> {"absent", "running", "stopped"}] /\ \A v \in Users \ {u} : wb'[v] = wb[v]
    BY <1>4, EffectTypes DEF SessionTypeOK
  <2>4. SessionTypeOK' /\ \A v \in Users \ {u} : Untouched(v)
    BY <1>1, <1>4, <2>1, <2>2, <2>3, LeaveKeeps DEF SessionTypeOK, Untouched, Places
  <2>5. pc'[u] = where
    BY <2>1, <2>2, LeaveKeeps
  <2>6. SessionOf(u)'
    BY <1>1, <1>2, <2>1, <2>5 DEF SessionOf
  <2>7. QED BY <2>4, <2>6, OneSession DEF Kept
<1>5. QED BY <1>3, <1>4 DEF CreateOrStart

\* create_and_start_the_workbench has returned.
LEMMA ReturnsInv ==
  ASSUME SessionTypeOK, SessionInv, NEW u \in Users, pc[u] = "wait", Returns(u),
         route' \in [Users -> {"none", "absent", "host"}], ready' \in [Users -> BOOLEAN],
         UNCHANGED <<cluster, tries, failed, killed, refused, csv>>
  PROVE  Kept(u)
<1>1. SessionOf(u)
  BY DEF SessionInv
<1>2. pc' = [pc EXCEPT ![u] = "login"] /\ obj' = [obj EXCEPT ![u] = "running"]
  BY DEF Returns
<1>3. /\ pc'[u] = "login" /\ obj'[u] = "running"
      /\ \A v \in Users \ {u} : pc'[v] = pc[v] /\ obj'[v] = obj[v]
  BY <1>2 DEF SessionTypeOK
<1>4. SessionTypeOK'
  BY <1>2 DEF SessionTypeOK, InTheTask, cluster
<1>5. \A v \in Users \ {u} : Untouched(v)
  BY <1>3 DEF Untouched, cluster
<1>6. SessionOf(u)'
  BY <1>1, <1>3 DEF SessionOf, cluster
<1>7. QED BY <1>4, <1>5, <1>6, OneSession DEF Kept

LEMMA PollInv ==
  ASSUME SessionTypeOK, SessionInv, NEW u \in Users, Poll(u)
  PROVE  Kept(u)
<1> DEFINE seen == IF route[u] # "none" THEN route[u]
                   ELSE IF routeUp[u] THEN "host" ELSE "absent"
<1>1. PICK up \in {TRUE, ready[u]} :
        /\ pc[u] = "wait"
        /\ route' = [route EXCEPT ![u] = seen]
        /\ IF up /\ seen = "host"
           THEN Returns(u) /\ ready' = [ready EXCEPT ![u] = FALSE]
           ELSE UNCHANGED <<pc, obj>> /\ ready' = [ready EXCEPT ![u] = up]
        /\ UNCHANGED <<cluster, tries, failed, killed, refused, csv>>
  BY DEF Poll
<1>2. seen \in {"absent", "host"}
  BY DEF SessionTypeOK
<1> HIDE DEF seen
<1>3. route' \in [Users -> {"none", "absent", "host"}]
  BY <1>1, <1>2 DEF SessionTypeOK
<1>4. ready' \in [Users -> BOOLEAN]
  <2>1. ready[u] \in BOOLEAN
    BY DEF SessionTypeOK
  <2>2. up \in BOOLEAN
    BY <2>1
  <2>3. ready' = [ready EXCEPT ![u] = FALSE] \/ ready' = [ready EXCEPT ![u] = up]
    BY <1>1
  <2>4. ready \in [Users -> BOOLEAN] /\ FALSE \in BOOLEAN
    BY DEF SessionTypeOK
  <2>5. QED BY <2>2, <2>3, <2>4
<1>5. CASE up /\ seen = "host"
  BY <1>1, <1>3, <1>4, <1>5, ReturnsInv
<1>6. CASE ~(up /\ seen = "host")
  <2>1. UNCHANGED <<cluster, pc, obj, tries, failed, killed, refused, csv>>
    BY <1>1, <1>6
  <2>2. SessionTypeOK'
    BY <1>3, <1>4, <2>1 DEF SessionTypeOK, cluster
  <2>3. SessionInv' /\ \A v \in Users : Untouched(v)
    BY <2>1 DEF SessionInv, SessionOf, Untouched, cluster
  <2>4. QED BY <2>2, <2>3 DEF Kept
<1>7. QED BY <1>5, <1>6

LEMMA WaitTimesOutInv ==
  ASSUME SessionTypeOK, SessionInv, NEW u \in Users, WaitTimesOut(u)
  PROVE  Kept(u)
<1>1. ready' \in [Users -> BOOLEAN] /\ route' \in [Users -> {"none", "absent", "host"}]
  BY DEF WaitTimesOut, SessionTypeOK
<1>2. QED BY <1>1, ReturnsInv DEF WaitTimesOut

LEMMA PollFailsInv ==
  ASSUME SessionTypeOK, SessionInv, NEW u \in Users, PollFails(u)
  PROVE  Kept(u)
BY SameWorkbench, FailsInv DEF PollFails, cluster

\* The pages of JupyterLab: one more try.
LEMMA TriesInv ==
  ASSUME SessionTypeOK, SessionInv, NEW u \in Users, tries[u] < MaxRetries,
         tries' = [tries EXCEPT ![u] = @ + 1], failed' \in [Users -> BOOLEAN],
         UNCHANGED <<cluster, pc, route, ready, obj, killed, refused, csv>>
  PROVE  Kept(u)
<1>1. tries' \in [Users -> 1 .. MaxRetries]
  BY SessionAssumption DEF SessionTypeOK
<1>2. SessionTypeOK'
  BY <1>1 DEF SessionTypeOK, cluster
<1>3. SessionInv' /\ \A v \in Users : Untouched(v)
  BY DEF SessionInv, SessionOf, Untouched, cluster
<1>4. QED BY <1>2, <1>3 DEF Kept

\* A page of JupyterLab that has answered.
LEMMA LastPassesInv ==
  ASSUME SessionTypeOK, SessionInv, NEW u \in Users,
         NEW next \in {"access", "finally"},
         pc[u] = "login" \/ (pc[u] = "access" /\ next = "finally"),
         Passes(u, next), UNCHANGED <<cluster, obj, killed, refused>>
  PROVE  Kept(u)
<1>1. SessionOf(u)
  BY DEF SessionInv
<1>2. next \in Places
  BY DEF Places, InTheTask
<1>3. /\ SessionTypeOK' /\ \A v \in Users \ {u} : Untouched(v)
      /\ pc'[u] = next /\ csv[u] \subseteq csv'[u]
      /\ pc[u] = "login" => "login" \in csv'[u]
  BY <1>2, PassesKeeps
<1>4. "login" \in csv'[u]
  BY <1>1, <1>3 DEF SessionOf
<1>5. obj'[u] = obj[u] /\ killed'[u] = killed[u] /\ refused'[u] = refused[u] /\ wb'[u] = wb[u]
  BY DEF cluster
<1>6. SessionOf(u)'
  BY <1>1, <1>3, <1>4, <1>5 DEF SessionOf
<1>7. QED BY <1>3, <1>6, OneSession DEF Kept

LEMMA LoginInv ==
  ASSUME SessionTypeOK, SessionInv, NEW u \in Users, LoginToJupyterlab(u)
  PROVE  Kept(u)
<1>1. pc[u] = "login" /\ UNCHANGED <<cluster, obj, killed, refused>>
  BY DEF LoginToJupyterlab
<1>2. tries[u] \in 1 .. MaxRetries
  BY DEF SessionTypeOK
<1>3. \/ /\ tries[u] < MaxRetries
         /\ failed' = [failed EXCEPT ![u] = TRUE]
         /\ tries' = [tries EXCEPT ![u] = @ + 1]
         /\ UNCHANGED <<pc, route, ready, csv>>
      \/ Fails(u) \/ Passes(u, "finally") \/ Passes(u, "access")
  BY DEF LoginToJupyterlab
<1>4. ASSUME tries[u] < MaxRetries,
             failed' = [failed EXCEPT ![u] = TRUE], tries' = [tries EXCEPT ![u] = @ + 1],
             UNCHANGED <<pc, route, ready, csv>>
      PROVE  Kept(u)
  <2>1. failed' \in [Users -> BOOLEAN]
    BY <1>4 DEF SessionTypeOK
  <2>2. QED BY <1>1, <1>4, <2>1, TriesInv
<1>5. CASE Fails(u)
  BY <1>1, <1>5, SameWorkbench, FailsInv DEF cluster
<1>6. CASE Passes(u, "finally") \/ Passes(u, "access")
  BY <1>1, <1>6, LastPassesInv
<1>7. QED BY <1>3, <1>4, <1>5, <1>6

LEMMA GetPageInv ==
  ASSUME SessionTypeOK, SessionInv, NEW u \in Users, GetJupyterlabPage(u)
  PROVE  Kept(u)
<1>1. pc[u] = "access" /\ UNCHANGED <<cluster, obj, killed, refused>>
  BY DEF GetJupyterlabPage
<1>2. \/ /\ tries[u] < MaxRetries
         /\ tries' = [tries EXCEPT ![u] = @ + 1]
         /\ UNCHANGED <<pc, route, ready, failed, csv>>
      \/ Fails(u) \/ Passes(u, "finally")
  BY DEF GetJupyterlabPage
<1>3. ASSUME tries[u] < MaxRetries, tries' = [tries EXCEPT ![u] = @ + 1],
             UNCHANGED <<pc, route, ready, failed, csv>>
      PROVE  Kept(u)
  <2>1. failed' \in [Users -> BOOLEAN]
    BY <1>3 DEF SessionTypeOK
  <2>2. QED BY <1>1, <1>3, <2>1, TriesInv
<1>4. CASE Fails(u)
  BY <1>1, <1>4, SameWorkbench, FailsInv DEF cluster
<1>5. CASE Passes(u, "finally")
  BY <1>1, <1>5, LastPassesInv
<1>6. QED BY <1>2, <1>3, <1>4, <1>5

\* stop(): the workbench is stopped, or one more request got no usable answer.
LEMMA StopKeeps ==
  ASSUME SessionTypeOK, NEW u \in Users, Stop(u), refused[u] < 2 \/ obj[u] # "running"
  PROVE  /\ wb' \in [Users -> {"absent", "running", "stopped"}]
         /\ obj' \in [Users -> {"none", "running", "stopped"}]
         /\ refused' \in [Users -> 0 .. 2]
         /\ \A v \in Users \ {u} : wb'[v] = wb[v] /\ obj'[v] = obj[v] /\ refused'[v] = refused[v]
         /\ \/ obj[u] # "running" /\ UNCHANGED <<wb, obj, refused>>
            \/ obj[u] = "running" /\ wb'[u] = "stopped" /\ obj'[u] = "stopped"
            \/ obj[u] = "running" /\ obj'[u] = "running" /\ refused'[u] = refused[u] + 1
<1>1. CASE obj[u] # "running"
  BY <1>1 DEF Stop, SessionTypeOK
<1>2. ASSUME obj[u] = "running", wb' = [wb EXCEPT ![u] = "stopped"],
             obj' = [obj EXCEPT ![u] = "stopped"], UNCHANGED refused
      PROVE  /\ wb' \in [Users -> {"absent", "running", "stopped"}]
             /\ obj' \in [Users -> {"none", "running", "stopped"}]
             /\ refused' \in [Users -> 0 .. 2]
             /\ \A v \in Users \ {u} :
                  wb'[v] = wb[v] /\ obj'[v] = obj[v] /\ refused'[v] = refused[v]
             /\ obj[u] = "running" /\ wb'[u] = "stopped" /\ obj'[u] = "stopped"
  BY <1>2 DEF SessionTypeOK
<1>3. ASSUME obj[u] = "running", MaybeEffect(u),
             refused' = [refused EXCEPT ![u] = @ + 1], UNCHANGED obj
      PROVE  /\ wb' \in [Users -> {"absent", "running", "stopped"}]
             /\ obj' \in [Users -> {"none", "running", "stopped"}]
             /\ refused' \in [Users -> 0 .. 2]
             /\ \A v \in Users \ {u} :
                  wb'[v] = wb[v] /\ obj'[v] = obj[v] /\ refused'[v] = refused[v]
             /\ obj[u] = "running" /\ obj'[u] = "running" /\ refused'[u] = refused[u] + 1
  <2>1. PICK after \in {"absent", "running", "stopped"} : wb' = [wb EXCEPT ![u] = after]
    BY <1>3, MaybeEffectKeeps
  <2>2. refused[u] + 1 \in 0 .. 2
    BY <1>3 DEF SessionTypeOK
  <2>3. QED BY <1>3, <2>1, <2>2 DEF SessionTypeOK
<1>4. QED BY <1>1, <1>2, <1>3 DEF Stop

LEMMA FinallyInv ==
  ASSUME SessionTypeOK, SessionInv, NEW u \in Users, Finally(u)
  PROVE  Kept(u)
<1> DEFINE where == IF killed[u] = "no" THEN "again" ELSE "on_stop"
<1>1. /\ pc[u] = "finally" /\ Stop(u) /\ Leave(u, where)
      /\ UNCHANGED <<routeUp, killed, csv>>
  BY DEF Finally
<1>2. SessionOf(u)
  BY DEF SessionInv
<1>3. where \in Places /\ where \in {"again", "on_stop"} /\ (killed[u] # "no" => where = "on_stop")
  BY DEF Places, InTheTask
<1> HIDE DEF where
<1>4. obj[u] = "running" /\ refused[u] = 0
  BY <1>1, <1>2 DEF SessionOf
<1>5. pc'[u] = where
  BY <1>1, <1>3, LeaveKeeps
<1>6. SessionTypeOK' /\ \A v \in Users \ {u} : Untouched(v)
  BY <1>1, <1>3, <1>4, StopKeeps, LeaveKeeps DEF SessionTypeOK, Untouched, Places
<1>7. \/ wb'[u] = "stopped" /\ obj'[u] = "stopped"
      \/ obj'[u] = "running" /\ refused'[u] = 1
  BY <1>1, <1>4, StopKeeps
<1>8. SessionOf(u)'
  BY <1>1, <1>2, <1>3, <1>5, <1>7 DEF SessionOf
<1>9. QED BY <1>6, <1>8, OneSession DEF Kept

LEMMA OnStopInv ==
  ASSUME SessionTypeOK, SessionInv, NEW u \in Users, OnStop(u)
  PROVE  Kept(u)
<1>1. pc[u] = "on_stop" /\ Stop(u) /\ Leave(u, "done") /\ UNCHANGED <<routeUp, killed, csv>>
  BY DEF OnStop
<1>2. SessionOf(u)
  BY DEF SessionInv
<1>3. "done" \in Places
  BY DEF Places
<1>4. obj[u] = "running" => refused[u] = 1
  BY <1>1, <1>2 DEF SessionOf
<1>5. pc'[u] = "done"
  BY <1>1, <1>3, LeaveKeeps
<1>6. SessionTypeOK' /\ \A v \in Users \ {u} : Untouched(v)
  BY <1>1, <1>3, <1>4, StopKeeps, LeaveKeeps DEF SessionTypeOK, Untouched, Places
<1>7. \/ obj[u] # "running" /\ UNCHANGED <<wb, obj, refused>>
      \/ wb'[u] = "stopped" /\ obj'[u] = "stopped"
      \/ obj'[u] = "running" /\ refused'[u] = 2
  BY <1>1, <1>4, StopKeeps
<1>8. SessionOf(u)'
  BY <1>1, <1>2, <1>5, <1>7 DEF SessionOf
<1>9. QED BY <1>6, <1>8, OneSession DEF Kept

LEMMA SessionStepInv ==
  ASSUME SessionTypeOK, SessionInv, NEW u \in Users, SessionStep(u)
  PROVE  Kept(u)
BY ConnectInv, ProjectInv, CreateInv, PollInv, WaitTimesOutInv, PollFailsInv, LoginInv,
   GetPageInv, FinallyInv, OnStopInv DEF SessionStep

LEMMA KillSessionInv ==
  ASSUME SessionTypeOK, SessionInv, NEW u \in Users, KillSession(u)
  PROVE  Kept(u)
<1> DEFINE where == IF pc[u] \in {"login", "access"} THEN "finally" ELSE "on_stop"
<1>1. /\ pc[u] \in InTheTask /\ killed[u] = "no" /\ killed' = [killed EXCEPT ![u] = pc[u]]
      /\ Record(u, "") /\ Leave(u, where) /\ UNCHANGED <<routeUp, obj>>
  BY DEF KillSession
<1>2. IF pc[u] = "finally" /\ obj[u] = "running"
      THEN MaybeEffect(u) /\ refused' = [refused EXCEPT ![u] = @ + 1]
      ELSE /\ IF pc[u] \in {"create", "start"} THEN MaybeEffect(u) ELSE UNCHANGED wb
           /\ UNCHANGED refused
  BY DEF KillSession
<1>3. where \in Places /\ where \in {"finally", "on_stop"}
      /\ (pc[u] \in {"login", "access"} <=> where = "finally")
  BY DEF Places, InTheTask
<1> HIDE DEF where
<1>4. SessionOf(u)
  BY DEF SessionInv
<1>5. \E after \in {"absent", "running", "stopped"} : wb' = [wb EXCEPT ![u] = after]
  <2>1. MaybeEffect(u) \/ UNCHANGED wb
    BY <1>2
  <2>2. QED BY <2>1, MaybeEffectKeeps, SameWorkbench
<1>6. wb' \in [Users -> {"absent", "running", "stopped"}] /\ \A v \in Users \ {u} : wb'[v] = wb[v]
  BY <1>5 DEF SessionTypeOK
<1>7. /\ refused' \in [Users -> 0 .. 2] /\ \A v \in Users \ {u} : refused'[v] = refused[v]
      /\ refused'[u] = IF pc[u] = "finally" THEN 1 ELSE refused[u]
  <2>1. CASE pc[u] = "finally"
    <3>1. obj[u] = "running" /\ refused[u] = 0
      BY <1>4, <2>1 DEF SessionOf
    <3>2. refused' = [refused EXCEPT ![u] = 1]
      BY <1>2, <2>1, <3>1
    <3>3. QED BY <2>1, <3>2 DEF SessionTypeOK
  <2>2. CASE pc[u] # "finally"
    BY <1>2, <2>2 DEF SessionTypeOK
  <2>3. QED BY <2>1, <2>2
<1>8. /\ killed' \in [Users -> InTheTask \cup {"no"}] /\ killed'[u] = pc[u]
      /\ \A v \in Users \ {u} : killed'[v] = killed[v]
  BY <1>1 DEF SessionTypeOK
<1>9. SessionTypeOK' /\ \A v \in Users \ {u} : Untouched(v)
  BY <1>1, <1>3, <1>6, <1>7, <1>8, LeaveKeeps, RecordKeeps DEF SessionTypeOK, Untouched, Places
<1>10. pc'[u] = where /\ obj'[u] = obj[u] /\ csv[u] \subseteq csv'[u]
  BY <1>1, <1>3, LeaveKeeps, RecordKeeps
<1>11. obj[u] = "stopped" => wb'[u] = "stopped"
  <2>1. obj[u] = "stopped" => pc[u] \notin {"create", "start", "finally"}
    BY <1>4 DEF SessionOf
  <2>2. obj[u] = "stopped" => UNCHANGED wb
    BY <1>2, <2>1
  <2>3. QED BY <1>4, <2>2 DEF SessionOf
<1>12. SessionOf(u)'
  <2>1. where = "finally" => obj[u] = "running" /\ refused'[u] = 0
    BY <1>3, <1>4, <1>7 DEF SessionOf
  <2>2. where = "on_stop" /\ obj[u] = "running" => refused'[u] = 1
    <3>1. where = "on_stop" /\ obj[u] = "running" => pc[u] \in {"finally", "again"}
      BY <1>1, <1>3, <1>4 DEF SessionOf, InTheTask
    <3>2. QED BY <1>4, <1>7, <3>1 DEF SessionOf
  <2>3. pc[u] \in {"finally", "again"} => "error" \in csv'[u] \/ "login" \in csv'[u]
    BY <1>1, <1>4, <1>10 DEF SessionOf
  <2>4. pc[u] # "no"
    BY <1>1 DEF InTheTask
  <2>5. QED BY <1>3, <1>8, <1>10, <1>11, <2>1, <2>2, <2>3, <2>4 DEF SessionOf
<1>13. QED BY <1>9, <1>12, OneSession DEF Kept

LEMMA RouteAppearsInv ==
  ASSUME SessionTypeOK, SessionInv, NEW u \in Users, RouteAppears(u)
  PROVE  Kept(u)
<1>1. routeUp' \in [Users -> BOOLEAN]
  BY DEF RouteAppears, SessionTypeOK
<1>2. UNCHANGED <<wb, pc, obj, locals, killed, refused, csv>>
  BY DEF RouteAppears
<1>3. SessionTypeOK'
  BY <1>1, <1>2 DEF SessionTypeOK, locals
<1>4. SessionInv' /\ \A v \in Users : Untouched(v)
  BY <1>2 DEF SessionInv, SessionOf, Untouched
<1>5. QED BY <1>3, <1>4 DEF Kept

-----------------------------------------------------------------------------
\* The slices of the list of the users have no user in common.
LEMMA ChunkSizeIsNat ==
  ASSUME NEW n \in Nat, NEW m \in Nat \ {0}
  PROVE  ChunkSize(n, m) \in Nat
<1>1. n + m - 1 \in Nat
  OBVIOUS
<1>2. QED BY <1>1 DEF ChunkSize

LEMMA ChunksInOrder ==
  ASSUME NEW n \in Nat, NEW m \in Nat \ {0}, NEW i \in 0 .. m - 1, NEW j \in 0 .. m - 1, i < j
  PROVE  Chunk(n, m, i) \cap Chunk(n, m, j) = {}
<1> DEFINE c == ChunkSize(n, m)
<1>1. c \in Nat
  BY ChunkSizeIsNat
<1>2. SUFFICES ASSUME NEW u \in Chunk(n, m, i), u \in Chunk(n, m, j)
               PROVE  FALSE
  OBVIOUS
<1>3. i + 1 < m /\ u < i * c + c /\ j * c <= u /\ u \in Int
  BY <1>2 DEF Chunk
<1> HIDE DEF c
<1>4. PICK k \in Nat : j = i + 1 + k
  <2>1. j - i - 1 \in Nat /\ j = i + 1 + (j - i - 1)
    OBVIOUS
  <2>2. QED BY <2>1
<1>5. j * c = i * c + c + k * c
  BY <1>1, <1>4
<1>6. k * c \in Nat /\ i * c \in Nat
  BY <1>1
<1>7. QED BY <1>1, <1>3, <1>5, <1>6

LEMMA ChunksApart ==
  ASSUME NEW n \in Nat, NEW m \in Nat \ {0}, NEW i \in 0 .. m - 1, NEW j \in 0 .. m - 1, i # j
  PROVE  Chunk(n, m, i) \cap Chunk(n, m, j) = {}
<1>1. CASE i < j
  BY <1>1, ChunksInOrder
<1>2. CASE j < i
  <2>1. Chunk(n, m, j) \cap Chunk(n, m, i) = {}
    BY <1>2, ChunksInOrder
  <2>2. QED BY <2>1
<1>3. QED BY <1>1, <1>2

\* A worker that has an index has a largest one.
LEMMA LargestOf ==
  ASSUME NEW S, S \subseteq Users, S # {}
  PROVE  \E k \in S : \A j \in S : j <= k
<1> DEFINE T == {MaxUsers - 1 - k : k \in S}
<1>1. \A k \in S : k \in Int /\ k <= MaxUsers - 1 /\ MaxUsers \in Int
  BY SessionAssumption DEF Users
<1>2. T \subseteq Nat /\ T # {}
  BY <1>1
<1>3. PICK x \in T : \A y \in T : <<y, x>> \notin OpToRel(<, Nat)
  BY <1>2, NatLessThanWellFounded, WFMin
<1>4. PICK k \in S : x = MaxUsers - 1 - k
  OBVIOUS
<1>5. SUFFICES ASSUME NEW j \in S
               PROVE  j <= k
  BY <1>4
<1>6. MaxUsers - 1 - j \in T
  OBVIOUS
<1>7. ~(MaxUsers - 1 - j < x)
  BY <1>2, <1>3, <1>6 DEF OpToRel
<1>8. QED BY <1>1, <1>4, <1>7

-----------------------------------------------------------------------------
\* The types of what is not in a session.
RestTypeOK ==
  /\ size \in Sizes
  /\ pod \in [Pods -> {"none", "starting", "looking", "locust", "quitting", "over"}]
  /\ looked \in [Workers -> 0 .. LeaderRetries]
  /\ status \in [Pods -> -1 .. 255]
  /\ exitFile \in [Pods -> {-1, 0, 255, 256}]
  /\ clients \in Seq(Workers)
  /\ started \in BOOLEAN
  /\ inbox \in [Workers -> Seq(SUBSET Users)]
  /\ ready_ \in [Workers -> BOOLEAN]
  /\ indexes \in [Workers -> SUBSET Users]
  /\ new \in [Workers -> BOOLEAN]
  /\ on \in [Users -> Workers \cup {Leader}]
  /\ job \in {"active", "failed"}

LEMMA LocustTypes == LocustTypeOK <=> SessionTypeOK /\ RestTypeOK
BY DEF LocustTypeOK, RestTypeOK

\* What says who has which user.
shares == <<clients, started, inbox, ready_, indexes, on>>
SharesInv == WorkersInv /\ OneSessionPerUser

LEMMA SameShares ==
  ASSUME SharesInv, UNCHANGED shares
  PROVE  SharesInv'
BY DEF SharesInv, WorkersInv, OneSessionPerUser, Holds, shares

LEMMA SameSessions ==
  ASSUME SessionTypeOK, SessionInv, IdleInv, UNCHANGED sessionVars, UNCHANGED on
  PROVE  SessionTypeOK' /\ SessionInv' /\ IdleInv'
BY DEF SessionTypeOK, SessionInv, SessionOf, IdleInv, sessionVars, cluster, locals

\* A step of a session that has a worker.
LEMMA SessionStepKeeps ==
  ASSUME LocustInv, NEW u \in Users, on[u] # Leader, Kept(u), UNCHANGED <<size, pods, locust, job>>
  PROVE  LocustInv'
<1>1. RestTypeOK' /\ UNCHANGED shares
  BY LocustTypes DEF LocustInv, RestTypeOK, pods, locust, shares
<1>2. SharesInv'
  BY <1>1, SameShares DEF LocustInv, SharesInv
<1>3. IdleInv'
  BY DEF LocustInv, IdleInv, Kept, Untouched, locust
<1>4. LocustTypeOK'
  BY <1>1, LocustTypes DEF Kept, LocustTypeOK, RestTypeOK
<1>5. QED BY <1>2, <1>3, <1>4 DEF LocustInv, SharesInv, Kept

\* A step of a Pod that leaves the sessions and the shares alone.
LEMMA PodStepKeeps ==
  ASSUME LocustInv, RestTypeOK', UNCHANGED sessionVars, UNCHANGED shares
  PROVE  LocustInv'
<1>1. SharesInv'
  BY SameShares DEF LocustInv, SharesInv
<1>2. UNCHANGED on
  BY DEF shares
<1>3. SessionTypeOK' /\ SessionInv' /\ IdleInv'
  BY <1>2, SameSessions DEF LocustInv, LocustTypeOK
<1>4. LocustTypeOK'
  BY <1>3 DEF LocustTypeOK, RestTypeOK
<1>5. QED BY <1>1, <1>3, <1>4 DEF LocustInv, SharesInv

\* One lemma per action.
LEMMA StartLeaderKeeps ==
  ASSUME LocustInv, StartLeader
  PROVE  LocustInv'
<1>1. RestTypeOK
  BY LocustTypes DEF LocustInv
<1>2. UNCHANGED <<sessionVars, size, looked, status, exitFile, locust, job>>
  BY DEF StartLeader
<1>3. pod' \in [Pods -> {"none", "starting", "looking", "locust", "quitting", "over"}]
  BY <1>1 DEF StartLeader, RestTypeOK
<1>4. RestTypeOK' /\ UNCHANGED shares
  BY <1>1, <1>2, <1>3 DEF RestTypeOK, locust, shares
<1>5. QED BY <1>2, <1>4, PodStepKeeps

\* The container of a Pod ends with an exit status and a file.
LEMMA EndsTypes ==
  ASSUME RestTypeOK, NEW p \in Pods, NEW retcode \in {0, 255, 256},
         NEW exception, Ends(p, retcode, exception)
  PROVE  /\ pod' \in [Pods -> {"none", "starting", "looking", "locust", "quitting", "over"}]
         /\ status' \in [Pods -> -1 .. 255]
         /\ exitFile' \in [Pods -> {-1, 0, 255, 256}]
<1>1. ExitStatus(retcode) \in 0 .. 255
  BY DEF ExitStatus
<1>2. (IF exception THEN 1 ELSE ExitStatus(retcode)) \in -1 .. 255
  BY <1>1
<1>3. (IF exception THEN 255 ELSE retcode) \in {-1, 0, 255, 256}
  OBVIOUS
<1>4. status' \in [Pods -> -1 .. 255]
  BY <1>2 DEF Ends, RestTypeOK
<1>5. exitFile' \in [Pods -> {-1, 0, 255, 256}]
  BY <1>3 DEF Ends, RestTypeOK
<1>6. pod' \in [Pods -> {"none", "starting", "looking", "locust", "quitting", "over"}]
  BY DEF Ends, RestTypeOK
<1>7. QED BY <1>4, <1>5, <1>6

LEMMA LookForTheLeaderKeeps ==
  ASSUME LocustInv, NEW w \in Workers, LookForTheLeader(w)
  PROVE  LocustInv'
<1>1. RestTypeOK
  BY LocustTypes DEF LocustInv
<1>2. /\ UNCHANGED <<sessionVars, size, locust, job>> /\ pod[w] = "looking"
      /\ looked' = [looked EXCEPT ![w] = IF pod'[w] = "looking" THEN @ + 1 ELSE 0]
  BY DEF LookForTheLeader
<1>3. PICK ip \in LeaderIp :
        CASE ip = "address" ->
               /\ pod' = [pod EXCEPT ![w] = "locust"]
               /\ UNCHANGED <<status, exitFile>>
          [] ip = "none" /\ looked[w] + 1 < LeaderRetries ->
               UNCHANGED <<pod, status, exitFile>>
          [] OTHER -> Ends(w, 255, ip = "exception")
  BY DEF LookForTheLeader
<1>4. w \in Pods
  BY DEF Workers, Pods, Leader
<1>5. \/ /\ ip = "address"
         /\ pod' = [pod EXCEPT ![w] = "locust"]
         /\ UNCHANGED <<status, exitFile>>
      \/ /\ looked[w] + 1 < LeaderRetries
         /\ UNCHANGED <<pod, status, exitFile>>
      \/ Ends(w, 255, ip = "exception")
  BY <1>3
<1>6. /\ pod' \in [Pods -> {"none", "starting", "looking", "locust", "quitting", "over"}]
      /\ status' \in [Pods -> -1 .. 255]
      /\ exitFile' \in [Pods -> {-1, 0, 255, 256}]
      /\ pod'[w] = "looking" => looked[w] + 1 < LeaderRetries
  <2>1. CASE pod' = [pod EXCEPT ![w] = "locust"] /\ UNCHANGED <<status, exitFile>>
    BY <1>1, <1>4, <2>1 DEF RestTypeOK
  <2>2. CASE looked[w] + 1 < LeaderRetries /\ UNCHANGED <<pod, status, exitFile>>
    BY <1>1, <2>2 DEF RestTypeOK
  <2>3. CASE Ends(w, 255, ip = "exception")
    <3>1. pod'[w] = "over"
      BY <1>1, <1>4, <2>3 DEF Ends, RestTypeOK
    <3>2. QED BY <1>1, <1>4, <2>3, <3>1, EndsTypes
  <2>4. QED BY <1>5, <2>1, <2>2, <2>3
<1>7. looked' \in [Workers -> 0 .. LeaderRetries]
  <2>1. looked[w] \in Nat /\ LeaderRetries \in Nat
    BY <1>1, WorkersAssumption DEF RestTypeOK
  <2>2. (IF pod'[w] = "looking" THEN looked[w] + 1 ELSE 0) \in 0 .. LeaderRetries
    BY <1>6, <2>1
  <2>3. QED BY <1>1, <1>2, <2>2 DEF RestTypeOK
<1>8. RestTypeOK' /\ UNCHANGED shares
  BY <1>1, <1>2, <1>6, <1>7 DEF RestTypeOK, locust, shares
<1>9. QED BY <1>2, <1>8, PodStepKeeps

LEMMA LocustExitsKeeps ==
  ASSUME LocustInv, NEW p \in Pods, LocustExits(p)
  PROVE  LocustInv'
<1>1. RestTypeOK
  BY LocustTypes DEF LocustInv
<1>2. UNCHANGED <<sessionVars, size, looked, locust, job>>
  BY DEF LocustExits
<1>3. PICK exit \in {0, 1} : Ends(p, SystemReturns(exit), FALSE)
  BY DEF LocustExits
<1>4. SystemReturns(exit) \in {0, 256} /\ ExitStatus(SystemReturns(exit)) \in 0 .. 255
  BY DEF SystemReturns, ExitStatus
<1>5. /\ pod' = [pod EXCEPT ![p] = "over"]
      /\ exitFile' = [exitFile EXCEPT ![p] = SystemReturns(exit)]
      /\ status' = [status EXCEPT ![p] = ExitStatus(SystemReturns(exit))]
  BY <1>3 DEF Ends
<1>6. /\ pod' \in [Pods -> {"none", "starting", "looking", "locust", "quitting", "over"}]
      /\ status' \in [Pods -> -1 .. 255]
      /\ exitFile' \in [Pods -> {-1, 0, 255, 256}]
  <2>1. pod' \in [Pods -> {"none", "starting", "looking", "locust", "quitting", "over"}]
    BY <1>1, <1>5 DEF RestTypeOK
  <2>2. ExitStatus(SystemReturns(exit)) \in -1 .. 255
    BY <1>4
  <2>3. status' \in [Pods -> -1 .. 255]
    BY <1>1, <1>5, <2>2 DEF RestTypeOK
  <2>4. SystemReturns(exit) \in {-1, 0, 255, 256}
    BY <1>4
  <2>5. exitFile' \in [Pods -> {-1, 0, 255, 256}]
    BY <1>1, <1>5, <2>4 DEF RestTypeOK
  <2>6. QED BY <2>1, <2>3, <2>5
<1>7. RestTypeOK' /\ UNCHANGED shares
  BY <1>1, <1>2, <1>6 DEF RestTypeOK, locust, shares
<1>8. QED BY <1>2, <1>7, PodStepKeeps

LEMMA SpawnUserKeeps ==
  ASSUME LocustInv, NEW w \in Workers, SpawnUser(w)
  PROVE  LocustInv'
<1>1. RestTypeOK
  BY LocustTypes DEF LocustInv
<1>2. /\ UNCHANGED <<sessionVars, size, pods, clients, started, inbox, ready_, indexes, on, job>>
      /\ new' = [new EXCEPT ![w] = TRUE]
  BY DEF SpawnUser
<1>3. new' \in [Workers -> BOOLEAN]
  BY <1>1, <1>2 DEF RestTypeOK
<1>4. RestTypeOK' /\ UNCHANGED shares
  BY <1>1, <1>2, <1>3 DEF RestTypeOK, pods, shares
<1>5. QED BY <1>2, <1>4, PodStepKeeps

\* A runner that quits.
LEMMA QuitsKeeps ==
  ASSUME LocustInv, NEW p \in Pods, pod' = [pod EXCEPT ![p] = "quitting"],
         UNCHANGED <<sessionVars, size, looked, status, exitFile, locust, job>>
  PROVE  LocustInv'
<1>1. RestTypeOK
  BY LocustTypes DEF LocustInv
<1>2. pod' \in [Pods -> {"none", "starting", "looking", "locust", "quitting", "over"}]
  BY <1>1 DEF RestTypeOK
<1>3. RestTypeOK' /\ UNCHANGED shares
  BY <1>1, <1>2 DEF RestTypeOK, locust, shares
<1>4. QED BY <1>3, PodStepKeeps

LEMMA RunAgainKeeps ==
  ASSUME LocustInv, NEW u \in Users, RunAgain(u)
  PROVE  LocustInv'
<1>1. on[u] \in Workers \cup {Leader}
  BY LocustTypes DEF LocustInv, RestTypeOK
<1>2. Leader \in Pods /\ Workers \subseteq Pods
  BY WorkersAssumption DEF Pods, Workers, Leader
<1>3. QED BY <1>1, <1>2, QuitsKeeps DEF RunAgain

LEMMA RunnersQuitKeeps ==
  ASSUME LocustInv, MasterQuits \/ \E w \in Workers : WorkerQuits(w)
  PROVE  LocustInv'
<1>1. Leader \in Pods /\ Workers \subseteq Pods
  BY WorkersAssumption DEF Pods, Workers, Leader
<1>2. CASE MasterQuits
  BY <1>1, <1>2, QuitsKeeps DEF MasterQuits
<1>3. ASSUME NEW w \in Workers, WorkerQuits(w)
      PROVE  LocustInv'
  BY <1>1, <1>3, QuitsKeeps DEF WorkerQuits
<1>4. QED BY <1>2, <1>3

LEMMA SessionsKeep ==
  ASSUME LocustInv, NEW u \in Users, Session(u) \/ StopUser(u)
  PROVE  LocustInv'
<1>1. SessionTypeOK /\ SessionInv
  BY DEF LocustInv, LocustTypeOK
<1>2. on[u] # Leader /\ UNCHANGED <<size, pods, locust, job>>
  BY DEF Session, StopUser
<1>3. Kept(u)
  BY <1>1, SessionStepInv, KillSessionInv DEF Session, StopUser
<1>4. QED BY <1>2, <1>3, SessionStepKeeps

\* The Route of a workbench appears while its session waits.
LEMMA LaunchKeeps ==
  ASSUME LocustInv, NEW u \in Users, Launch(u)
  PROVE  LocustInv'
<1>1. SessionTypeOK /\ SessionInv
  BY DEF LocustInv, LocustTypeOK
<1>2. RouteAppears(u) /\ pc[u] = "wait" /\ UNCHANGED <<size, pods, locust, job>>
  BY DEF Launch, RouteAppears
<1>3. on[u] # Leader
  BY <1>2 DEF LocustInv, IdleInv
<1>4. QED BY <1>1, <1>2, <1>3, RouteAppearsInv, SessionStepKeeps

LEMMA LocustJobFailsKeeps ==
  ASSUME LocustInv, LocustJobFails
  PROVE  LocustInv'
<1>1. SessionTypeOK /\ RestTypeOK
  BY LocustTypes DEF LocustInv
<1>2. /\ job' = "failed" /\ pod' = [p \in Pods |-> "over"]
      /\ pc' = [u \in Users |-> IF on[u] # Leader /\ pc[u] # "done" THEN "lost" ELSE pc[u]]
      /\ UNCHANGED <<cluster, obj, locals, killed, refused, csv>>
      /\ UNCHANGED <<size, looked, status, exitFile, locust>>
  BY DEF LocustJobFails
<1>3. \A u \in Users : pc'[u] = "lost" \/ pc'[u] = pc[u]
  BY <1>2
<1>4. pc' \in [Users -> Places]
  BY <1>1, <1>2 DEF SessionTypeOK, Places
<1>5. SessionTypeOK'
  BY <1>1, <1>2, <1>4 DEF SessionTypeOK, Places, cluster, locals
<1>6. pod' \in [Pods -> {"none", "starting", "looking", "locust", "quitting", "over"}]
  BY <1>2
<1>7. RestTypeOK' /\ UNCHANGED shares
  BY <1>1, <1>2, <1>6 DEF RestTypeOK, locust, shares
<1>8. SharesInv'
  BY <1>7, SameShares DEF LocustInv, SharesInv
<1>9. SessionInv'
  <2> SUFFICES ASSUME NEW u \in Users
               PROVE  SessionOf(u)'
    BY DEF SessionInv
  <2>1. SessionOf(u)
    BY DEF LocustInv, SessionInv
  <2>2. CASE pc'[u] = "lost"
    BY <1>2, <2>1, <2>2 DEF SessionOf, cluster
  <2>3. CASE pc'[u] = pc[u]
    BY <1>2, <2>1, <2>3 DEF SessionOf, cluster
  <2>4. QED BY <1>3, <2>2, <2>3
<1>10. IdleInv'
  BY <1>2 DEF LocustInv, IdleInv, locust
<1>11. LocustTypeOK'
  BY <1>5, <1>7 DEF LocustTypeOK, RestTypeOK
<1>12. QED BY <1>8, <1>9, <1>10, <1>11 DEF LocustInv, SharesInv

\* A step that moves users from one worker's list to another place: what is left
\* to show is who has which user.
LEMMA ShareStepKeeps ==
  ASSUME LocustInv, RestTypeOK', SharesInv', UNCHANGED sessionVars, UNCHANGED on
  PROVE  LocustInv'
<1>1. SessionTypeOK' /\ SessionInv' /\ IdleInv'
  BY SameSessions DEF LocustInv, LocustTypeOK
<1>2. LocustTypeOK'
  BY <1>1 DEF LocustTypeOK, RestTypeOK
<1>3. QED BY <1>1, <1>2 DEF LocustInv, SharesInv

LEMMA ConnectKeeps ==
  ASSUME LocustInv, NEW w \in Workers, Connect(w)
  PROVE  LocustInv'
<1>1. RestTypeOK /\ WorkersInv /\ OneSessionPerUser
  BY LocustTypes DEF LocustInv
<1>2. /\ ~Knows(w) /\ clients' = Append(clients, w)
      /\ UNCHANGED <<sessionVars, size, pods, started, inbox, ready_, indexes, new, on, job>>
  BY DEF Connect
<1>3. clients \in Seq(Workers)
  BY <1>1 DEF RestTypeOK
<1>4. /\ clients' \in Seq(Workers) /\ DOMAIN clients' = 1 .. Len(clients) + 1
      /\ \A i \in DOMAIN clients : clients'[i] = clients[i]
      /\ clients'[Len(clients) + 1] = w
      /\ DOMAIN clients = 1 .. Len(clients) /\ Len(clients) \in Nat
  BY <1>2, <1>3
<1>5. \A i, j \in DOMAIN clients' : clients'[i] = clients'[j] => i = j
  <2> SUFFICES ASSUME NEW i \in DOMAIN clients', NEW j \in DOMAIN clients',
                      clients'[i] = clients'[j]
               PROVE  i = j
    OBVIOUS
  <2>1. \A k \in DOMAIN clients : clients'[k] # w
    BY <1>2, <1>4 DEF Knows
  <2>2. i \in DOMAIN clients \/ i = Len(clients) + 1
    BY <1>4
  <2>3. j \in DOMAIN clients \/ j = Len(clients) + 1
    BY <1>4
  <2>4. CASE i \in DOMAIN clients /\ j \in DOMAIN clients
    BY <1>1, <1>4, <2>4 DEF WorkersInv
  <2>5. CASE ~(i \in DOMAIN clients /\ j \in DOMAIN clients)
    BY <1>4, <2>1, <2>2, <2>3, <2>5
  <2>6. QED BY <2>4, <2>5
<1>6. WorkersInv'
  BY <1>1, <1>2, <1>5 DEF WorkersInv
<1>7. OneSessionPerUser'
  BY <1>1, <1>2 DEF OneSessionPerUser, Holds
<1>8. RestTypeOK'
  BY <1>1, <1>2, <1>4 DEF RestTypeOK, pods
<1>9. QED BY <1>2, <1>6, <1>7, <1>8, ShareStepKeeps DEF SharesInv

\* on_test_start: the slices go to different workers.
LEMMA TestStartKeeps ==
  ASSUME LocustInv, TestStart
  PROVE  LocustInv'
<1> DEFINE place(w) == CHOOSE k \in DOMAIN clients : clients[k] = w
           slice(w) == Chunk(size.users, Len(clients), place(w) - 1)
<1>1. RestTypeOK /\ WorkersInv /\ OneSessionPerUser
  BY LocustTypes DEF LocustInv
<1>2. /\ ~started /\ Len(clients) > 0 /\ started' = TRUE
      /\ UNCHANGED <<sessionVars, size, pods, clients, ready_, indexes, new, on, job>>
      /\ inbox' = [w \in Workers |-> IF Knows(w) THEN <<slice(w)>> ELSE <<>>]
  BY DEF TestStart
<1>3. \A w \in Workers : Knows(w) => place(w) \in DOMAIN clients /\ clients[place(w)] = w
  BY DEF Knows
<1>4. /\ Len(clients) \in Nat \ {0} /\ DOMAIN clients = 1 .. Len(clients)
      /\ size.users \in Nat /\ size.users <= MaxUsers
  <2>1. clients \in Seq(Workers) /\ size \in [users : 1 .. MaxUsers, workers : 1 .. NWorkers]
    BY <1>1, WorkersAssumption DEF RestTypeOK
  <2>2. QED BY <1>2, <2>1, SessionAssumption
<1>5. \A w \in Workers : slice(w) \subseteq Users
  BY <1>4, SessionAssumption DEF Chunk, Users
<1>6. ASSUME NEW v \in Workers, NEW w \in Workers, Knows(v), Knows(w), v # w
      PROVE  slice(v) \cap slice(w) = {}
  <2>1. place(v) \in 1 .. Len(clients) /\ place(w) \in 1 .. Len(clients) /\ place(v) # place(w)
    BY <1>3, <1>4, <1>6
  <2> HIDE DEF place
  <2>2. /\ place(v) - 1 \in 0 .. Len(clients) - 1 /\ place(w) - 1 \in 0 .. Len(clients) - 1
        /\ place(v) - 1 # place(w) - 1
    BY <1>4, <2>1
  <2>3. QED BY <1>4, <2>2, ChunksApart
<1> HIDE DEF slice, place
<1>7. \A w \in Workers : /\ inbox'[w] = <<>> \/ (Knows(w) /\ inbox'[w] = <<slice(w)>>)
                         /\ ~ready_'[w] /\ indexes'[w] = {} /\ \A u \in Users : on'[u] # w
  BY <1>1, <1>2 DEF WorkersInv
<1>8. WorkersInv'
  <2>1. \A i, j \in DOMAIN clients' : clients'[i] = clients'[j] => i = j
    BY <1>1, <1>2 DEF WorkersInv
  <2>2. \A w \in Workers : inbox'[w] = <<>> \/ \E S \in SUBSET Users : inbox'[w] = <<S>>
    BY <1>5, <1>7
  <2>3. QED BY <1>2, <1>7, <2>1, <2>2 DEF WorkersInv
<1>9. \A w \in Workers, u \in Users : Holds(w, u)' => Knows(w) /\ u \in slice(w)
  <2> SUFFICES ASSUME NEW w \in Workers, NEW u \in Users, Holds(w, u)'
               PROVE  Knows(w) /\ u \in slice(w)
    OBVIOUS
  <2>1. PICK i \in DOMAIN inbox'[w] : u \in inbox'[w][i]
    BY <1>7 DEF Holds
  <2>2. QED BY <1>7, <2>1
<1>10. OneSessionPerUser'
  <2>1. \A u \in Users : \A v, w \in Workers : Holds(v, u)' /\ Holds(w, u)' => v = w
    BY <1>6, <1>9
  <2>2. \A u \in Users : on'[u] = Leader
    BY <1>1, <1>7, <1>2 DEF RestTypeOK
  <2>3. QED BY <2>1, <2>2 DEF OneSessionPerUser
<1>11. inbox' \in [Workers -> Seq(SUBSET Users)]
  <2>1. \A w \in Workers : <<slice(w)>> \in Seq(SUBSET Users) /\ <<>> \in Seq(SUBSET Users)
    BY <1>5
  <2>2. QED BY <1>2, <2>1
<1>12. RestTypeOK'
  BY <1>1, <1>2, <1>11 DEF RestTypeOK, pods
<1>13. QED BY <1>2, <1>8, <1>10, <1>12, ShareStepKeeps DEF SharesInv

\* setup_test_users: the slice leaves the message and becomes the list.
LEMMA ReceiveUsersKeeps ==
  ASSUME LocustInv, NEW w \in Workers, ReceiveUsers(w)
  PROVE  LocustInv'
<1>1. RestTypeOK /\ WorkersInv /\ OneSessionPerUser
  BY LocustTypes DEF LocustInv
<1>2. PICK S \in SUBSET Users : inbox[w] = <<S>>
  BY <1>1 DEF WorkersInv, ReceiveUsers
<1>3. ~ready_[w] /\ indexes[w] = {} /\ \A u \in Users : on[u] # w
  <2>1. inbox[w] # <<>>
    BY DEF ReceiveUsers
  <2>2. QED BY <1>1, <2>1 DEF WorkersInv
<1>4. Head(inbox[w]) = S /\ Tail(inbox[w]) = <<>>
  BY <1>2
<1>5. /\ UNCHANGED <<sessionVars, size, looked, status, exitFile, clients, started, new, on, job>>
      /\ indexes' = [indexes EXCEPT ![w] = S]
      /\ inbox' = [inbox EXCEPT ![w] = <<>>]
      /\ ready_' = [ready_ EXCEPT ![w] = TRUE]
  BY <1>3, <1>4 DEF ReceiveUsers
<1>6. w \in Pods
  BY DEF Workers, Pods, Leader
<1>7. pod' \in [Pods -> {"none", "starting", "looking", "locust", "quitting", "over"}]
  BY <1>1, <1>6 DEF ReceiveUsers, RestTypeOK
<1>8. inbox' \in [Workers -> Seq(SUBSET Users)]
  BY <1>1, <1>5 DEF RestTypeOK
<1>9. ready_' \in [Workers -> BOOLEAN] /\ indexes' \in [Workers -> SUBSET Users]
  BY <1>1, <1>5 DEF RestTypeOK
<1>10. RestTypeOK'
  BY <1>1, <1>5, <1>7, <1>8, <1>9 DEF RestTypeOK
<1>11. /\ inbox'[w] = <<>> /\ ready_'[w] /\ indexes'[w] = S
       /\ \A v \in Workers \ {w} :
            inbox'[v] = inbox[v] /\ indexes'[v] = indexes[v] /\ ready_'[v] = ready_[v]
  BY <1>1, <1>5 DEF RestTypeOK
<1>12. started
  BY <1>1, <1>2 DEF WorkersInv
<1>13. WorkersInv'
  <2>1. \A i, j \in DOMAIN clients' : clients'[i] = clients'[j] => i = j
    BY <1>1, <1>5 DEF WorkersInv
  <2>2. \A v \in Workers :
          /\ inbox'[v] = <<>> \/ \E T \in SUBSET Users : inbox'[v] = <<T>>
          /\ ready_'[v] => inbox'[v] = <<>>
          /\ ~ready_'[v] => indexes'[v] = {} /\ \A u \in Users : on'[u] # v
    <3> SUFFICES ASSUME NEW v \in Workers
                 PROVE  /\ inbox'[v] = <<>> \/ \E T \in SUBSET Users : inbox'[v] = <<T>>
                        /\ ready_'[v] => inbox'[v] = <<>>
                        /\ ~ready_'[v] => indexes'[v] = {} /\ \A u \in Users : on'[u] # v
      OBVIOUS
    <3>1. CASE v = w
      BY <1>11, <3>1
    <3>2. CASE v # w
      BY <1>1, <1>5, <1>11, <3>2 DEF WorkersInv
    <3>3. QED BY <3>1, <3>2
  <2>3. started'
    BY <1>5, <1>12
  <2>4. QED BY <2>1, <2>2, <2>3 DEF WorkersInv
<1>14. \A v \in Workers, u \in Users : Holds(v, u)' => Holds(v, u)
  <2> SUFFICES ASSUME NEW v \in Workers, NEW u \in Users, Holds(v, u)'
               PROVE  Holds(v, u)
    OBVIOUS
  <2>1. CASE v = w
    <3>1. u \in S
      BY <1>3, <1>5, <1>11, <2>1 DEF Holds
    <3>2. 1 \in DOMAIN inbox[w] /\ u \in inbox[w][1]
      BY <1>2, <3>1
    <3>3. QED BY <2>1, <3>2 DEF Holds
  <2>2. CASE v # w
    BY <1>5, <1>11, <2>2 DEF Holds
  <2>3. QED BY <2>1, <2>2
<1>15. OneSessionPerUser'
  <2>1. \A u \in Users : \A v, x \in Workers : Holds(v, u)' /\ Holds(x, u)' => v = x
    BY <1>1, <1>14 DEF OneSessionPerUser
  <2>2. \A u \in Users : on'[u] # Leader => u \notin indexes'[on'[u]]
    <3> SUFFICES ASSUME NEW u \in Users, on[u] # Leader
                 PROVE  u \notin indexes'[on[u]]
      BY <1>5
    <3>1. on[u] \in Workers \ {w}
      BY <1>1, <1>3 DEF RestTypeOK
    <3>2. QED BY <1>1, <1>11, <3>1 DEF OneSessionPerUser
  <2>3. QED BY <2>1, <2>2 DEF OneSessionPerUser
<1>16. QED BY <1>5, <1>10, <1>13, <1>15, ShareStepKeeps DEF SharesInv

\* __init__: the user leaves the list of the worker and has a session on it.
LEMMA TakeIndexKeeps ==
  ASSUME LocustInv, NEW w \in Workers, TakeIndex(w)
  PROVE  LocustInv'
<1>1. SessionTypeOK /\ RestTypeOK /\ WorkersInv /\ OneSessionPerUser /\ SessionInv /\ IdleInv
  BY LocustTypes DEF LocustInv
<1>2. /\ ready_[w] /\ new' = [new EXCEPT ![w] = FALSE]
      /\ UNCHANGED <<cluster, obj, locals, killed, refused, csv>>
      /\ UNCHANGED <<size, looked, status, exitFile, clients, started, inbox, ready_, job>>
  BY DEF TakeIndex
<1>3. new' \in [Workers -> BOOLEAN]
  BY <1>1, <1>2 DEF RestTypeOK
<1>4. w \in Pods
  BY DEF Workers, Pods, Leader
<1>5. CASE indexes[w] = {}
  <2>1. pod' = [pod EXCEPT ![w] = "quitting"] /\ UNCHANGED <<pc, indexes, on>>
    BY <1>5 DEF TakeIndex
  <2>2. pod' \in [Pods -> {"none", "starting", "looking", "locust", "quitting", "over"}]
    BY <1>1, <1>4, <2>1 DEF RestTypeOK
  <2>3. RestTypeOK'
    BY <1>1, <1>2, <1>3, <2>1, <2>2 DEF RestTypeOK
  <2>4. UNCHANGED sessionVars /\ UNCHANGED shares
    BY <1>2, <2>1 DEF sessionVars, shares
  <2>5. QED BY <2>3, <2>4, PodStepKeeps
<1>6. CASE indexes[w] # {}
  <2> DEFINE last == CHOOSE k \in indexes[w] : \A j \in indexes[w] : j <= k
  <2>1. indexes[w] \subseteq Users
    BY <1>1 DEF RestTypeOK
  <2>a. last \in indexes[w]
    BY <1>6, <2>1, LargestOf
  <2>2. PICK u \in indexes[w] : u = last /\ u \in Users
    BY <2>a, <2>1
  <2>3. /\ pc' = [pc EXCEPT ![u] = "connect"]
        /\ indexes' = [indexes EXCEPT ![w] = indexes[w] \ {u}]
        /\ on' = [on EXCEPT ![u] = w]
        /\ UNCHANGED pod
    BY <1>6, <2>2 DEF TakeIndex
  <2> HIDE DEF last
  <2>4. on[u] = Leader
    <3>1. Holds(w, u)
      BY <2>2 DEF Holds
    <3>2. ASSUME on[u] # Leader
          PROVE  FALSE
      <4>1. on[u] \in Workers /\ Holds(on[u], u)
        BY <1>1, <2>2, <3>2 DEF RestTypeOK, Holds
      <4>2. on[u] = w
        BY <1>1, <2>2, <3>1, <4>1 DEF OneSessionPerUser
      <4>3. QED BY <1>1, <2>2, <3>2, <4>2 DEF OneSessionPerUser
    <3>3. QED BY <3>2
  <2>5. pc[u] = "none"
    BY <1>1, <2>2, <2>4 DEF IdleInv
  <2>6. /\ pc' \in [Users -> Places] /\ pc'[u] = "connect"
        /\ \A v \in Users \ {u} : pc'[v] = pc[v]
    BY <1>1, <2>2, <2>3 DEF SessionTypeOK, Places, InTheTask
  <2>7. SessionTypeOK'
    BY <1>1, <1>2, <2>6 DEF SessionTypeOK, Places, cluster, locals
  <2>8. SessionInv'
    <3>1. \A v \in Users \ {u} : Untouched(v)
      BY <1>2, <2>6 DEF Untouched, cluster
    <3>2. SessionOf(u)
      BY <1>1, <2>2 DEF SessionInv
    <3>3. SessionOf(u)'
      BY <1>2, <2>5, <2>6, <3>2 DEF SessionOf, cluster
    <3>4. QED BY <1>1, <2>2, <3>1, <3>3, OneSession
  <2>9. /\ on' \in [Users -> Workers \cup {Leader}] /\ on'[u] = w
        /\ \A v \in Users \ {u} : on'[v] = on[v]
    BY <1>1, <2>2, <2>3 DEF RestTypeOK
  <2>10. /\ indexes' \in [Workers -> SUBSET Users] /\ indexes'[w] = indexes[w] \ {u}
         /\ \A v \in Workers \ {w} : indexes'[v] = indexes[v]
    BY <1>1, <2>1, <2>3 DEF RestTypeOK
  <2>11. RestTypeOK'
    BY <1>1, <1>2, <1>3, <2>3, <2>9, <2>10 DEF RestTypeOK
  <2>12. WorkersInv'
    <3>1. \A v \in Workers : ~ready_[v] => indexes'[v] = {} /\ \A x \in Users : on'[x] # v
      <4> SUFFICES ASSUME NEW v \in Workers, ~ready_[v]
                   PROVE  indexes'[v] = {} /\ \A x \in Users : on'[x] # v
        OBVIOUS
      <4>1. v # w
        BY <1>2
      <4>2. indexes[v] = {} /\ \A x \in Users : on[x] # v
        BY <1>1 DEF WorkersInv
      <4>3. QED BY <2>9, <2>10, <4>1, <4>2
    <3>2. QED BY <1>1, <1>2, <3>1 DEF WorkersInv
  <2>13. \A v \in Workers, x \in Users : Holds(v, x)' => Holds(v, x)
    <3> SUFFICES ASSUME NEW v \in Workers, NEW x \in Users, Holds(v, x)'
                 PROVE  Holds(v, x)
      OBVIOUS
    <3>1. CASE on'[x] = v
      <4>1. CASE x = u
        BY <2>2, <2>9, <3>1, <4>1 DEF Holds
      <4>2. CASE x # u
        BY <2>9, <3>1, <4>2 DEF Holds
      <4>3. QED BY <4>1, <4>2
    <3>2. CASE x \in indexes'[v]
      <4>1. x \in indexes[v]
        BY <2>10, <3>2
      <4>2. QED BY <4>1 DEF Holds
    <3>3. CASE \E i \in DOMAIN inbox'[v] : x \in inbox'[v][i]
      BY <1>2, <3>3 DEF Holds
    <3>4. QED BY <3>1, <3>2, <3>3 DEF Holds
  <2>14. OneSessionPerUser'
    <3>1. \A x \in Users : \A v, y \in Workers : Holds(v, x)' /\ Holds(y, x)' => v = y
      BY <1>1, <2>13 DEF OneSessionPerUser
    <3>2. \A x \in Users : on'[x] # Leader => x \notin indexes'[on'[x]]
      <4> SUFFICES ASSUME NEW x \in Users, on'[x] # Leader
                   PROVE  x \notin indexes'[on'[x]]
        OBVIOUS
      <4>1. CASE x = u
        BY <2>9, <2>10, <4>1
      <4>2. CASE x # u
        <5>1. on'[x] = on[x] /\ on[x] \in Workers /\ x \notin indexes[on[x]]
          BY <1>1, <2>9, <4>2 DEF RestTypeOK, OneSessionPerUser
        <5>2. QED BY <2>10, <5>1
      <4>3. QED BY <4>1, <4>2
    <3>3. QED BY <3>1, <3>2 DEF OneSessionPerUser
  <2>15. IdleInv'
    <3> SUFFICES ASSUME NEW x \in Users, on'[x] = Leader
                 PROVE  pc'[x] = "none"
      BY DEF IdleInv
    <3>1. x # u
      BY <2>9 DEF Workers, Leader
    <3>2. QED BY <1>1, <2>6, <2>9, <3>1 DEF IdleInv
  <2>16. LocustTypeOK'
    BY <2>7, <2>11 DEF LocustTypeOK, RestTypeOK
  <2>17. QED BY <2>8, <2>12, <2>14, <2>15, <2>16 DEF LocustInv
<1>7. QED BY <1>5, <1>6

-----------------------------------------------------------------------------
LEMMA LocustInitInv == LocustInit => LocustInv
<1> SUFFICES ASSUME LocustInit
             PROVE  LocustInv
  OBVIOUS
<1>1. SessionInit
  BY DEF LocustInit
<1>2. SessionTypeOK
  <2>1. 1 \in 1 .. MaxRetries
    BY SessionAssumption
  <2>2. wb \in [Users -> {"absent", "running", "stopped"}]
    BY <1>1, SessionAssumption DEF SessionInit
  <2>3. QED BY <1>1, <2>1, <2>2 DEF SessionInit, SessionTypeOK
<1>3. SessionInv
  BY <1>1 DEF SessionInit, SessionInv, SessionOf
<1>4. Leader \notin Workers
  BY DEF Leader, Workers
<1>5. pod \in [Pods -> {"none", "starting", "looking", "locust", "quitting", "over"}]
  BY DEF LocustInit
<1>6. looked \in [Workers -> 0 .. LeaderRetries]
  BY WorkersAssumption DEF LocustInit
<1>7. clients \in Seq(Workers) /\ inbox \in [Workers -> Seq(SUBSET Users)]
  BY DEF LocustInit
<1>8. RestTypeOK
  <2>1. status \in [Pods -> -1 .. 255] /\ exitFile \in [Pods -> {-1, 0, 255, 256}]
    BY DEF LocustInit
  <2>2. /\ ready_ \in [Workers -> BOOLEAN] /\ indexes \in [Workers -> SUBSET Users]
        /\ new \in [Workers -> BOOLEAN] /\ on \in [Users -> Workers \cup {Leader}]
    BY DEF LocustInit
  <2>3. size \in Sizes /\ started \in BOOLEAN /\ job \in {"active", "failed"}
    BY DEF LocustInit
  <2>4. QED BY <1>5, <1>6, <1>7, <2>1, <2>2, <2>3 DEF RestTypeOK
<1>9. WorkersInv
  BY <1>4 DEF LocustInit, WorkersInv
<1>10. IdleInv
  BY <1>1 DEF LocustInit, SessionInit, IdleInv
<1>11. \A w \in Workers, u \in Users : ~Holds(w, u)
  BY <1>4 DEF LocustInit, Holds
<1>12. OneSessionPerUser
  BY <1>11 DEF LocustInit, OneSessionPerUser
<1>13. QED BY <1>2, <1>3, <1>8, <1>9, <1>10, <1>12, LocustTypes DEF LocustInv

LEMMA LocustStepInv == LocustInv /\ [LocustNext]_locustVars => LocustInv'
<1> SUFFICES ASSUME LocustInv, [LocustNext]_locustVars
             PROVE  LocustInv'
  OBVIOUS
<1>1. ASSUME NEW w \in Workers, WorkerStep(w) \/ Connect(w) \/ WorkerQuits(w)
      PROVE  LocustInv'
  BY <1>1, LookForTheLeaderKeeps, ReceiveUsersKeeps, SpawnUserKeeps, TakeIndexKeeps,
     ConnectKeeps, RunnersQuitKeeps DEF WorkerStep
<1>2. ASSUME NEW u \in Users, Session(u) \/ RunAgain(u) \/ StopUser(u) \/ Launch(u)
      PROVE  LocustInv'
  BY <1>2, SessionsKeep, RunAgainKeeps, LaunchKeeps
<1>3. CASE StartLeader \/ TestStart \/ MasterQuits \/ LocustJobFails
  BY <1>3, StartLeaderKeeps, TestStartKeeps, RunnersQuitKeeps, LocustJobFailsKeeps
<1>4. ASSUME NEW p \in Pods, LocustExits(p)
      PROVE  LocustInv'
  BY <1>4, LocustExitsKeeps
<1>5. CASE UNCHANGED locustVars
  <2>1. UNCHANGED <<sessionVars, size, pods, locust, job>>
    BY <1>5 DEF locustVars
  <2>2. RestTypeOK' /\ UNCHANGED shares
    BY <2>1, LocustTypes DEF LocustInv, RestTypeOK, pods, locust, shares
  <2>3. QED BY <2>1, <2>2, PodStepKeeps
<1>6. QED BY <1>1, <1>2, <1>3, <1>4, <1>5 DEF LocustNext

\* The inductive invariant holds in every execution of the Job, whatever the
\* numbers of users, of workers and of retries.
THEOREM LocustInvariant == LocustSpec => []LocustInv
BY LocustInitInv, LocustStepInv, PTL DEF LocustSpec

\* The variables of the Job and of its sessions keep their types: among them,
\* the retries of entrypoint.py and of jupyterlab.py stay below their bounds.
THEOREM LocustTypeCorrect == LocustSpec => []LocustTypeOK
<1>1. LocustInv => LocustTypeOK
  BY DEF LocustInv
<1>2. QED BY <1>1, LocustInvariant, PTL

\* No two simulated users are the same user of the cluster: on_test_start cuts
\* the list in slices that have no user in common, setup_test_users moves a
\* slice once, and __init__ takes an index out of the list for good.
THEOREM UsersAreShared == LocustSpec => []OneSessionPerUser
<1>1. LocustInv => OneSessionPerUser
  BY DEF LocustInv
<1>2. QED BY <1>1, LocustInvariant, PTL

\* A session that ends by itself has an entry with an exception in its progress
\* file, or has logged in to JupyterLab: launch_a_workbench drops only errors
\* that Step has recorded.
THEOREM FailuresAreRecorded == LocustSpec => []FailureIsRecorded
<1>1. LocustInv => FailureIsRecorded
  BY DEF LocustInv, SessionInv, SessionOf, FailureIsRecorded
<1>2. QED BY <1>1, LocustInvariant, PTL

\* A session that is over has left its workbench running only if
\* create_and_start_the_workbench has not returned it, or if stop() has failed
\* in the finally clause and again in on_stop.
THEOREM WorkbenchesLeftRunning == LocustSpec => []LeftRunning
<1>1. LocustInv => LeftRunning
  <2> SUFFICES ASSUME LocustInv, NEW u \in Users, pc[u] = "done", wb[u] = "running"
               PROVE  obj[u] = "none" \/ refused[u] = 2
    BY DEF LeftRunning
  <2>1. SessionOf(u) /\ obj[u] \in {"none", "running", "stopped"}
    BY DEF LocustInv, SessionInv, LocustTypeOK, SessionTypeOK
  <2>2. QED BY <2>1 DEF SessionOf
<1>2. QED BY <1>1, LocustInvariant, PTL
=============================================================================
