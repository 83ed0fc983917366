------------------------------- MODULE Toolbox -------------------------------
(***************************************************************************)
(* run_toolbox.py: processes that run the commands of the toolbox in the   *)
(* same ARTIFACT_DIR (toolbox/_common.py, toolbox/from_config.py,          *)
(* toolbox/ansible_default_config.py, toolbox/repo_scripts), one after the *)
(* other or, as the test scripts do, at the same time.                     *)
(* The role itself is external: its play succeeds or fails.  The artifact  *)
(* directories are not removed while commands run, and can be written to.  *)
(***************************************************************************)
EXTENDS Integers, FiniteSets, ToolboxCommands

CONSTANTS
  Procs,   \* the processes
  Starts,  \* the calls they may be started with
  Found    \* the artifact directories there may be already

Calls ==
  [cmd : Commands,
   given : SUBSET STRING,   \* the parameters on the command line, or the keys
   off : SUBSET STRING,     \* those of them with an empty or false value
   odd : SUBSET STRING,     \* the special values: see refuses
   suffix : STRING,         \* what a suffixed command makes of its parameters
   via : {"cli", "no file", "no key", "bad extra", "config"}, \* from_config, or not
   how : {"run", "help", "partial", "show_args"}]

Directories ==
  [index : Nat, group : {c.group : c \in Commands},
   command : {c.command : c \in Commands}, suffix : {""} \cup STRING]

\* ARTIFACT_EXTRA_LOGS_DIR, when it is set.
ExtraLogsDir == [index |-> 0, group |-> "", command |-> "", suffix |-> "extra"]
NoDir == [index |-> 0, group |-> "", command |-> "", suffix |-> "none"]

ASSUME ToolboxAssumption ==
  /\ Starts \subseteq [Procs -> Calls]
  /\ \A found \in Found :
       /\ found \subseteq Directories
       /\ IsFiniteSet(found)
       /\ \A d \in found : d.index < Cardinality(found)

VARIABLES
  call,    \* the call of each process
  extra,   \* ARTIFACT_EXTRA_LOGS_DIR is set
  pc,      \* where the process is
  dirs,    \* the directories of ARTIFACT_DIR
  seen,    \* those a process has counted
  dir,     \* its own
  plays,   \* the processes that have a play file among the roles
  ret,     \* the return code of ansible-playbook, -1 when it was interrupted
  marks,   \* the directories with a FAILURE file
  code     \* the exit status of the process

toolboxVars == <<call, extra, pc, dirs, seen, dir, plays, ret, marks, code>>

Unset == 1000

-----------------------------------------------------------------------------
(* The call: fire, from_config and the checks of the command. *)

On(c) == (c.given \ c.off) \cup (c.cmd.on \ c.given) \cup c.odd

Accepted(c) ==
  /\ c.cmd.required \subseteq c.given
  /\ c.given \subseteq c.cmd.required \cup c.cmd.optional

Refused(c) ==
  \E r \in c.cmd.refuses : r[1] \subseteq On(c) /\ r[2] \cap On(c) = {}

\* The checks of the repository exit by themselves.  os.system's status of a
\* script that fails is 256, which is no failure for exit().
ExitStatus(n) == n % 256
RepoExit(c) ==
  LET found == IF "repo=bad" \in c.odd THEN 1 ELSE 0 IN
  CASE c.cmd.command = "validate_role_files" -> found
    [] c.cmd.command = "validate_no_wip" -> ExitStatus(found * 256)
    [] OTHER -> 0 \* no file matches roles/*/vars/*/* and roles/*/defaults/*/*

\* The exit status of a call that runs no role.
FromConfig(c) ==
  IF c.via # "config" THEN {1}                   \* a file, the key or --extra
  ELSE IF c.how = "show_args" THEN {0}
  ELSE IF ~Accepted(c) \/ Refused(c) THEN {1}    \* TypeError, or the check
  ELSE {}
FromCli(c) ==
  IF c.how \in {"help", "partial"} THEN {0}
  ELSE IF c.how = "show_args" \/ ~c.cmd.required \subseteq c.given THEN {2}
  ELSE IF Refused(c) THEN {1}
  ELSE IF ~Accepted(c) THEN {2}                  \* once the command has returned
  ELSE {}
EarlyExit(c) ==
  LET status == IF c.via = "cli" THEN FromCli(c) ELSE FromConfig(c) IN
  IF status = {} /\ c.cmd.role = NoRole THEN {RepoExit(c)} ELSE status

-----------------------------------------------------------------------------
(* The variables of the play. *)

\* Mutant: the names without the name of the role.
VariablesUnprefixed(c) ==
  IF c.cmd.mapped
  THEN {""} \X (c.cmd.constants \cup
                IF c.cmd.passes THEN c.cmd.required \cup c.cmd.optional \cup c.cmd.locals ELSE {})
  ELSE {o[2] : o \in {x \in c.cmd.own : x[1] \in On(c) \cup {""}}}

\* The variables a command gives its role: locals(), or its dictionary.  The
\* prefixes and the constants are only for @AnsibleMappedParams.
Variables(c) ==
  IF c.cmd.mapped
  THEN {c.cmd.role} \X
         (c.cmd.constants \cup
          IF c.cmd.passes THEN c.cmd.required \cup c.cmd.optional \cup c.cmd.locals ELSE {})
  ELSE {o[2] : o \in {x \in c.cmd.own : x[1] \in On(c) \cup {""}}}

\* _generate_config: the commands that write the defaults of a role, and the
\* variables these defaults leave empty.
Generators(role) ==
  {g \in Commands : g.role = role /\ ~g.skip /\ (g.mapped \/ g.constants # {})}
Mandatory(role) ==
  {role} \X UNION {IF g.mapped THEN g.required ELSE {} : g \in Generators(role)}

\* A string instead of the dictionary.
Unplayable(c) == "bundle=master" \in c.odd

-----------------------------------------------------------------------------
ToolboxTypeOK ==
  /\ call \in [Procs -> Calls]
  /\ extra \in BOOLEAN
  /\ pc \in [Procs -> {"off", "count", "mkdir", "play", "ansible", "clean", "mark",
                       "over", "died"}]
  /\ dirs \subseteq Directories
  /\ IsFiniteSet(dirs)
  /\ seen \in [Procs -> SUBSET Directories]
  /\ dir \in [Procs -> Directories \cup {ExtraLogsDir, NoDir}]
  /\ plays \subseteq Procs
  /\ ret \in [Procs -> {-1, 0, 2, Unset}]
  /\ marks \subseteq Directories \cup {ExtraLogsDir}
  /\ code \in [Procs -> {0, 1, 2, Unset}]

ToolboxInit ==
  /\ call \in Starts
  /\ extra \in BOOLEAN
  /\ pc = [p \in Procs |-> "off"]
  /\ dirs \in Found
  /\ seen = [p \in Procs |-> {}]
  /\ dir = [p \in Procs |-> NoDir]
  /\ plays = {}
  /\ ret = [p \in Procs |-> Unset]
  /\ marks = {}
  /\ code = [p \in Procs |-> Unset]

Goes(p, where) == pc' = [pc EXCEPT ![p] = where]
Exits(p, status) == Goes(p, "over") /\ code' = [code EXCEPT ![p] = status]

\* main(): fire calls the command, which returns what is to be run.
Call(p) ==
  /\ pc[p] = "off"
  /\ IF EarlyExit(call[p]) = {}
     THEN Goes(p, "count") /\ UNCHANGED code
     ELSE \E status \in EarlyExit(call[p]) : Exits(p, status)
  /\ UNCHANGED <<call, extra, dirs, seen, dir, plays, ret, marks>>

\* Mutant: only the directories of the same group are counted.
CountDirectoriesOfGroup(p) ==
  /\ pc[p] = "count"
  /\ IF extra
     THEN dir' = [dir EXCEPT ![p] = ExtraLogsDir] /\ UNCHANGED seen
     ELSE /\ seen' = [seen EXCEPT ![p] = dirs]
          /\ dir' = [dir EXCEPT ![p] =
                       [index |-> Cardinality({d \in dirs : d.group = call[p].cmd.group}),
                        group |-> call[p].cmd.group, command |-> call[p].cmd.command,
                        suffix |-> ""]]
  /\ Goes(p, "mkdir")
  /\ UNCHANGED <<call, extra, dirs, plays, ret, marks, code>>

\* _run: len(list(artifact_dir.glob("*__*"))), unless the directory is given.
CountDirectories(p) ==
  /\ pc[p] = "count"
  /\ IF extra
     THEN dir' = [dir EXCEPT ![p] = ExtraLogsDir] /\ UNCHANGED seen
     ELSE /\ seen' = [seen EXCEPT ![p] = dirs]
          /\ dir' = [dir EXCEPT ![p] =
                       [index |-> Cardinality(dirs), group |-> call[p].cmd.group,
                        command |-> call[p].cmd.command,
                        suffix |-> IF call[p].cmd.suffixed THEN call[p].suffix ELSE ""]]
  /\ Goes(p, "mkdir")
  /\ UNCHANGED <<call, extra, dirs, plays, ret, marks, code>>

\* mkdir(exist_ok=True)
MakeDirectory(p) ==
  /\ pc[p] = "mkdir"
  /\ dirs' = IF extra THEN dirs ELSE dirs \cup {dir[p]}
  /\ Goes(p, "play")
  /\ UNCHANGED <<call, extra, seen, dir, plays, ret, marks, code>>

WritePlay(p) ==
  /\ pc[p] = "play"
  /\ IF Unplayable(call[p])
     THEN Exits(p, 1) /\ UNCHANGED plays
     ELSE /\ plays' = plays \cup {p}
          /\ Goes(p, "ansible")
          /\ UNCHANGED code
  /\ UNCHANGED <<call, extra, dirs, seen, dir, ret, marks>>

\* subprocess.run
AnsibleEnds(p) ==
  /\ pc[p] = "ansible"
  /\ \E status \in {-1, 0, 2} : ret' = [ret EXCEPT ![p] = status]
  /\ Goes(p, "clean")
  /\ UNCHANGED <<call, extra, dirs, seen, dir, plays, marks, code>>

\* The finally clause, and the exit that follows it.
RemovePlay(p) ==
  /\ pc[p] = "clean"
  /\ plays' = plays \ {p}
  /\ IF ret[p] = 0 THEN Exits(p, 0) ELSE Goes(p, "mark") /\ UNCHANGED code
  /\ UNCHANGED <<call, extra, dirs, seen, dir, ret, marks>>

\* Mutant: an interruption is no failure.
MarkFailureNotInterrupted(p) ==
  /\ pc[p] = "mark"
  /\ marks' = IF ret[p] > 0 THEN marks \cup {dir[p]} ELSE marks
  /\ Exits(p, IF ret[p] = -1 THEN 1 ELSE ret[p])
  /\ UNCHANGED <<call, extra, dirs, seen, dir, plays, ret>>

MarkFailure(p) ==
  /\ pc[p] = "mark"
  /\ marks' = marks \cup {dir[p]}
  /\ Exits(p, IF ret[p] = -1 THEN 1 ELSE ret[p])
  /\ UNCHANGED <<call, extra, dirs, seen, dir, plays, ret>>

\* Killed anywhere (kill_bg_processes), or interrupted out of the try block.
Die(p) ==
  /\ pc[p] \in {"count", "mkdir", "play", "ansible", "clean", "mark"}
  /\ Goes(p, "died")
  /\ UNCHANGED <<call, extra, dirs, seen, dir, plays, ret, marks, code>>

Step(p) ==
  \/ Call(p) \/ CountDirectories(p) \/ MakeDirectory(p) \/ WritePlay(p)
  \/ AnsibleEnds(p) \/ RemovePlay(p) \/ MarkFailure(p)

ToolboxNext == \E p \in Procs : Step(p) \/ Die(p)

ToolboxSpec == ToolboxInit /\ [][ToolboxNext]_toolboxVars

-----------------------------------------------------------------------------
(* Properties. *)

\* The numbers of the artifact directories tell the order of the commands: a
\* command that starts when the directory of another one is there gets a
\* higher number, and so a directory of its own (_common.py:123).  Only
\* commands that count at the same time may share one.
DirectoriesInOrder ==
  \A p, q \in Procs :
    dir[p] \in seen[q] => dir[p].index < dir[q].index

\* A play that failed or was interrupted leaves a FAILURE in the directory of
\* its command, or nobody sees which one failed (testing/run:130); and a
\* FAILURE is there for a reason, even in a directory two commands share.  An
\* exit status 0 is a play that succeeded, or a call that asked for none.
FailureIsMarked ==
  /\ \A p \in Procs : pc[p] = "over" /\ ret[p] \in {-1, 2} => dir[p] \in marks
  /\ \A d \in marks : \E p \in Procs : dir[p] = d /\ ret[p] \in {-1, 2}
  /\ \A p \in Procs :
       code[p] = 0 => ret[p] = 0 \/ call[p].how # "run" \/ call[p].cmd.role = NoRole

\* Whatever command plays a role gives it the variables that its defaults
\* leave empty ("Mandatory value", ansible_default_config.py:61): a role is
\* played by commands of several classes, which write them one by one.
MandatoryIsGiven ==
  \A p \in Procs :
    pc[p] = "ansible" => Mandatory(call[p].cmd.role) \subseteq Variables(call[p])
==============================================================================
