---------------------------- MODULE ResultsStore ----------------------------
(***************************************************************************)
(* The results of a test and the reports generated from them: the stores   *)
(* of visualizations/, which parse a directory of artifacts and keep the   *)
(* outcome in cache.pickle, under the driver testing/common/visualize.py,  *)
(* which runs matbench once for each stage of each report. Every matbench  *)
(* is a process of its own: what the first one parses reaches the others   *)
(* by the cache. The driver may be killed at any time, and run again.      *)
(***************************************************************************)
EXTENDS ResultsParsers

CONSTANTS
  Starts,         \* workloads, with the artifacts on the server and here
  Plans,          \* what the driver is asked to do
  MaxVersion,     \* bound on the versions of the parsers
  MaxRuns         \* bound on the runs of the driver

Workloads == {"codeflare", "load-aware", "skeleton", "rhods-notebooks-performance",
              "rhods-pipelines", "rhods-notebooks"}

AlwaysSteps ==
  [w \in Workloads |->
     CASE w = "codeflare" -> CodeflareAlways
       [] w = "load-aware" -> LoadAwareAlways
       [] w = "skeleton" -> SkeletonAlways
       [] w = "rhods-notebooks-performance" -> PerformanceAlways
       [] w = "rhods-pipelines" -> PipelinesAlways
       [] w = "rhods-notebooks" -> NotebooksAlways]

OnceSteps ==
  [w \in Workloads |->
     CASE w = "codeflare" -> CodeflareOnce
       [] w = "load-aware" -> LoadAwareOnce
       [] w = "skeleton" -> SkeletonOnce
       [] w = "rhods-notebooks-performance" -> PerformanceOnce
       [] w = "rhods-pipelines" -> PipelinesOnce
       [] w = "rhods-notebooks" -> NotebooksOnce]

StepsOf(w) == ToSet(AlwaysSteps[w]) \cup ToSet(OnceSteps[w])
ArtifactsOf(w) == UNION {s.files \cup ({s.dir} \ {""}) : s \in StepsOf(w)}
FieldsOf(w) == UNION {s.fields : s \in StepsOf(w)}
NoFields(w) == [f \in FieldsOf(w) |-> "none"]

FilesOf(w) == [ArtifactsOf(w) -> {"good", "bad", "absent"}]
Levels == {"full", "part", "none"}
ResultsOf(w) == [FieldsOf(w) -> Levels]

-----------------------------------------------------------------------------
(* Parsing: the steps in their order, until one raises. *)

Outcome(step, files, fields) ==
  IF step.dir # "" /\ files[step.dir] = "absent" THEN step.nodir
  ELSE IF \E a \in step.files : files[a] = "absent" THEN step.absent
  ELSE IF \E a \in step.files : files[a] = "bad" THEN step.bad
  ELSE IF \E f \in step.needs : fields[f] = "none" THEN "raise"
  ELSE IF step.from # {} THEN fields[CHOOSE f \in step.from : TRUE]
  ELSE "full"

\* What becomes of a field when one more step contributes to it.
Completed(old, new) == IF new \in {"none", old} THEN old ELSE "part"

Assign(parsed, step, outcome) ==
  IF outcome = "raise" THEN [parsed EXCEPT !.ok = FALSE]
  ELSE [parsed EXCEPT !.fields =
          [f \in DOMAIN @ |-> IF f \notin step.fields THEN @[f]
                              ELSE IF step.joins THEN Completed(@[f], outcome)
                              ELSE outcome]]

Advance(parsed, step, files) ==
  IF parsed.ok THEN Assign(parsed, step, Outcome(step, files, parsed.fields)) ELSE parsed

Parse(steps, files, fields) ==
  LET upTo[i \in 0 .. Len(steps)] ==
        IF i = 0 THEN [ok |-> TRUE, fields |-> fields]
                 ELSE Advance(upTo[i - 1], steps[i], files)
  IN  upTo[Len(steps)]

-----------------------------------------------------------------------------
(* What the other code asks of the results. *)

\* build_lts_payloads(); load-aware makes no payload.
LtsNeeds ==
  [w \in Workloads |->
     CASE w = "codeflare" -> CodeflareLts
       [] w = "load-aware" -> {}
       [] w = "skeleton" -> SkeletonLts
       [] w = "rhods-notebooks-performance" -> PerformanceLts
       [] w = "rhods-pipelines" -> PipelinesLts
       [] w = "rhods-notebooks" -> NotebooksLts]

\* The metrics that the payload names are all there, or there are none.
HasLts(w, fields) ==
  /\ \A f \in LtsNeeds[w] :
       /\ f \in DOMAIN fields /\ fields[f] # "none"
       /\ f = "metrics" => fields[f] = "full"
  /\ w = "rhods-notebooks" /\ fields[NotebooksUsers.given] # "none"
       => fields[NotebooksUsers.needs] = "full"

\* parsedObjectToModel(): a user without data is no UserDataEntry.
Converts(w, fields) == w = "rhods-pipelines" => fields["user_data"] # "none"

NoCache == [state |-> "none", version |-> 0, fields |-> <<>>]
TornCache == [state |-> "torn", version |-> 0, fields |-> <<>>]
WholeCache(v, fields) == [state |-> "whole", version |-> v, fields |-> fields]

\* A cache is written once the results are in the matrix.
CachesOf(w) ==
  {NoCache, TornCache} \cup
  {c \in [state : {"whole"}, version : Nat, fields : ResultsOf(w)] : Converts(w, c.fields)}

ASSUME StoreAssumption ==
  /\ MaxVersion \in Nat /\ MaxRuns \in Nat
  /\ Plans \subseteq [download : BOOLEAN, lts : BOOLEAN, save : BOOLEAN, ignore : BOOLEAN,
                      filters : Nat, reports : Nat \ {0}]
  /\ \A s \in Starts :
       /\ s.workload \in Workloads
       /\ s.files \in FilesOf(s.workload) /\ s.cache \in CachesOf(s.workload)
       /\ s.server \in [files : FilesOf(s.workload), cache : CachesOf(s.workload)]

\* The stores that look at MATBENCH_STORE_IGNORE_CACHE.
MayIgnoreCache == {"codeflare", "load-aware"}

\* is_mandatory_file(), is_cache_file(): with prefer_cache, no other artifact
\* is downloaded when there is a cache.
IsMandatoryFile(a) == a = "config.yaml"

-----------------------------------------------------------------------------
(* The driver: the stages of generate_visualization(), for each one. *)

Report(plan) ==
  <<"parse">> \o (IF plan.lts THEN <<"lts", "schema">> ELSE <<>>)
              \o (IF plan.save THEN <<"save">> ELSE <<>>)
              \o [i \in 1..plan.filters |-> "visualize"] \o <<"verdict">>

\* One report after the other.
Stages(plan) ==
  LET report == Report(plan) IN
  (IF plan.download THEN <<"download">> ELSE <<>>)
  \o [i \in 1 .. plan.reports * Len(report) |-> report[1 + ((i - 1) % Len(report))]]

StageNames == {"download", "parse", "lts", "schema", "save", "visualize", "verdict"}
Readers == {"parse", "lts", "visualize"}

VARIABLES
  workload,   \* matbench.workload
  server,     \* the artifacts and the cache at MATBENCH_URL
  files,      \* the artifacts in MATBENCH_RESULTS_DIRNAME,
  cache,      \* and its cache.pickle
  version,    \* PARSER_VERSION of the store
  runs,       \* the number of runs of the driver
  driver,     \* its plan, what it has left to do, its error flag and status
  proc,       \* the matbench that it runs
  wrong,      \* history: what went wrong in this run
  reports     \* history: what the processes of this run took from the store

storeVars == <<workload, server, files, cache, version, runs, driver, proc, wrong, reports>>
data == <<workload, server, version, runs>>

NoProc == [pc |-> "none", hit |-> FALSE, fields |-> <<>>, version |-> 0, get |-> "unset"]

Stage == Head(driver.todo)
Stop(status) == driver' = [driver EXCEPT !.status = status]

StoreInit ==
  /\ \E s \in Starts : /\ workload = s.workload /\ server = s.server
                       /\ files = s.files /\ cache = s.cache
  /\ version = 1
  /\ runs = 0
  /\ driver = [status |-> "idle", todo |-> <<>>, error |-> FALSE, ignore |-> FALSE]
  /\ proc = NoProc
  /\ wrong = {} /\ reports = {}

\* generate_from_dir, or download_and_generate_visualizations.
Run(plan) ==
  /\ driver.status # "running" /\ runs < MaxRuns
  /\ runs' = runs + 1
  /\ driver' = [status |-> "running", todo |-> Stages(plan), error |-> FALSE,
                ignore |-> plan.ignore]
  /\ wrong' = {} /\ reports' = {}
  /\ UNCHANGED <<workload, server, files, cache, version, proc>>

At(stage) == driver.status = "running" /\ driver.todo # <<>> /\ Stage = stage /\ proc.pc = "none"

\* The stage is over; `error` is a variable of generate_visualization.
Proceed(failed) ==
  driver' = [driver EXCEPT !.todo = Tail(@), !.error = @ \/ failed]

Blame(what) == wrong' = wrong \cup {what}

\* matbench download, whose failure raises.
Download ==
  /\ At("download")
  /\ \/ /\ files' = [a \in DOMAIN files |->
                       IF files[a] = "absent" /\ (server.cache.state = "none" \/ IsMandatoryFile(a))
                       THEN server.files[a] ELSE files[a]]
        /\ cache' = IF cache.state = "none" THEN server.cache ELSE cache
        /\ Proceed(FALSE)
        /\ UNCHANGED wrong
     \/ Stop("failed") /\ Blame("download") /\ UNCHANGED <<files, cache>>
  /\ UNCHANGED <<data, proc, reports>>

\* export_lts_schema, which reads no result, may fail like any command.
Schema ==
  /\ At("schema")
  /\ \/ Proceed(FALSE) /\ UNCHANGED wrong
     \/ Proceed(TRUE) /\ Blame("schema")
  /\ UNCHANGED <<data, files, cache, proc, reports>>

\* shutil.copytree refuses a destination that exists, as ARTIFACT_DIR does.
Save ==
  /\ At("save")
  /\ Stop("failed") /\ Blame("save")
  /\ UNCHANGED <<data, files, cache, proc, reports>>

\* `if error: raise`, at the end of one visualization; plotting_failed is
\* never set.
Verdict ==
  /\ At("verdict")
  /\ IF driver.error THEN Stop("failed")
     ELSE driver' = [driver EXCEPT !.todo = Tail(@),
                                   !.status = IF Len(driver.todo) = 1 THEN "ok" ELSE @]
  /\ UNCHANGED <<data, files, cache, proc, wrong, reports>>

-----------------------------------------------------------------------------
(* A matbench: the store parses the directory, then the stage uses it. *)

IgnoresCache == driver.ignore /\ workload \in MayIgnoreCache

\* The exit of the process: of the three stages, only the first one raises.
Exit(failed) ==
  /\ proc' = NoProc
  /\ IF failed /\ Stage = "parse" THEN Stop("failed") ELSE Proceed(failed)
  /\ wrong' = IF failed THEN wrong \cup {Stage} ELSE wrong

Crash == Exit(TRUE) /\ UNCHANGED <<files, reports>>

Start ==
  /\ \E stage \in Readers : At(stage)
  /\ proc' = [NoProc EXCEPT !.pc = "load"]
  /\ UNCHANGED <<data, files, cache, driver, wrong, reports>>

\* Mutant: the version is not compared.
CacheOfAnyVersion == ~ IgnoresCache /\ cache.state = "whole"

CacheIsCurrent ==
  ~ IgnoresCache /\ cache.state = "whole" /\ cache.version = version

\* load_cache(): pickle.load of a file that was cut raises an EOFError, which
\* is no ValueError.
LoadCache ==
  /\ proc.pc = "load"
  /\ IF ~ IgnoresCache /\ cache.state = "torn"
     THEN Crash
     ELSE /\ proc' =
               IF CacheIsCurrent
               THEN [proc EXCEPT !.pc = "always", !.hit = TRUE, !.get = "away",
                                 !.fields = cache.fields, !.version = cache.version]
               ELSE [proc EXCEPT !.pc = "always", !.fields = NoFields(workload),
                                 !.version = version]
          /\ UNCHANGED <<files, driver, wrong, reports>>
  /\ UNCHANGED <<data, cache>>

\* _parse_always(): "parsed even when reloading from the cache file".
ParseAlways ==
  /\ proc.pc = "always"
  /\ LET parsed == Parse(AlwaysSteps[workload], files, proc.fields) IN
       IF parsed.ok
       THEN /\ proc' = [proc EXCEPT !.pc = IF proc.hit THEN "matrix" ELSE "once",
                                    !.fields = parsed.fields, !.get = "set"]
            /\ UNCHANGED <<files, driver, wrong, reports>>
       ELSE Crash
  /\ UNCHANGED <<data, cache>>

\* _parse_once()
ParseOnce ==
  /\ proc.pc = "once"
  /\ LET parsed == Parse(OnceSteps[workload], files, proc.fields) IN
       IF parsed.ok
       THEN /\ proc' = [proc EXCEPT !.pc = "matrix", !.fields = parsed.fields]
            /\ UNCHANGED <<files, driver, wrong, reports>>
       ELSE Crash
  /\ UNCHANGED <<data, cache>>

\* Mutant: the cache is written again after it was read.
AddToMatrixAndWrite ==
  /\ proc.pc = "matrix"
  /\ IF Converts(workload, proc.fields)
     THEN /\ proc' = [proc EXCEPT !.pc = "open"]
          /\ UNCHANGED <<files, driver, wrong, reports>>
     ELSE Crash
  /\ UNCHANGED <<data, cache>>

\* fn_add_to_matrix()
AddToMatrix ==
  /\ proc.pc = "matrix"
  /\ IF Converts(workload, proc.fields)
     THEN /\ proc' = [proc EXCEPT !.pc = IF proc.hit THEN "use" ELSE "open"]
          /\ UNCHANGED <<files, driver, wrong, reports>>
     ELSE Crash
  /\ UNCHANGED <<data, cache>>

\* open(CACHE_FILENAME, "wb") truncates the file, and the function get, which
\* cannot be pickled, is taken away from the test_config.
OpenCache ==
  /\ proc.pc = "open"
  /\ cache' = TornCache
  /\ proc' = [proc EXCEPT !.pc = "dump", !.get = "away"]
  /\ UNCHANGED <<data, files, driver, wrong, reports>>

\* pickle.dump(), which raises when the disk is full.
DumpCache ==
  /\ proc.pc = "dump"
  /\ \/ /\ cache' = WholeCache(proc.version, proc.fields)
        /\ proc' = [proc EXCEPT !.pc = "restore"]
        /\ UNCHANGED <<files, driver, wrong, reports>>
     \/ Crash /\ UNCHANGED cache
  /\ UNCHANGED data

RestoreConfig ==
  /\ proc.pc = "restore"
  /\ proc' = [proc EXCEPT !.pc = "use", !.get = "set"]
  /\ UNCHANGED <<data, files, cache, driver, wrong, reports>>

LtsPayload == Stage = "lts" => HasLts(workload, proc.fields)

\* Mutant: the payload is not compared with its model.
UseResultsUnchecked ==
  /\ proc.pc = "use"
  /\ reports' = reports \cup {[stage |-> Stage, version |-> proc.version,
                               fields |-> proc.fields]}
  /\ \/ Exit(FALSE)
     \/ Stage = "visualize" /\ Exit(TRUE)
  /\ UNCHANGED <<data, files, cache>>

\* The stage itself. A payload is refused without all of what it needs, and may
\* be for a value of it; a plot may log errors, that the driver looks for, or
\* fail.
UseResults ==
  /\ proc.pc = "use"
  /\ reports' = reports \cup {[stage |-> Stage, version |-> proc.version,
                               fields |-> proc.fields]}
  /\ \/ LtsPayload /\ Exit(FALSE)
     \/ Stage \in {"lts", "visualize"} /\ Exit(TRUE)
     \/ /\ Stage = "visualize" /\ Proceed(TRUE) /\ proc' = NoProc
        /\ Blame("ERROR")
  /\ UNCHANGED <<data, files, cache>>

\* The CI gives up on the job, in any state of the cache.
Kill ==
  /\ driver.status = "running"
  /\ Stop("killed") /\ proc' = NoProc
  /\ UNCHANGED <<data, files, cache, wrong, reports>>

\* Between two runs: the artifacts that were missing arrive, or the parsers get
\* a new version.
ArtifactsArrive ==
  /\ driver.status # "running" /\ \E a \in DOMAIN files : files[a] = "absent"
  /\ files' = [a \in DOMAIN files |-> IF files[a] = "absent" THEN "good" ELSE files[a]]
  /\ driver' = [driver EXCEPT !.status = "idle"]
  /\ UNCHANGED <<data, cache, proc, wrong, reports>>

ParserChanges ==
  /\ driver.status # "running" /\ version < MaxVersion
  /\ version' = version + 1
  /\ driver' = [driver EXCEPT !.status = "idle"]
  /\ UNCHANGED <<workload, server, files, cache, runs, proc, wrong, reports>>

Done == driver.status # "running" /\ runs = MaxRuns /\ UNCHANGED storeVars

StoreNext ==
  \/ \E plan \in Plans : Run(plan)
  \/ Download \/ Schema \/ Save \/ Verdict
  \/ Start \/ LoadCache \/ ParseAlways \/ ParseOnce \/ AddToMatrix
  \/ OpenCache \/ DumpCache \/ RestoreConfig \/ UseResults
  \/ Kill
  \/ ArtifactsArrive
  \/ ParserChanges
  \/ Done

StoreSpec == StoreInit /\ [][StoreNext]_storeVars

-----------------------------------------------------------------------------
(* Properties. *)

Pcs == {"none", "load", "always", "once", "matrix", "open", "dump", "restore", "use"}

StoreTypeOK ==
  /\ workload \in Workloads
  /\ server \in [files : FilesOf(workload), cache : CachesOf(workload)]
  /\ files \in FilesOf(workload) /\ cache \in CachesOf(workload)
  /\ version \in Nat /\ runs \in 0 .. MaxRuns
  /\ driver \in [status : {"idle", "running", "ok", "failed", "killed"},
                 todo : Seq(StageNames), error : BOOLEAN, ignore : BOOLEAN]
  /\ driver.status = "running" => driver.todo # <<>>
  /\ proc \in [pc : Pcs, hit : BOOLEAN, fields : ResultsOf(workload) \cup {<<>>},
               version : Nat, get : {"unset", "set", "away"}]
  /\ proc.pc \notin {"none", "load"} => proc.fields \in ResultsOf(workload)
  /\ wrong \subseteq StageNames \cup {"ERROR"}
  /\ reports \subseteq [stage : Readers, version : Nat, fields : ResultsOf(workload)]

\* The reports, the LTS payload and the matrix of one run of the driver are
\* made from the same results, parsed by the parsers of that run, although
\* each process parses or loads them anew (store/__init__.py, load_cache); and
\* that code can call test_config.get, which is taken away while the cache is
\* written, and is not in the cache.
OneReport ==
  /\ driver.status = "running" =>
       \A r, q \in reports : r.version = version /\ r.fields = q.fields
  /\ proc.pc = "use" => proc.get = "set"

\* A cache that the parsers can use is only ever read: no crash, failure or
\* artifact that arrives can damage it, nor change what it says.
CacheIsSafe ==
  [][CacheIsCurrent => cache' = cache]_storeVars

\* The artifacts that a report cannot do without.
Mandatory ==
  [w \in Workloads |->
     {"config.yaml"} \cup
     CASE w = "codeflare" ->
            {"generate_mcad_load", "cleanup_appwrappers", "test_case_config.yaml"}
       [] w = "load-aware" -> {"scale_test", "capture_environment"}
       [] w \in {"skeleton", "rhods-notebooks-performance"} -> {"_ansible.log"}
       [] w = "rhods-pipelines" -> {"ci-pod", "progress_ts.yaml"}
       [] OTHER -> {}]

\* What the parsing stage can fail because of: a cache that was cut, an
\* artifact that cannot be parsed, or a mandatory one that is absent; and a
\* cache of these parsers stands for all of them but config.yaml, as
\* is_mandatory_file() says for the downloads.
ReasonToFail ==
  \/ cache.state = "torn"
  \/ files["config.yaml"] # "good"
  \/ /\ ~ CacheIsCurrent
     /\ \/ \E a \in DOMAIN files : files[a] = "bad"
        \/ \E a \in Mandatory[workload] : files[a] = "absent"

\* A driver that fails has a reason, and the parsing stage has one of its own:
\* the results of a run that was only partly successful can be looked at.
FailureHasReason ==
  driver.status = "failed" => wrong # {} /\ (Stage = "parse" => ReasonToFail)

\* The driver succeeds when every stage of every visualization has, and logged
\* no error; the payloads that it leaves are then whole, whatever is missing of
\* the artifacts, or was when the cache was written.
SuccessIsWhole ==
  driver.status = "ok" =>
    /\ wrong = {}
    /\ \A r \in reports : r.stage = "lts" => HasLts(workload, r.fields)

\* The verdict of generate_visualization() and of its stages, both ways
\* (testing/common/visualize.py:142-199, build_lts_payloads of each store).
VerdictIsEarned == FailureHasReason /\ SuccessIsWhole
=============================================================================
