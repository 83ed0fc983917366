---------------------------- MODULE CiStepsProofs ----------------------------
(***************************************************************************)
(* For any jobs, any users and any of the failures and interruptions of    *)
(* the module: what a CI job shows of its steps, what its test finds, and  *)
(* what its clean-up leaves.                                               *)
(*                                                                         *)
(* The operations of an entry point are a sequence: what is proved about   *)
(* it is what it has, and what in it comes after what.  The invariants say *)
(* which operations have succeeded (EarnedInv), what values they work with *)
(* (ConfigInv), what they have made (MadeInv, ClusterInv), how far the     *)
(* Pods are (PodInv) and what is removed (GoneInv).                        *)
(***************************************************************************)
EXTENDS CiSteps, SequenceTheorems, WellFoundedInduction, TLAPS

\* The operations: a machineset is scaled for one of the roles.
Names ==
  {"set", "make", "scale", "drop", "uninstall", "raise", "mcad tests", "run_multi", "plot",
   "drop homes", "drop namespace"}
Things ==
  {"image", "redis", "minio", "account", "binding", "secret", "pull secret",
   "image policy", "odh", "operators", "kfdefs", "placeholder", "mcad namespace",
   "namespace", "preloaded image", "pipelines operator", "rhods", "ldap"}
Operation ==
  {o \in [op : Names, arg : Things \cup Keys \cup Roles \cup {"all", "NameError"} \cup Tests, level : Nat] :
     o.op = "scale" => o.arg \in Roles}

Has(s, o) == \E i \in 1 .. Len(s) : s[i] = o

-----------------------------------------------------------------------------
(* The operations of the entry points. *)

LEMMA Concat ==
  ASSUME NEW S, NEW s \in Seq(S), NEW t \in Seq(S)
  PROVE  /\ s \o t \in Seq(S)
         /\ Len(s \o t) = Len(s) + Len(t)
         /\ \A i \in 1 .. Len(s) : (s \o t)[i] = s[i]
         /\ \A i \in 1 .. Len(t) : (s \o t)[Len(s) + i] = t[i]
  BY ConcatProperties

LEMMA HasConcat ==
  ASSUME NEW s \in Seq(Operation), NEW t \in Seq(Operation), NEW o
  PROVE  Has(s \o t, o) <=> Has(s, o) \/ Has(t, o)
  <1>1. ASSUME NEW i \in 1 .. Len(s \o t), (s \o t)[i] = o
        PROVE  Has(s, o) \/ Has(t, o)
    <2>1. CASE i <= Len(s)
      BY <1>1, <2>1, Concat DEF Has
    <2>2. CASE i > Len(s)
      <3>1. i - Len(s) \in 1 .. Len(t) /\ (s \o t)[i] = t[i - Len(s)]
        BY <2>2, ConcatProperties
      <3> QED
        BY <1>1, <3>1 DEF Has
    <2> QED
      BY <2>1, <2>2, Concat
  <1>2. ASSUME NEW i \in 1 .. Len(s), s[i] = o
        PROVE  Has(s \o t, o)
    BY <1>2, Concat DEF Has
  <1>3. ASSUME NEW i \in 1 .. Len(t), t[i] = o
        PROVE  Has(s \o t, o)
    <2>1. Len(s) + i \in 1 .. Len(s \o t)
      BY Concat
    <2> QED
      BY <1>3, <2>1, Concat DEF Has
  <1> QED
    BY <1>1, <1>2, <1>3 DEF Has

LEMMA HasShort ==
  ASSUME NEW a
  PROVE  /\ Has(<<a>>, a)
         /\ \A b : Has(<<a, b>>, a) /\ Has(<<a, b>>, b)
  <1>1. Has(<<a>>, a)
    <2>1. 1 \in 1 .. Len(<<a>>) /\ <<a>>[1] = a
      OBVIOUS
    <2> QED
      BY <2>1 DEF Has
  <1>2. ASSUME NEW b
        PROVE  Has(<<a, b>>, a) /\ Has(<<a, b>>, b)
    <2>1. 1 \in 1 .. Len(<<a, b>>) /\ 2 \in 1 .. Len(<<a, b>>) /\ <<a, b>>[1] = a /\ <<a, b>>[2] = b
      OBVIOUS
    <2> QED
      BY <2>1 DEF Has
  <1> QED
    BY <1>1, <1>2

LEMMA OperationsOfTheCode ==
  /\ \A what \in Things : Make(what) \in Operation
  /\ \A key \in Keys : Do("set", key) \in Operation
  /\ \A role \in Roles : Do("scale", role) \in Operation
  /\ Do("mcad tests", "all") \in Operation /\ Do("run_multi", "sdk_user") \in Operation
  /\ Do("run_multi", "pipelines") \in Operation /\ Do("drop homes", "all") \in Operation
  /\ Do("uninstall", "rhods") \in Operation /\ Do("uninstall", "pipelines operator") \in Operation
  /\ Do("drop", "ldap") \in Operation /\ Do("drop namespace", "driver") \in Operation
  /\ \A level \in Nat : /\ Finally(level, "drop", "kfdefs") \in Operation
                        /\ Finally(level, "drop", "operators") \in Operation
                        /\ Finally(level, "raise", "NameError") \in Operation
                        /\ Finally(level, "plot", "all") \in Operation
  BY DEF Make, Do, Finally, Operation, Names, Things, Keys, Roles, Tests

LEMMA ShortSequences ==
  ASSUME NEW S, NEW a \in S
  PROVE  /\ <<>> \in Seq(S) /\ <<a>> \in Seq(S)
         /\ \A b \in S : <<a, b>> \in Seq(S)
         /\ \A b, c \in S : <<a, b, c>> \in Seq(S)
         /\ \A b, c, d \in S : <<a, b, c, d>> \in Seq(S)
         /\ \A b, c, d, e \in S : <<a, b, c, d, e>> \in Seq(S)
         /\ \A b, c, d, e, f \in S : <<a, b, c, d, e, f>> \in Seq(S)
  OBVIOUS

LEMMA IfIsASequence ==
  ASSUME NEW S, NEW s \in Seq(S), NEW b \in BOOLEAN
  PROVE  If(b, s) \in Seq(S)
  BY DEF If

LEMMA PrepareParts ==
  ASSUME NEW S
  PROVE  /\ /\ Make("odh") \in S /\ Make("operators") \in S /\ Make("kfdefs") \in S /\ Make("placeholder") \in S
            => PrepareCommon \in Seq(S)
         /\ /\ Make("image") \in S /\ Make("redis") \in S /\ Make("minio") \in S /\ Make("account") \in S
            /\ Make("binding") \in S /\ Make("secret") \in S
            => DriverPods \in Seq(S)
  BY ShortSequences DEF PrepareCommon, DriverPods

LEMMA PreferPrPart ==
  ASSUME NEW S, NEW j \in JobType, j.pr => Do("set", "tag") \in S
  PROVE  PreferPr(j) \in Seq(S)
  <1>1. CASE j.pr
    <2>1. <<Do("set", "tag")>> \in Seq(S)
      BY <1>1, ShortSequences
    <2> QED
      BY <1>1, <2>1 DEF PreferPr, If
  <1>2. CASE ~j.pr
    <2>1. <<>> \in Seq(S)
      OBVIOUS
    <2> QED
      BY <1>2, <2>1 DEF PreferPr, If
  <1> QED
    BY <1>1, <1>2

LEMMA CleanupPart ==
  ASSUME NEW S, NEW level, Finally(level, "drop", "kfdefs") \in S, Finally(level, "drop", "operators") \in S,
         Finally(level, "raise", "NameError") \in S
  PROVE  CleanupCommon(level) \in Seq(S)
  BY ShortSequences DEF CleanupCommon

\* The keys of the configuration that an entry point sets; what the pipelines test deploys.
Settable(j, key) ==
  \/ key = "tag" /\ j.pr /\ j.test # "mcad"
  \/ key = "namespace" /\ j.test = "sdk_user"
Needed == {"namespace", "image", "redis", "minio", "account", "binding", "secret"}
Installed == {"pipelines operator", "rhods", "ldap"}
BrewAccess == {"pull secret", "image policy"}

PrepareOperation(j) ==
  {o \in Operation :
     /\ o.level = 0 /\ o.op \in {"set", "make", "scale"}
     /\ o.op = "set" => Settable(j, o.arg)
     /\ o.op = "make" /\ j.test = "pipelines" => o.arg \in Needed \cup Installed \cup BrewAccess}
TestOperation(j) ==
  {o \in Operation :
     /\ o.op \in {"set", "run_multi", "mcad tests", "plot", "drop", "raise"}
     /\ o.op = "set" => Settable(j, o.arg)
     /\ o.op = "run_multi" => j.test # "mcad"
     /\ o.op = "drop" => j.test = "sdk_user" /\ o.arg \in {"kfdefs", "operators"}}
CleanupOperation ==
  {o \in Operation :
     o.level = 0 /\ o.op \in {"drop homes", "uninstall", "drop", "drop namespace", "raise"}}

LEMMA PrepareIsASequence ==
  ASSUME NEW j \in JobType
  PROVE  Prepare(j) \in Seq(PrepareOperation(j))
  <1> DEFINE S == PrepareOperation(j)
  <1>1. /\ j.pr /\ j.test # "mcad" => Do("set", "tag") \in S
        /\ j.test = "sdk_user" => Do("set", "namespace") \in S
        /\ \A role \in Roles : Do("scale", role) \in S
        /\ \A what \in Needed \cup Installed \cup BrewAccess : Make(what) \in S
        /\ j.test # "pipelines" => \A what \in Things : Make(what) \in S
    BY OperationsOfTheCode
       DEF Make, Do, PrepareOperation, Settable, Needed, Installed, BrewAccess, Keys, Things
  <1>2. Do("scale", "driver") \in S /\ Do("scale", "sutest") \in S
    BY <1>1 DEF Roles
  <1>3. DriverPods \in Seq(S) /\ Make("namespace") \in S
    BY <1>1, PrepareParts DEF Needed
  <1>4. CASE j.test = "mcad"
    <2>1. /\ Make("odh") \in S /\ Make("operators") \in S /\ Make("kfdefs") \in S /\ Make("placeholder") \in S
          /\ Make("mcad namespace") \in S
      BY <1>1, <1>4 DEF Things
    <2>2. PrepareCommon \in Seq(S) /\ <<Make("mcad namespace")>> \in Seq(S)
      BY <2>1, PrepareParts, ShortSequences
    <2>3. Prepare(j) = PrepareCommon \o <<Make("mcad namespace")>>
      BY <1>4 DEF Prepare
    <2> QED
      BY <2>2, <2>3, Concat
  <1>5. CASE j.test = "sdk_user"
    <2>1. /\ Make("odh") \in S /\ Make("operators") \in S /\ Make("kfdefs") \in S /\ Make("placeholder") \in S
          /\ Make("preloaded image") \in S /\ Do("set", "namespace") \in S
      BY <1>1, <1>5 DEF Things
    <2> DEFINE a == PrepareCommon
               b == <<Do("set", "namespace"), Make("namespace"), Do("scale", "driver")>>
               c == PreferPr(j)
               d == DriverPods
               e == <<Do("scale", "sutest"), Make("preloaded image")>>
    <2>2. a \in Seq(S) /\ b \in Seq(S) /\ e \in Seq(S)
      BY <1>2, <1>3, <2>1, PrepareParts, ShortSequences
    <2>3. c \in Seq(S)
      BY <1>1, <1>5, PreferPrPart
    <2>4. Prepare(j) = a \o b \o c \o d \o e
      BY <1>5 DEF Prepare
    <2> HIDE DEF a, b, c, d, e
    <2> QED
      BY <1>3, <2>2, <2>3, <2>4, Concat DEF d
  <1>6. CASE j.test = "pipelines"
    <2>1. /\ Make("pipelines operator") \in S /\ Make("rhods") \in S /\ Make("ldap") \in S
          /\ Make("pull secret") \in S /\ Make("image policy") \in S
      BY <1>1 DEF Installed, BrewAccess
    <2> DEFINE b == <<Make("namespace"), Do("scale", "driver")>>
               c == PreferPr(j)
               d == DriverPods
               e == <<Do("scale", "sutest"), Make("pipelines operator"),
                      Make("pull secret"), Make("image policy"), Make("rhods"), Make("ldap")>>
    <2>2. b \in Seq(S) /\ e \in Seq(S)
      BY <1>2, <1>3, <2>1, ShortSequences
    <2>3. c \in Seq(S)
      BY <1>1, <1>6, PreferPrPart
    <2>4. Prepare(j) = b \o c \o d \o e
      BY <1>6 DEF Prepare
    <2> HIDE DEF b, c, d, e
    <2> QED
      BY <1>3, <2>2, <2>3, <2>4, Concat DEF d
  <1> QED
    BY <1>4, <1>5, <1>6 DEF JobType, Tests

LEMMA CleanupIsASequence ==
  ASSUME NEW j \in JobType
  PROVE  Cleanup(j) \in Seq(CleanupOperation)
  <1>1. /\ Do("drop homes", "all") \in CleanupOperation /\ Do("uninstall", "rhods") \in CleanupOperation
        /\ Do("drop", "ldap") \in CleanupOperation
        /\ Do("uninstall", "pipelines operator") \in CleanupOperation
        /\ Do("drop namespace", "driver") \in CleanupOperation
        /\ Finally(0, "drop", "kfdefs") \in CleanupOperation
        /\ Finally(0, "drop", "operators") \in CleanupOperation
        /\ Finally(0, "raise", "NameError") \in CleanupOperation
    BY OperationsOfTheCode DEF CleanupOperation, Do, Finally
  <1>2. <<Do("drop homes", "all"), Do("uninstall", "rhods"), Do("drop", "ldap"),
          Do("uninstall", "pipelines operator"), Do("drop namespace", "driver")>> \in Seq(CleanupOperation)
    BY <1>1, ShortSequences
  <1>3. CleanupCommon(0) \in Seq(CleanupOperation)
    BY <1>1, CleanupPart
  <1> QED
    BY <1>2, <1>3 DEF Cleanup

LEMMA TestIsASequence ==
  ASSUME NEW j \in JobType
  PROVE  Test(j) \in Seq(TestOperation(j))
  <1> DEFINE S == TestOperation(j)
  <1>1. \A s \in Seq(S) : If(j.cleanupOnExit, s) \in Seq(S)
    BY IfIsASequence DEF JobType
  <1>2. /\ Do("mcad tests", "all") \in S /\ Finally(1, "plot", "all") \in S
        /\ Finally(1, "raise", "NameError") \in S /\ Finally(2, "raise", "NameError") \in S
        /\ j.pr /\ j.test # "mcad" => Do("set", "tag") \in S
        /\ j.test # "mcad" => Do("run_multi", "sdk_user") \in S /\ Do("run_multi", "pipelines") \in S
        /\ j.test = "sdk_user" => /\ Finally(1, "drop", "kfdefs") \in S
                                  /\ Finally(1, "drop", "operators") \in S
    BY OperationsOfTheCode DEF TestOperation, Settable, Do, Finally, Keys
  <1>3. CASE j.test = "mcad"
    <2>1. <<Do("mcad tests", "all")>> \in Seq(S) /\ <<Finally(1, "raise", "NameError")>> \in Seq(S)
      BY <1>2, ShortSequences
    <2> DEFINE a == <<Do("mcad tests", "all")>>
               b == If(j.cleanupOnExit, <<Finally(1, "raise", "NameError")>>)
    <2>2. a \in Seq(S) /\ b \in Seq(S) /\ Test(j) = a \o b
      BY <1>1, <1>3, <2>1 DEF Test
    <2> HIDE DEF a, b
    <2> QED
      BY <2>2, Concat
  <1>4. CASE j.test = "sdk_user"
    <2>1. <<Do("run_multi", "sdk_user")>> \in Seq(S) /\ CleanupCommon(1) \in Seq(S)
      BY <1>2, <1>4, ShortSequences, CleanupPart
    <2> DEFINE a == PreferPr(j)
               b == <<Do("run_multi", "sdk_user")>>
               c == If(j.cleanupOnExit, CleanupCommon(1))
    <2>2. a \in Seq(S)
      BY <1>2, <1>4, PreferPrPart
    <2>3. b \in Seq(S) /\ c \in Seq(S) /\ Test(j) = a \o b \o c
      BY <1>1, <1>4, <2>1 DEF Test
    <2> HIDE DEF a, b, c
    <2> QED
      BY <2>2, <2>3, Concat
  <1>5. CASE j.test = "pipelines"
    <2>1. /\ <<Do("run_multi", "pipelines"), Finally(1, "plot", "all")>> \in Seq(S)
          /\ <<Finally(2, "raise", "NameError")>> \in Seq(S)
      BY <1>2, <1>5, ShortSequences
    <2> DEFINE a == PreferPr(j)
               b == <<Do("run_multi", "pipelines"), Finally(1, "plot", "all")>>
               c == If(j.cleanupOnExit, <<Finally(2, "raise", "NameError")>>)
    <2>2. a \in Seq(S)
      BY <1>2, <1>5, PreferPrPart
    <2>3. b \in Seq(S) /\ c \in Seq(S) /\ Test(j) = a \o b \o c
      BY <1>1, <1>5, <2>1 DEF Test
    <2> HIDE DEF a, b, c
    <2> QED
      BY <2>2, <2>3, Concat
  <1> QED
    BY <1>3, <1>4, <1>5 DEF JobType, Tests

\* The operations of each step are of its kind.
LEMMA OpsOfTheSteps ==
  ASSUME NEW j \in JobType
  PROVE  /\ Prepare(j) \in Seq(Operation) /\ Test(j) \in Seq(Operation) /\ Cleanup(j) \in Seq(Operation)
         /\ \A i \in 1 .. Len(Prepare(j)) : Prepare(j)[i] \in PrepareOperation(j)
         /\ \A i \in 1 .. Len(Test(j)) : Test(j)[i] \in TestOperation(j)
         /\ \A i \in 1 .. Len(Cleanup(j)) : Cleanup(j)[i] \in CleanupOperation
  <1>1. PrepareOperation(j) \subseteq Operation /\ TestOperation(j) \subseteq Operation
        /\ CleanupOperation \subseteq Operation
    BY DEF PrepareOperation, TestOperation, CleanupOperation
  <1>2. Prepare(j) \in Seq(PrepareOperation(j)) /\ Test(j) \in Seq(TestOperation(j))
        /\ Cleanup(j) \in Seq(CleanupOperation)
    BY PrepareIsASequence, TestIsASequence, CleanupIsASequence
  <1>3. Prepare(j) \in Seq(Operation) /\ Test(j) \in Seq(Operation) /\ Cleanup(j) \in Seq(Operation)
    BY <1>1, <1>2, SeqMonotonic
  <1> QED
    BY <1>2, <1>3

LEMMA OpsAreASequence ==
  ASSUME job \in JobType, step \in 1 .. Len(Steps)
  PROVE  Ops \in Seq(Operation) /\ Len(Ops) \in Nat /\ DOMAIN Ops = 1 .. Len(Ops)
  <1>1. Steps[step] \in {"prepare_ci", "test_ci", "cleanup_cluster_ci"}
    BY DEF Steps
  <1>2. Ops \in Seq(Operation)
    BY <1>1, OpsOfTheSteps DEF Ops
  <1> QED
    BY <1>2

LEMMA SmallestOf ==
  ASSUME NEW T, T \subseteq Nat, T # {}
  PROVE  \E x \in T : \A y \in T : x <= y
  <1>1. \E x \in T : \A y \in T : ~ (<<y, x>> \in OpToRel(<, Nat))
    BY NatLessThanWellFounded, WFMin
  <1>2. PICK x \in T : \A y \in T : ~ (<<y, x>> \in OpToRel(<, Nat))
    BY <1>1
  <1>3. ASSUME NEW y \in T
        PROVE  x <= y
    <2>1. x \in Nat /\ y \in Nat
      OBVIOUS
    <2>2. ~ (y < x)
      BY <1>2, <2>1 DEF OpToRel
    <2> QED
      BY <2>1, <2>2
  <1> QED
    BY <1>3

\* An operation is followed by the next one, or, when it fails, by a later one.
LEMMA AfterIsLater ==
  ASSUME job \in JobType, step \in 1 .. Len(Steps), at \in 1 .. Len(Ops), NEW failed
  PROVE  /\ After(failed) \in at + 1 .. Len(Ops) + 1
         /\ ~failed => After(failed) = at + 1
         /\ failed => After(failed) = Len(Ops) + 1 \/ Ops[After(failed)].level > Ops[at].level
  <1> DEFINE later == {i \in at + 1 .. Len(Ops) : failed => Ops[i].level > Ops[at].level}
  <1>1. Len(Ops) \in Nat /\ later \subseteq Nat
    BY OpsAreASequence
  <1>2. After(failed) = IF later = {} THEN Len(Ops) + 1
                        ELSE CHOOSE i \in later : \A k \in later : i <= k
    BY DEF After
  <1>3. CASE later = {}
    BY <1>1, <1>2, <1>3
  <1>4. CASE later # {}
    <2>1. After(failed) \in later /\ \A k \in later : After(failed) <= k
      BY <1>1, <1>2, <1>4, SmallestOf
    <2> QED
      BY <1>1, <2>1
  <1> QED
    BY <1>3, <1>4

-----------------------------------------------------------------------------
(* The types. *)

\* What is known of a step that has not begun, and of a configuration that is loaded.
LoadInv ==
  /\ pc \in {"start", "load"} => pending = <<>> /\ ~writing /\ at = 1 /\ ~err
  /\ pending # <<>> \/ writing => mem \in [Keys -> Values]

\* The parts of TypeOK.
StepType ==
  /\ job \in Jobs /\ step \in 1 .. Len(Steps)
  /\ pc \in {"start", "load", "run", "over"}
  /\ outcome \in {"none", "ok", "failed", "interrupted", "refused"}
  /\ at \in 1 .. Len(Ops) + 1 /\ err \in BOOLEAN
ConfigType ==
  /\ mem \in [Keys -> Values] \cup {Absent}
  /\ shared \in [Keys -> Values] \cup {Absent, Torn}
  /\ pending \in Seq(Settings) /\ writing \in BOOLEAN
  /\ pc = "run" /\ at \in DOMAIN Ops => mem # Absent
FileType ==
  /\ failures \in BOOLEAN /\ finished \in {"none", "succeeded", "failed"}
  /\ exitCode \in {"none", "0", "1"} /\ plots \in {"none", "ok", "failed"}
ThingType == nodes \in [Roles -> Nat] /\ begun \subseteq {"pipelines operator", "rhods"}
PodType ==
  /\ pod \in [Users -> {"none", "running", "creating", "testing", "done", "killed"}]
  /\ home \in [Users -> {"none", "bare", "labelled"}]
  /\ jobIn \in Values \cup {"none"} /\ outlived \subseteq Users

Types == StepType /\ ConfigType /\ LoadInv /\ FileType /\ ThingType /\ PodType

LEMMA TypesAreOK == Types => TypeOK
  BY DEF Types, StepType, ConfigType, FileType, ThingType, PodType, TypeOK

LEMMA JobsAreTyped == StepType => job \in JobType
  BY JobsAssumption DEF StepType

LEMMA TypesInit == Init => Types
  <1> SUFFICES ASSUME Init
               PROVE  Types
    OBVIOUS
  <1>1. job \in JobType /\ step \in 1 .. Len(Steps)
    BY JobsAssumption DEF Init, Steps
  <1>2. at \in 1 .. Len(Ops) + 1
    BY <1>1, OpsAreASequence DEF Init
  <1>3. StepType
    BY <1>1, <1>2 DEF Init, StepType
  <1>4. pending \in Seq(Settings)
    BY DEF Init
  <1>5. ConfigType /\ LoadInv
    BY <1>4 DEF Init, ConfigType, LoadInv
  <1> QED
    BY <1>3, <1>5 DEF Init, Types, FileType, ThingType, PodType

LEMMA SameOps ==
  ASSUME UNCHANGED <<job, step>>
  PROVE  Ops' = Ops
  BY DEF Ops

LEMMA FilesAreNotTorn ==
  /\ Base \in [Keys -> Values] /\ Absent \notin [Keys -> Values] /\ Torn \notin [Keys -> Values]
  /\ Absent # Torn
  BY DEF Base, Absent, Torn, File, Keys, Values

\* The layers of the configuration are settings.
LEMMA LayersAreSettings ==
  ASSUME NEW j \in JobType, j.override # Unknown
  PROVE  Layers(j) \in Seq(Settings)
  <1>1. \A k \in Keys \cup {Unknown}, v \in Values : <<k, v>> \in Settings
    BY DEF Settings
  <1>2. j.override # "none" => <<j.override, "override">> \in Settings
    BY <1>1 DEF JobType, Values
  <1>3. j.preset # "none" => <<j.preset, "preset">> \in Settings
    BY <1>1 DEF JobType, Values
  <1>4. If(j.override # "none", <<<<j.override, "override">>>>) \in Seq(Settings)
    BY <1>2, ShortSequences DEF If
  <1>5. If(j.preset # "none", <<<<j.preset, "preset">>>>) \in Seq(Settings)
    BY <1>3, ShortSequences DEF If
  <1> QED
    BY <1>4, <1>5, Concat DEF Layers

LEMMA UpdatedIsTyped ==
  ASSUME NEW c \in [Keys -> Values], NEW s \in Settings
  PROVE  Updated(c, s[1], s[2]) \in [Keys -> Values]
  BY DEF Updated, Settings

\* A step of the script, or of the Pods, that leaves the operations alone.
LEMMA TypesStay ==
  ASSUME StepType, ConfigType, LoadInv, UNCHANGED <<job, step, at, err, configs>>,
         pc' \in {"start", "load", "run", "over"},
         pc' = "run" => pc = "run", pc' \in {"start", "load"} => pc \in {"start", "load"},
         outcome' \in {"none", "ok", "failed", "interrupted", "refused"}
  PROVE  StepType' /\ ConfigType' /\ LoadInv'
  <1>1. Ops' = Ops
    BY SameOps
  <1> QED
    BY <1>1 DEF StepType, ConfigType, LoadInv, configs

\* An operation.
LEMMA TypesOfOperation ==
  ASSUME StepType, ConfigType, LoadInv, NEW op, Ready(op), NEW failed \in BOOLEAN, Return(failed),
         pending' \in Seq(Settings)
  PROVE  StepType' /\ ConfigType' /\ LoadInv'
  <1>1. UNCHANGED <<job, step, pc, outcome, mem, shared, writing>> /\ pc = "run"
        /\ at \in DOMAIN Ops /\ ~writing /\ at' = After(failed)
    BY DEF Return, Ready
  <1>2. err' \in BOOLEAN
    BY DEF Return, StepType
  <1>3. Ops' = Ops
    BY <1>1, SameOps
  <1>4. Len(Ops) \in Nat /\ DOMAIN Ops = 1 .. Len(Ops) /\ at \in 1 .. Len(Ops)
    BY <1>1, JobsAreTyped, OpsAreASequence DEF StepType
  <1>5. After(failed) \in at + 1 .. Len(Ops) + 1
    BY <1>4, AfterIsLater, JobsAreTyped DEF StepType
  <1>6. StepType'
    BY <1>1, <1>2, <1>3, <1>4, <1>5 DEF StepType
  <1>7. mem # Absent /\ mem \in [Keys -> Values]
    BY <1>1 DEF ConfigType
  <1> QED
    BY <1>1, <1>3, <1>6, <1>7 DEF ConfigType, LoadInv

LEMMA NodesAreCounted ==
  ASSUME NEW j \in JobType, NEW role \in Roles
  PROVE  /\ MachineCount(j, role) \in Nat /\ NodeRequirement(j, role) \subseteq Nat
         /\ j.test # "pipelines" => NodeRequirement(j, role) \subseteq {MachineCount(j, role)}
         /\ j.test = "pipelines" /\ role \in j.unsized => NodeRequirement(j, role) = SizingErrors
         /\ role \notin j.unsized /\ MachineCount(j, role) < 256 =>
              NodeRequirement(j, role) = {MachineCount(j, role)}
  <1>1. j.users \in Nat \ {0} /\ PodSize(j, role).cpu \in Nat \ {0} /\ PodSize(j, role).memory \in Nat \ {0}
    BY DEF JobType, PodSize
  <1>2. \A a \in Nat \ {0}, b \in Nat \ {0} : Ceil(a, b) \in Nat \ {0}
    <2> SUFFICES ASSUME NEW a \in Nat \ {0}, NEW b \in Nat \ {0}
                 PROVE  (a + b - 1) \div b \in Nat \ {0}
      BY DEF Ceil
    <2> QED
      BY SMT
  <1>3. j.users * PodSize(j, role).cpu \in Nat \ {0} /\ j.users * PodSize(j, role).memory \in Nat \ {0}
    BY <1>1
  <1>4. Ceil(j.users * PodSize(j, role).cpu, NodeCpu) \in Nat \ {0}
        /\ Ceil(j.users * PodSize(j, role).memory, NodeMemory) \in Nat \ {0}
    BY <1>2, <1>3 DEF NodeCpu, NodeMemory
  <1>5. Ceil(j.users, MaxPodPerNode) \in Nat
    BY <1>1, <1>2 DEF MaxPodPerNode
  <1>6. MachineCount(j, role) \in Nat
    BY <1>4, <1>5 DEF MachineCount
  <1> QED
    BY <1>6 DEF NodeRequirement, SizingErrors

\* The operations that the script runs next.
LEMMA StepTypes ==
  ASSUME StepType, ConfigType, LoadInv, [Next]_vars
  PROVE  StepType' /\ ConfigType' /\ LoadInv'
  <1>0. pending \in Seq(Settings) /\ <<>> \in Seq(Settings)
    BY DEF ConfigType
  <1>1. CASE Prechecks
    BY <1>1, TypesStay DEF Prechecks
  <1>2. CASE Postchecks
    BY <1>2, TypesStay DEF Postchecks
  <1>3. CASE Interrupt
    BY <1>3, TypesStay DEF Interrupt
  <1>4. CASE NextStep
    <2>1. step' \in 1 .. Len(Steps)
      BY <1>4 DEF NextStep, StepType, Steps
    <2>2. job' = job /\ job \in JobType
      BY <1>4, JobsAreTyped DEF NextStep
    <2>3. Len(Ops') \in Nat
      <3>1. Ops' \in Seq(Operation)
        BY <2>1, <2>2, OpsOfTheSteps DEF Ops, Steps
      <3> QED
        BY <3>1
    <2>4. pc' = "start" /\ at' = 1 /\ outcome' = "none" /\ err' = FALSE /\ mem' = Absent /\ shared' = shared
          /\ pending' = <<>> /\ writing' = FALSE
      BY <1>4 DEF NextStep
    <2>5. 1 \in 1 .. Len(Ops') + 1 /\ FALSE \in BOOLEAN
      BY <2>3
    <2>6. job' \in Jobs
      BY <2>2 DEF StepType
    <2>7. StepType'
      BY <2>1, <2>4, <2>5, <2>6 DEF StepType
    <2> QED
      BY <1>0, <2>4, <2>7 DEF ConfigType, LoadInv
  <1>5. CASE InitFails
    <2>1. UNCHANGED <<job, step, outcome, configs>> /\ pc' = "run" /\ at' = Len(Ops) + 1 /\ err' = TRUE
      BY <1>5 DEF InitFails
    <2>2. Ops' = Ops /\ Len(Ops) \in Nat /\ DOMAIN Ops = 1 .. Len(Ops)
      BY <2>1, SameOps, JobsAreTyped, OpsAreASequence DEF StepType
    <2> QED
      BY <2>1, <2>2 DEF StepType, ConfigType, LoadInv, configs
  <1>6. CASE Load
    <2>1. UNCHANGED <<job, step, outcome, at, err, shared, writing>> /\ pc = "load" /\ pc' = "run"
          /\ pending' = Layers(job) /\ mem' = (IF shared = Absent THEN Base ELSE shared) /\ shared # Torn
          /\ job.override # Unknown
      BY <1>6 DEF Load
    <2>2. mem' \in [Keys -> Values]
      BY <2>1, FilesAreNotTorn DEF ConfigType
    <2>3. pending' \in Seq(Settings)
      BY <2>1, LayersAreSettings, JobsAreTyped
    <2>4. Ops' = Ops
      BY <2>1, SameOps
    <2> QED
      BY <2>1, <2>2, <2>3, <2>4, FilesAreNotTorn DEF StepType, ConfigType, LoadInv
  <1>7. CASE SetConfig
    <2>1. UNCHANGED <<job, step, process>> /\ pc = "run" /\ pending # <<>>
          /\ mem' = Updated(mem, Head(pending)[1], Head(pending)[2]) /\ pending' = Tail(pending)
          /\ writing' = job.shared /\ shared' = (IF job.shared THEN Torn ELSE shared)
      BY <1>7 DEF SetConfig
    <2>2. Head(pending) \in Settings /\ Tail(pending) \in Seq(Settings)
      BY <2>1 DEF ConfigType
    <2>3. mem' \in [Keys -> Values]
      BY <2>1, <2>2, UpdatedIsTyped DEF LoadInv
    <2>4. Ops' = Ops
      BY <2>1, SameOps
    <2>5. job.shared \in BOOLEAN
      BY JobsAreTyped DEF JobType
    <2> QED
      BY <2>1, <2>2, <2>3, <2>4, <2>5, FilesAreNotTorn DEF StepType, ConfigType, LoadInv, process
  <1>8. CASE WriteCopy
    <2>1. UNCHANGED <<job, step, process, mem, pending>> /\ pc = "run" /\ shared' = mem /\ writing' = FALSE
      BY <1>8 DEF WriteCopy
    <2>2. mem \in [Keys -> Values]
      BY <1>8 DEF WriteCopy, LoadInv
    <2>3. Ops' = Ops
      BY <2>1, SameOps
    <2> QED
      BY <2>1, <2>2, <2>3 DEF StepType, ConfigType, LoadInv, process
  <1>9. CASE Set
    <2>1. <<<<"tag", "pr">>>> \in Seq(Settings) /\ <<<<"namespace", "sdk-user-test">>>> \in Seq(Settings)
      <3>1. <<"tag", "pr">> \in Settings /\ <<"namespace", "sdk-user-test">> \in Settings
        BY DEF Settings, Keys, Values
      <3> QED
        BY <3>1, ShortSequences
    <2> QED
      BY <1>9, <2>1, TypesOfOperation DEF Set
  <1>10. CASE MakeIt
    BY <1>0, <1>10, TypesOfOperation DEF MakeIt
  <1>11. CASE ScaleUp
    BY <1>0, <1>11, TypesOfOperation DEF ScaleUp
  <1>12. CASE Drop
    BY <1>0, <1>12, TypesOfOperation DEF Drop
  <1>13. CASE Raise
    BY <1>0, <1>13, TypesOfOperation DEF Raise
  <1>14. CASE RunMulti
    BY <1>0, <1>14, TypesOfOperation DEF RunMulti
  <1>15. CASE Plot
    BY <1>0, <1>15, TypesOfOperation DEF Plot
  <1>16. CASE McadTests
    BY <1>0, <1>16, TypesOfOperation DEF McadTests
  <1>17. CASE DropHomes
    BY <1>0, <1>17, TypesOfOperation DEF DropHomes
  <1>18. CASE DropNamespace
    BY <1>0, <1>18, TypesOfOperation DEF DropNamespace
  <1>19. CASE StartPods \/ \E u \in Users : NewProject(u) \/ Label(u) \/ PodEnds(u)
    BY <1>19, TypesStay DEF StartPods, NewProject, Label, PodEnds, process, StepType
  <1>20. CASE UNCHANGED vars
    BY <1>20, TypesStay DEF vars, process, StepType
  <1> QED
    BY <1>1, <1>2, <1>3, <1>4, <1>5, <1>6, <1>7, <1>8, <1>9, <1>10, <1>11, <1>12, <1>13, <1>14, <1>15,
       <1>16, <1>17, <1>18, <1>19, <1>20 DEF Next, Done

\* What the other operations, and the Pods, leave alone.
LEMMA OpsKeepTheRest ==
  ASSUME [Next]_vars
  PROVE  \/ UNCHANGED <<files, things, pods>>
         \/ Postchecks \/ NextStep \/ Interrupt
         \/ MakeIt \/ ScaleUp \/ Drop \/ StartPods \/ RunMulti \/ Plot \/ McadTests \/ DropHomes \/ DropNamespace
         \/ \E u \in Users : NewProject(u) \/ Label(u) \/ PodEnds(u)
  <1>1. CASE Prechecks \/ InitFails \/ Load \/ SetConfig \/ WriteCopy
    BY <1>1 DEF Prechecks, InitFails, Load, SetConfig, WriteCopy
  <1>2. CASE Set \/ Raise
    BY <1>2 DEF Set, Raise
  <1>3. CASE Done \/ UNCHANGED vars
    BY <1>3 DEF Done, vars
  <1> QED
    BY <1>1, <1>2, <1>3 DEF Next

LEMMA FileTypes ==
  ASSUME FileType, StepType, [Next]_vars
  PROVE  FileType'
  <1>1. CASE UNCHANGED files
    BY <1>1 DEF FileType, files
  <1>2. CASE Postchecks
    <2>1. failures' = err /\ finished' \in {"failed", "succeeded"} /\ UNCHANGED <<exitCode, plots>>
      BY <1>2 DEF Postchecks
    <2> QED
      BY <2>1 DEF FileType, StepType
  <1>3. CASE NextStep \/ Interrupt
    BY <1>3 DEF NextStep, Interrupt, FileType
  <1>4. CASE RunMulti
    <2>1. exitCode' \in {"1", "0"} /\ UNCHANGED <<failures, finished, plots>>
      BY <1>4 DEF RunMulti
    <2> QED
      BY <2>1 DEF FileType
  <1>5. CASE Plot
    <2>1. plots' \in {"failed", "ok"} /\ UNCHANGED <<failures, finished, exitCode>>
      BY <1>5 DEF Plot
    <2> QED
      BY <2>1 DEF FileType
  <1>6. CASE McadTests
    <2>1. exitCode' \in {"1", "0"} /\ UNCHANGED <<failures, finished, plots>>
      BY <1>6 DEF McadTests
    <2> QED
      BY <2>1 DEF FileType
  <1>7. CASE MakeIt \/ ScaleUp \/ Drop \/ StartPods \/ DropHomes \/ DropNamespace
             \/ \E u \in Users : NewProject(u) \/ Label(u) \/ PodEnds(u)
    BY <1>7, <1>1 DEF MakeIt, ScaleUp, Drop, StartPods, DropHomes, DropNamespace, NewProject, Label, PodEnds
  <1> QED
    BY <1>1, <1>2, <1>3, <1>4, <1>5, <1>6, <1>7, OpsKeepTheRest

\* A machineset is scaled for one of the roles.
LEMMA ScaledForARole ==
  ASSUME StepType, Ready("scale")
  PROVE  Arg \in Roles
  <1>1. Ops \in Seq(Operation) /\ at \in DOMAIN Ops /\ Ops[at].op = "scale"
    BY JobsAreTyped, OpsAreASequence DEF StepType, Ready
  <1>2. Ops[at] \in Operation
    BY <1>1
  <1> QED
    BY <1>1, <1>2 DEF Operation, Arg

LEMMA ThingTypes ==
  ASSUME ThingType, StepType, [Next]_vars
  PROVE  ThingType'
  <1>1. CASE UNCHANGED <<nodes, begun>>
    BY <1>1 DEF ThingType
  <1>2. CASE MakeIt
    BY <1>2 DEF MakeIt, ThingType
  <1>3. CASE ScaleUp
    <2>1. Arg \in Roles /\ NodeRequirement(job, Arg) \subseteq Nat
      BY <1>3, ScaledForARole, NodesAreCounted, JobsAreTyped DEF ScaleUp
    <2>2. nodes \in [Roles -> Nat]
      BY DEF ThingType
    <2>3. \A count \in NodeRequirement(job, Arg) : [nodes EXCEPT ![Arg] = count] \in [Roles -> Nat]
      BY <2>1, <2>2
    <2>4. /\ begun' = begun
          /\ nodes' = nodes \/ \E count \in NodeRequirement(job, Arg) : nodes' = [nodes EXCEPT ![Arg] = count]
      BY <1>3 DEF ScaleUp
    <2> QED
      BY <2>2, <2>3, <2>4 DEF ThingType
  <1>4. CASE Postchecks \/ NextStep \/ Interrupt \/ Drop \/ StartPods \/ RunMulti \/ Plot \/ McadTests
             \/ DropHomes \/ DropNamespace
    BY <1>4, <1>1 DEF Postchecks, NextStep, Interrupt, Drop, StartPods, RunMulti, Plot, McadTests,
                      DropHomes, DropNamespace, things
  <1>5. CASE (\E u \in Users : NewProject(u) \/ Label(u) \/ PodEnds(u)) \/ UNCHANGED <<files, things, pods>>
    BY <1>5, <1>1 DEF NewProject, Label, PodEnds, things
  <1> QED
    BY <1>2, <1>3, <1>4, <1>5, OpsKeepTheRest

LEMMA PodTypes ==
  ASSUME PodType, StepType, ConfigType, [Next]_vars
  PROVE  PodType'
  <1> DEFINE PodStates == {"none", "running", "creating", "testing", "done", "killed"}
             HomeStates == {"none", "bare", "labelled"}
  <1>0. pod \in [Users -> PodStates] /\ home \in [Users -> HomeStates]
    BY DEF PodType
  <1>1. CASE UNCHANGED pods
    BY <1>1 DEF PodType, pods
  <1>2. CASE StartPods
    <2>1. mem["namespace"] \in Values
      <3>1. pc = "run" /\ at \in DOMAIN Ops
        BY <1>2 DEF StartPods, Ready
      <3>2. mem \in [Keys -> Values]
        BY <3>1 DEF ConfigType
      <3> QED
        BY <3>2 DEF Keys
    <2>2. jobIn' = mem["namespace"] /\ pod' = [u \in Users |-> "running"] /\ UNCHANGED <<home, outlived>>
      BY <1>2 DEF StartPods
    <2>3. pod' \in [Users -> PodStates]
      BY <2>2
    <2> QED
      BY <2>1, <2>2, <2>3 DEF PodType
  <1>3. CASE DropHomes
    <2>1. [u \in Users |-> IF home[u] = "labelled" THEN "none" ELSE home[u]] \in [Users -> HomeStates]
      BY <1>0
    <2>2. UNCHANGED <<pod, jobIn>> /\ outlived' = Active
          /\ home' \in {[u \in Users |-> IF home[u] = "labelled" THEN "none" ELSE home[u]], home}
      BY <1>3 DEF DropHomes
    <2>3. home' \in [Users -> HomeStates]
      BY <1>0, <2>1, <2>2
    <2> QED
      BY <2>2, <2>3 DEF PodType, Active
  <1>4. CASE DropNamespace
    <2> DEFINE killed == [u \in Users |-> IF u \in Active /\ jobIn = mem["namespace"]
                                          THEN "killed" ELSE pod[u]]
    <2>1. killed \in [Users -> PodStates]
      BY <1>0
    <2>2. UNCHANGED <<home, jobIn, outlived>> /\ (pod' = killed \/ pod' = pod)
      BY <1>4 DEF DropNamespace
    <2>3. pod' \in [Users -> PodStates]
      BY <1>0, <2>1, <2>2
    <2> QED
      BY <2>2, <2>3 DEF PodType
  <1>5. ASSUME NEW u \in Users, NewProject(u)
        PROVE  PodType'
    <2>1. pod' = [pod EXCEPT ![u] = "creating"] /\ home' = [home EXCEPT ![u] = "bare"]
          /\ UNCHANGED <<jobIn, outlived>>
      BY <1>5 DEF NewProject
    <2>2. pod' \in [Users -> PodStates] /\ home' \in [Users -> HomeStates]
      BY <1>0, <2>1
    <2> QED
      BY <2>1, <2>2 DEF PodType
  <1>6. ASSUME NEW u \in Users, Label(u)
        PROVE  PodType'
    <2> DEFINE new == IF job.test = "pipelines" /\ home[u] = "bare" THEN "labelled" ELSE home[u]
    <2>1. pod' = [pod EXCEPT ![u] = "testing"] /\ home' = [home EXCEPT ![u] = new]
          /\ UNCHANGED <<jobIn, outlived>>
      BY <1>6 DEF Label
    <2>2. new \in HomeStates
      BY <1>0
    <2> HIDE DEF new
    <2>3. pod' \in [Users -> PodStates] /\ home' \in [Users -> HomeStates]
      BY <1>0, <2>1, <2>2
    <2> QED
      BY <2>1, <2>3 DEF PodType
  <1>7. ASSUME NEW u \in Users, PodEnds(u)
        PROVE  PodType'
    <2> DEFINE new == IF pod[u] = "testing" THEN "done" ELSE "killed"
    <2>1. pod' = [pod EXCEPT ![u] = new] /\ UNCHANGED <<home, jobIn, outlived>>
      BY <1>7 DEF PodEnds
    <2>2. new \in PodStates
      OBVIOUS
    <2> HIDE DEF new
    <2>3. pod' \in [Users -> PodStates]
      BY <1>0, <2>1, <2>2
    <2> QED
      BY <2>1, <2>3 DEF PodType
  <1>8. CASE Postchecks \/ NextStep \/ Interrupt \/ MakeIt \/ ScaleUp \/ Drop \/ RunMulti \/ Plot \/ McadTests
    BY <1>8, <1>1 DEF Postchecks, NextStep, Interrupt, MakeIt, ScaleUp, Drop, RunMulti, Plot, McadTests
  <1> QED
    BY <1>1, <1>2, <1>3, <1>4, <1>5, <1>6, <1>7, <1>8, OpsKeepTheRest

LEMMA TypesStep == Types /\ [Next]_vars => Types'
  BY StepTypes, FileTypes, ThingTypes, PodTypes DEF Types

\* Every variable keeps its type, and an entry point only runs with a configuration (config.py:42).
THEOREM TypeCorrect == Spec => []TypeOK
  <1>1. Init => Types
    BY TypesInit
  <1>2. Types /\ [Next]_vars => Types'
    BY TypesStep
  <1>3. Types => TypeOK
    BY TypesAreOK
  <1> QED
    BY <1>1, <1>2, <1>3, PTL DEF Spec

-----------------------------------------------------------------------------
(* The verdicts. *)

\* The operations that have ended well have left what they write.
IsTest(o) == o.op \in {"run_multi", "mcad tests"}
IsPlot(o) == o.op = "plot"
EarnedBefore(i) ==
  /\ IsTest(Ops[i]) => exitCode = "0"
  /\ IsPlot(Ops[i]) => plots = "ok"

EarnedInv == ~err => \A i \in 1 .. at - 1 : EarnedBefore(i)
OutcomeInv ==
  /\ outcome # "none" => pc = "over"
  /\ outcome = "ok" => ~failures /\ finished = "succeeded" /\ ~err /\ at = Len(Ops) + 1
  /\ outcome = "failed" => failures /\ finished = "failed"

\* A test of a job is in its operations, and its plots.
LEMMA TestIsThere ==
  ASSUME NEW j \in JobType
  PROVE  /\ \E i \in 1 .. Len(Test(j)) : IsTest(Test(j)[i])
         /\ j.test = "pipelines" => \E i \in 1 .. Len(Test(j)) : IsPlot(Test(j)[i])
  <1>1. PreferPr(j) \in Seq(Operation) /\ CleanupCommon(1) \in Seq(Operation)
    <2>1. CleanupCommon(1) \in Seq(Operation)
      BY OperationsOfTheCode, CleanupPart
    <2>2. Do("set", "tag") \in Operation
      BY OperationsOfTheCode DEF Keys
    <2> QED
      BY <2>1, <2>2, PreferPrPart
  <1>2. \A s \in Seq(Operation) : If(j.cleanupOnExit, s) \in Seq(Operation)
    BY IfIsASequence DEF JobType
  <1>3. /\ Do("mcad tests", "all") \in Operation /\ Do("run_multi", "sdk_user") \in Operation
        /\ Do("run_multi", "pipelines") \in Operation /\ Finally(1, "plot", "all") \in Operation
        /\ Finally(1, "raise", "NameError") \in Operation /\ Finally(2, "raise", "NameError") \in Operation
    BY OperationsOfTheCode
  <1>4. /\ <<Do("mcad tests", "all")>> \in Seq(Operation) /\ <<Do("run_multi", "sdk_user")>> \in Seq(Operation)
        /\ <<Do("run_multi", "pipelines"), Finally(1, "plot", "all")>> \in Seq(Operation)
        /\ If(j.cleanupOnExit, <<Finally(1, "raise", "NameError")>>) \in Seq(Operation)
        /\ If(j.cleanupOnExit, <<Finally(2, "raise", "NameError")>>) \in Seq(Operation)
        /\ If(j.cleanupOnExit, CleanupCommon(1)) \in Seq(Operation)
    BY <1>1, <1>2, <1>3, ShortSequences
  <1>5. CASE j.test = "mcad"
    <2> DEFINE tests == Do("mcad tests", "all")
    <2>1. Has(Test(j), tests)
      <3> DEFINE start == <<tests>>
                 end == If(j.cleanupOnExit, <<Finally(1, "raise", "NameError")>>)
      <3>1. start \in Seq(Operation) /\ end \in Seq(Operation) /\ Has(start, tests) /\ Test(j) = start \o end
        BY <1>4, <1>5, HasShort DEF Test
      <3> HIDE DEF start, end, tests
      <3> QED
        BY <3>1, HasConcat
    <2>2. IsTest(tests)
      BY DEF IsTest, Do
    <2> QED
      BY <1>5, <2>1, <2>2 DEF Has
  <1>6. CASE j.test = "sdk_user"
    <2>1. PreferPr(j) \o <<Do("run_multi", "sdk_user")>> \in Seq(Operation)
      BY <1>1, <1>4, Concat
    <2>2. Has(PreferPr(j) \o <<Do("run_multi", "sdk_user")>>, Do("run_multi", "sdk_user"))
      BY <1>1, <1>4, HasConcat, HasShort
    <2>3. Test(j) = (PreferPr(j) \o <<Do("run_multi", "sdk_user")>>) \o If(j.cleanupOnExit, CleanupCommon(1))
      BY <1>6 DEF Test
    <2>4. Has(Test(j), Do("run_multi", "sdk_user"))
      <3> DEFINE start == PreferPr(j) \o <<Do("run_multi", "sdk_user")>>
                 end == If(j.cleanupOnExit, CleanupCommon(1))
      <3>1. start \in Seq(Operation) /\ end \in Seq(Operation) /\ Has(start, Do("run_multi", "sdk_user"))
            /\ Test(j) = start \o end
        BY <1>4, <2>1, <2>2, <2>3
      <3> HIDE DEF start, end
      <3> QED
        BY <3>1, HasConcat
    <2>5. IsTest(Do("run_multi", "sdk_user"))
      BY DEF IsTest, Do
    <2> QED
      BY <1>6, <2>4, <2>5 DEF Has
  <1>7. CASE j.test = "pipelines"
    <2> DEFINE run == Do("run_multi", "pipelines")
               plot == Finally(1, "plot", "all")
               start == PreferPr(j) \o <<run, plot>>
               end == If(j.cleanupOnExit, <<Finally(2, "raise", "NameError")>>)
    <2>1. IsTest(run) /\ IsPlot(plot)
      BY DEF IsTest, IsPlot, Do, Finally
    <2>2. Test(j) = start \o end
      BY <1>7 DEF Test
    <2>3. PreferPr(j) \in Seq(Operation) /\ <<run, plot>> \in Seq(Operation) /\ end \in Seq(Operation)
      BY <1>1, <1>4
    <2> HIDE DEF run, plot, end
    <2>4. start \in Seq(Operation)
      BY <2>3, Concat
    <2>5. Has(start, run) /\ Has(start, plot)
      BY <2>3, HasConcat, HasShort
    <2> HIDE DEF start
    <2>6. Has(Test(j), run) /\ Has(Test(j), plot)
      BY <2>2, <2>3, <2>4, <2>5, HasConcat
    <2> QED
      BY <2>1, <2>6 DEF Has
  <1> QED
    BY <1>5, <1>6, <1>7 DEF JobType, Tests

LEMMA VerdictsInit == Init => EarnedInv /\ OutcomeInv
  BY DEF Init, EarnedInv, OutcomeInv

LEMMA EarnedStays ==
  ASSUME StepType, EarnedInv, UNCHANGED <<job, step, at, err, exitCode, plots>>
  PROVE  EarnedInv'
  <1>1. Ops' = Ops
    BY SameOps
  <1> QED
    BY <1>1 DEF EarnedInv, EarnedBefore

\* An operation that ends well is the next one to have ended well.
LEMMA EndsWell ==
  ASSUME StepType, NEW op, Ready(op), Return(FALSE)
  PROVE  /\ at' = at + 1 /\ err' = err /\ Ops' = Ops /\ Ops[at].op = op
         /\ \A i \in 1 .. at' - 1 : i = at \/ i \in 1 .. at - 1
  <1>1. UNCHANGED <<job, step>> /\ at' = After(FALSE) /\ err' = (err \/ FALSE) /\ err \in BOOLEAN
    BY DEF Return, StepType
  <1>2. at \in 1 .. Len(Ops) /\ Ops[at].op = op
    BY JobsAreTyped, OpsAreASequence DEF Ready, StepType
  <1>3. After(FALSE) = at + 1
    BY <1>2, AfterIsLater, JobsAreTyped DEF StepType
  <1>4. \A i \in 1 .. (at + 1) - 1 : i = at \/ i \in 1 .. at - 1
    BY <1>2
  <1> QED
    BY <1>1, <1>2, <1>3, <1>4, SameOps

LEMMA EarnedByOperation ==
  ASSUME StepType, EarnedInv, NEW op, Ready(op), NEW failed \in BOOLEAN, Return(failed),
         exitCode' = exitCode \/ (~failed => exitCode' = "0"),
         op \in {"run_multi", "mcad tests"} => (~failed => exitCode' = "0"),
         plots' = plots \/ (~failed => plots' = "ok"),
         op = "plot" => (~failed => plots' = "ok")
  PROVE  EarnedInv'
  <1>1. CASE failed
    BY <1>1 DEF Return, EarnedInv
  <1>2. CASE ~failed
    <2>1. exitCode' \in {exitCode, "0"} /\ plots' \in {plots, "ok"}
          /\ (op \in {"run_multi", "mcad tests"} => exitCode' = "0") /\ (op = "plot" => plots' = "ok")
      BY <1>2
    <2>2. Return(FALSE)
      <3>1. failed = FALSE
        BY <1>2
      <3> QED
        BY <3>1
    <2>3. /\ at' = at + 1 /\ err' = err /\ Ops' = Ops /\ Ops[at].op = op
          /\ \A i \in 1 .. at' - 1 : i = at \/ i \in 1 .. at - 1
      BY <2>2, EndsWell
    <2>4. ASSUME ~err, NEW i \in 1 .. at' - 1
          PROVE  EarnedBefore(i)'
      <3>1. CASE i = at
        BY <2>1, <2>3, <3>1 DEF EarnedBefore, IsTest, IsPlot
      <3>2. CASE i \in 1 .. at - 1
        <4>1. EarnedBefore(i)
          BY <2>4, <3>2 DEF EarnedInv
        <4> QED
          BY <2>1, <2>3, <4>1 DEF EarnedBefore
      <3> QED
        BY <2>3, <3>1, <3>2
    <2> QED
      BY <2>3, <2>4 DEF EarnedInv
  <1> QED
    BY <1>1, <1>2

LEMMA EarnedByOther ==
  ASSUME StepType, EarnedInv, NEW op, Ready(op), op \notin {"run_multi", "mcad tests", "plot"},
         NEW failed \in BOOLEAN, Return(failed), UNCHANGED <<exitCode, plots>>
  PROVE  EarnedInv'
  <1>1. op \in {"run_multi", "mcad tests"} => (~failed => exitCode' = "0")
    OBVIOUS
  <1>2. op = "plot" => (~failed => plots' = "ok")
    OBVIOUS
  <1>3. exitCode' = exitCode \/ (~failed => exitCode' = "0")
    OBVIOUS
  <1>4. plots' = plots \/ (~failed => plots' = "ok")
    OBVIOUS
  <1> QED
    BY <1>1, <1>2, <1>3, <1>4, EarnedByOperation, Zenon

LEMMA EarnedStep ==
  ASSUME StepType, LoadInv, EarnedInv, [Next]_vars
  PROVE  EarnedInv'
  <1>1. CASE Prechecks \/ Postchecks \/ Interrupt \/ Load \/ SetConfig \/ WriteCopy \/ StartPods
    BY <1>1, EarnedStays DEF Prechecks, Postchecks, Interrupt, Load, SetConfig, WriteCopy, StartPods,
                             process, files
  <1>2. CASE NextStep
    BY <1>2 DEF NextStep, EarnedInv
  <1>3. CASE InitFails
    BY <1>3 DEF InitFails, EarnedInv
  <1>4. CASE Set
    BY <1>4, EarnedByOther DEF Set, files
  <1>5. CASE MakeIt
    BY <1>5, EarnedByOther DEF MakeIt, files
  <1>6. CASE ScaleUp
    BY <1>6, EarnedByOther DEF ScaleUp, files
  <1>7. CASE Drop
    BY <1>7, EarnedByOther DEF Drop, files
  <1>8. CASE Raise
    BY <1>8, EarnedByOther DEF Raise, files
  <1>9. CASE RunMulti
    <2>1. PICK failed \in BOOLEAN : Return(failed) /\ (~failed => exitCode' = "0")
      BY <1>9 DEF RunMulti
    <2>2. Ready("run_multi") /\ plots' = plots
      BY <1>9 DEF RunMulti
    <2>3. "run_multi" \in {"run_multi", "mcad tests"} => (~failed => exitCode' = "0")
      BY <2>1
    <2>4. "run_multi" = "plot" => (~failed => plots' = "ok")
      BY <2>1
    <2>5. exitCode' = exitCode \/ (~failed => exitCode' = "0")
      BY <2>1, <2>2
    <2>6. plots' = plots \/ (~failed => plots' = "ok")
      BY <2>1, <2>2
    <2> QED
      BY <2>1, <2>2, <2>3, <2>4, <2>5, <2>6, EarnedByOperation, Zenon
  <1>10. CASE Plot
    <2>1. PICK failed \in BOOLEAN : Return(failed) /\ (~failed => plots' = "ok")
      BY <1>10 DEF Plot
    <2>2. Ready("plot") /\ exitCode' = exitCode
      BY <1>10 DEF Plot
    <2>3. "plot" \in {"run_multi", "mcad tests"} => (~failed => exitCode' = "0")
      BY <2>1
    <2>4. "plot" = "plot" => (~failed => plots' = "ok")
      BY <2>1
    <2>5. exitCode' = exitCode \/ (~failed => exitCode' = "0")
      BY <2>1, <2>2
    <2>6. plots' = plots \/ (~failed => plots' = "ok")
      BY <2>1, <2>2
    <2> QED
      BY <2>1, <2>2, <2>3, <2>4, <2>5, <2>6, EarnedByOperation, Zenon
  <1>11. CASE McadTests
    <2>1. PICK failed \in BOOLEAN : Return(failed) /\ (~failed => exitCode' = "0")
      BY <1>11 DEF McadTests
    <2>2. Ready("mcad tests") /\ plots' = plots
      BY <1>11 DEF McadTests
    <2>3. "mcad tests" \in {"run_multi", "mcad tests"} => (~failed => exitCode' = "0")
      BY <2>1
    <2>4. "mcad tests" = "plot" => (~failed => plots' = "ok")
      BY <2>1
    <2>5. exitCode' = exitCode \/ (~failed => exitCode' = "0")
      BY <2>1, <2>2
    <2>6. plots' = plots \/ (~failed => plots' = "ok")
      BY <2>1, <2>2
    <2> QED
      BY <2>1, <2>2, <2>3, <2>4, <2>5, <2>6, EarnedByOperation, Zenon
  <1>12. CASE DropHomes
    BY <1>12, EarnedByOther DEF DropHomes, files
  <1>13. CASE DropNamespace
    BY <1>13, EarnedByOther DEF DropNamespace, files
  <1>14. CASE (\E u \in Users : NewProject(u) \/ Label(u) \/ PodEnds(u)) \/ Done \/ UNCHANGED vars
    BY <1>14, EarnedStays DEF NewProject, Label, PodEnds, Done, vars, process, files
  <1> QED
    BY <1>1, <1>2, <1>3, <1>4, <1>5, <1>6, <1>7, <1>8, <1>9, <1>10, <1>11, <1>12, <1>13, <1>14 DEF Next

\* Only testing/run gives the step its outcome.
LEMMA OutcomeStays ==
  ASSUME OutcomeInv, UNCHANGED <<job, step, outcome, failures, finished>>,
         pc = "over" => UNCHANGED <<pc, at, err>>
  PROVE  OutcomeInv'
  <1>1. Ops' = Ops
    BY SameOps
  <1>2. CASE outcome = "none"
    BY <1>2 DEF OutcomeInv
  <1>3. CASE outcome # "none"
    BY <1>1, <1>3 DEF OutcomeInv
  <1> QED
    BY <1>2, <1>3

LEMMA OutcomeStep ==
  ASSUME StepType, OutcomeInv, [Next]_vars
  PROVE  OutcomeInv'
  <1>1. CASE Prechecks
    BY <1>1 DEF Prechecks, OutcomeInv
  <1>2. CASE Postchecks
    <2>1. UNCHANGED <<job, step, at, err>> /\ pc' = "over" /\ at > Len(Ops) /\ failures' = err
          /\ outcome' = (IF err THEN "failed" ELSE "ok") /\ finished' = (IF err THEN "failed" ELSE "succeeded")
      BY <1>2 DEF Postchecks
    <2>2. Ops' = Ops /\ at = Len(Ops) + 1
      <3>1. Len(Ops) \in Nat
        BY JobsAreTyped, OpsAreASequence DEF StepType
      <3> QED
        BY <2>1, <3>1, SameOps DEF StepType
    <2>3. CASE err
      BY <2>1, <2>3 DEF OutcomeInv
    <2>4. CASE ~err
      BY <2>1, <2>2, <2>4 DEF OutcomeInv
    <2> QED
      BY <2>3, <2>4
  <1>3. CASE Interrupt
    BY <1>3 DEF Interrupt, OutcomeInv
  <1>4. CASE NextStep
    BY <1>4 DEF NextStep, OutcomeInv
  <1>5. CASE InitFails \/ Load \/ SetConfig \/ WriteCopy \/ StartPods
    BY <1>5, OutcomeStays DEF InitFails, Load, SetConfig, WriteCopy, StartPods, Ready, process, files
  <1>6. CASE Set \/ MakeIt \/ ScaleUp
    BY <1>6, OutcomeStays DEF Set, MakeIt, ScaleUp, Ready, Return, files
  <1>7. CASE Drop \/ Raise \/ RunMulti
    BY <1>7, OutcomeStays DEF Drop, Raise, RunMulti, Ready, Return, files
  <1>8. CASE Plot \/ McadTests
    BY <1>8, OutcomeStays DEF Plot, McadTests, Ready, Return, files
  <1>9. CASE DropHomes \/ DropNamespace
    BY <1>9, OutcomeStays DEF DropHomes, DropNamespace, Ready, Return, files
  <1>10. CASE (\E u \in Users : NewProject(u) \/ Label(u) \/ PodEnds(u)) \/ Done \/ UNCHANGED vars
    BY <1>10, OutcomeStays DEF NewProject, Label, PodEnds, Done, vars, process, files
  <1> QED
    BY <1>1, <1>2, <1>3, <1>4, <1>5, <1>6, <1>7, <1>8, <1>9, <1>10 DEF Next

LEMMA VerdictFollows == StepType /\ EarnedInv /\ OutcomeInv => VerdictIsShown
  <1> SUFFICES ASSUME StepType, EarnedInv, OutcomeInv, outcome = "ok", Steps[step] = "test_ci"
               PROVE  exitCode = "0" /\ (job.test = "pipelines" => plots = "ok")
    BY DEF VerdictIsShown, OutcomeInv
  <1>1. Ops = Test(job) /\ job \in JobType
    BY JobsAreTyped DEF Ops
  <1>2. ~err /\ at = Len(Ops) + 1 /\ Len(Ops) \in Nat
    BY JobsAreTyped, OpsAreASequence DEF OutcomeInv, StepType
  <1>3. \A i \in 1 .. Len(Ops) : EarnedBefore(i)
    BY <1>2 DEF EarnedInv
  <1> QED
    BY <1>1, <1>3, TestIsThere DEF EarnedBefore

\* What testing/run shows of a step is what happened in it: an error that another one replaces, or
\* that a clean-up follows, still fails the step; a test that passed has its own exit code, and its
\* plots.
THEOREM VerdictsAreShown == Spec => []VerdictIsShown
  <1> DEFINE Inv == Types /\ EarnedInv /\ OutcomeInv
  <1>1. Init => Inv
    BY TypesInit, VerdictsInit
  <1>2. Inv /\ [Next]_vars => Inv'
    BY TypesStep, EarnedStep, OutcomeStep DEF Types
  <1>3. Inv => VerdictIsShown
    BY VerdictFollows DEF Types
  <1> QED
    BY <1>1, <1>2, <1>3, PTL DEF Spec

-----------------------------------------------------------------------------
(* The order of the operations. *)

\* Where the test runs its Job; the leading operations of a step, that do not follow a failure.
RunAt(j) == IF j.pr /\ j.test # "mcad" THEN 2 ELSE 1
Firm == IF step = 2 THEN RunAt(job) ELSE Len(Ops)

LEMMA StepOps ==
  ASSUME StepType
  PROVE  /\ step \in {1, 2, 3}
         /\ step = 1 => Ops = Prepare(job)
         /\ step = 2 => Ops = Test(job)
         /\ step = 3 => Ops = Cleanup(job)
         /\ Steps[step] = "test_ci" <=> step = 2
         /\ Steps[step] = "cleanup_cluster_ci" <=> step = 3
  BY DEF StepType, Steps, Ops

\* The operation before a sequence, or none.
LEMMA Prefixed ==
  ASSUME NEW s \in Seq(Operation), s # <<>>, NEW o \in Operation, NEW b \in BOOLEAN
  PROVE  LET t == If(b, <<o>>) \o s
         IN  /\ t \in Seq(Operation) /\ Len(t) = Len(s) + (IF b THEN 1 ELSE 0)
             /\ b => t[1] = o /\ \A i \in 2 .. Len(t) : t[i] = s[i - 1]
             /\ ~b => t = s
  <1>1. CASE b
    <2>1. <<o>> \in Seq(Operation) /\ Len(<<o>>) = 1 /\ <<o>>[1] = o
      BY ShortSequences
    <2>2. <<o>> \o s \in Seq(Operation) /\ Len(<<o>> \o s) = 1 + Len(s) /\ (<<o>> \o s)[1] = o
      BY <2>1, Concat
    <2>3. ASSUME NEW i \in 2 .. Len(<<o>> \o s)
          PROVE  (<<o>> \o s)[i] = s[i - 1]
      <3>1. i - 1 \in 1 .. Len(s) /\ i = Len(<<o>>) + (i - 1)
        BY <2>1, <2>2
      <3> QED
        BY <2>1, <3>1, Concat
    <2> QED
      BY <1>1, <2>2, <2>3 DEF If
  <1>2. CASE ~b
    BY <1>2 DEF If
  <1> QED
    BY <1>1, <1>2

LEMMA Pair ==
  ASSUME NEW S, NEW a \in S, NEW b \in S
  PROVE  <<a, b>> = <<a>> \o <<b>>
  <1>1. <<a>> \in Seq(S) /\ <<b>> \in Seq(S) /\ <<a, b>> \in Seq(S)
    BY ShortSequences
  <1>2. Len(<<a>>) = 1 /\ Len(<<b>>) = 1 /\ Len(<<a, b>>) = 2 /\ <<a>>[1] = a /\ <<b>>[1] = b
        /\ <<a, b>>[1] = a /\ <<a, b>>[2] = b
    OBVIOUS
  <1>3. <<a>> \o <<b>> \in Seq(S) /\ Len(<<a>> \o <<b>>) = 2
        /\ (<<a>> \o <<b>>)[1] = a /\ (<<a>> \o <<b>>)[1 + 1] = b
    BY <1>1, <1>2, Concat
  <1>4. \A i \in 1 .. 2 : <<a, b>>[i] = (<<a>> \o <<b>>)[i]
    BY <1>2, <1>3
  <1> QED
    BY <1>1, <1>2, <1>3, <1>4, SeqEqual

LEMMA RunIsAt ==
  ASSUME NEW j \in JobType
  PROVE  /\ RunAt(j) \in 1 .. Len(Test(j))
         /\ \A i \in 1 .. RunAt(j) : Test(j)[i].level = 0
         /\ j.test # "mcad" /\ j.pr => Test(j)[1] = Do("set", "tag")
         /\ \A i \in 1 .. Len(Test(j)) : Test(j)[i].op = "run_multi" => i = RunAt(j) /\ j.test # "mcad"
  <1>1. /\ Do("mcad tests", "all") \in Operation /\ Do("run_multi", "sdk_user") \in Operation
        /\ Do("run_multi", "pipelines") \in Operation /\ Finally(1, "plot", "all") \in Operation
        /\ Finally(1, "raise", "NameError") \in Operation /\ Finally(2, "raise", "NameError") \in Operation
        /\ Do("set", "tag") \in Operation
    BY OperationsOfTheCode DEF Keys
  <1>2. j.pr \in BOOLEAN /\ j.cleanupOnExit \in BOOLEAN /\ j.test \in Tests
    BY DEF JobType
  <1> DEFINE Quiet == {o \in Operation : o.op # "run_multi"}
  \* A sequence that starts with an operation, and has no run_multi after it.
  <1>3. ASSUME NEW o \in Operation, o.level = 0, NEW r \in Seq(Quiet)
        PROVE  /\ <<o>> \o r \in Seq(Operation) /\ Len(<<o>> \o r) = Len(r) + 1
               /\ (<<o>> \o r)[1] = o
               /\ \A i \in 2 .. Len(<<o>> \o r) : (<<o>> \o r)[i].op # "run_multi"
    <2>1. <<o>> \in Seq(Operation) /\ Len(<<o>>) = 1 /\ <<o>>[1] = o /\ r \in Seq(Operation)
      BY ShortSequences, SeqMonotonic
    <2>2. <<o>> \o r \in Seq(Operation) /\ Len(<<o>> \o r) = Len(r) + 1 /\ (<<o>> \o r)[1] = o
      BY <2>1, Concat
    <2>3. ASSUME NEW i \in 2 .. Len(<<o>> \o r)
          PROVE  (<<o>> \o r)[i].op # "run_multi"
      <3>1. i - 1 \in 1 .. Len(r) /\ i = Len(<<o>>) + (i - 1)
        BY <2>1, <2>2
      <3>2. (<<o>> \o r)[i] = r[i - 1]
        BY <2>1, <3>1, Concat
      <3>3. r[i - 1] \in Quiet
        BY <3>1
      <3> QED
        BY <3>2, <3>3
    <2> QED
      BY <2>2, <2>3
  <1>4. CASE j.test = "mcad"
    <2> DEFINE o == Do("mcad tests", "all")
               r == If(j.cleanupOnExit, <<Finally(1, "raise", "NameError")>>)
    <2>1. Finally(1, "raise", "NameError") \in Quiet /\ o \in Quiet /\ o.level = 0
      BY <1>1 DEF Finally, Do
    <2>2. r \in Seq(Quiet)
      BY <1>2, <2>1, ShortSequences, IfIsASequence
    <2>3. Test(j) = <<o>> \o r /\ RunAt(j) = 1
      BY <1>4 DEF Test, RunAt
    <2> HIDE DEF o, r
    <2> QED
      BY <1>3, <1>4, <2>1, <2>2, <2>3
  <1>5. ASSUME j.test # "mcad", NEW o \in Operation, o.level = 0, NEW r \in Seq(Quiet),
               Test(j) = PreferPr(j) \o (<<o>> \o r)
        PROVE  /\ RunAt(j) \in 1 .. Len(Test(j))
               /\ \A i \in 1 .. RunAt(j) : Test(j)[i].level = 0
               /\ j.pr => Test(j)[1] = Do("set", "tag")
               /\ \A i \in 1 .. Len(Test(j)) : Test(j)[i].op = "run_multi" => i = RunAt(j)
    <2> DEFINE s == <<o>> \o r
               t == If(j.pr, <<Do("set", "tag")>>) \o s
    <2>1. /\ s \in Seq(Operation) /\ Len(s) = Len(r) + 1 /\ s[1] = o /\ Len(r) \in Nat
          /\ \A i \in 2 .. Len(s) : s[i].op # "run_multi"
      BY <1>3, <1>5
    <2>2. Test(j) = t
      BY <1>5 DEF PreferPr
    <2> HIDE DEF s
    <2>3. s # <<>>
      BY <2>1
    <2>4. /\ t \in Seq(Operation) /\ Len(t) = Len(s) + (IF j.pr THEN 1 ELSE 0)
          /\ j.pr => t[1] = Do("set", "tag") /\ \A i \in 2 .. Len(t) : t[i] = s[i - 1]
          /\ ~j.pr => t = s
      BY <1>1, <1>2, <2>1, <2>3, Prefixed
    <2> HIDE DEF t
    <2>5. CASE j.pr
      <3>1. RunAt(j) = 2 /\ Len(t) = Len(s) + 1 /\ t[2] = o /\ 2 \in 1 .. Len(t)
        <4>1. Len(t) = Len(s) + 1 /\ 2 \in 2 .. Len(t)
          BY <2>1, <2>4, <2>5
        <4>2. t[2] = s[2 - 1]
          BY <2>4, <2>5, <4>1
        <4> QED
          BY <1>5, <2>1, <2>5, <4>1, <4>2 DEF RunAt
      <3>2. Do("set", "tag").level = 0 /\ Do("set", "tag").op # "run_multi" /\ t[1] = Do("set", "tag")
        BY <2>4, <2>5 DEF Do
      <3>3. \A i \in 1 .. 2 : t[i].level = 0
        BY <1>5, <3>1, <3>2
      <3>4. ASSUME NEW i \in 1 .. Len(t), t[i].op = "run_multi"
            PROVE  i = 2
        <4>1. i # 1
          BY <3>2, <3>4
        <4>2. i \in 2 .. Len(t)
          BY <4>1, <2>4
        <4>3. t[i] = s[i - 1]
          BY <2>4, <2>5, <4>2
        <4>4. i - 1 \in 2 .. Len(s) \/ i = 2
          BY <2>1, <3>1, <4>2
        <4> QED
          BY <2>1, <3>4, <4>3, <4>4
      <3> QED
        BY <2>2, <3>1, <3>2, <3>3, <3>4
    <2>6. CASE ~j.pr
      <3>1. RunAt(j) = 1 /\ Test(j) = s /\ s[1] = o
        BY <1>5, <2>1, <2>2, <2>4, <2>6 DEF RunAt
      <3>2. \A i \in 1 .. Len(s) : s[i].op = "run_multi" => i = 1
        <4>1. \A i \in 1 .. Len(s) : i = 1 \/ i \in 2 .. Len(s)
          BY <2>1
        <4> QED
          BY <2>1, <4>1
      <3> QED
        BY <1>5, <2>1, <2>6, <3>1, <3>2
    <2> QED
      BY <1>2, <2>5, <2>6
  <1>6. CASE j.test = "sdk_user"
    <2> DEFINE o == Do("run_multi", "sdk_user")
               r == If(j.cleanupOnExit, CleanupCommon(1))
    <2>1. o \in Operation /\ o.level = 0
      BY <1>1 DEF Do
    <2>2. /\ Finally(1, "drop", "kfdefs") \in Quiet /\ Finally(1, "drop", "operators") \in Quiet
          /\ Finally(1, "raise", "NameError") \in Quiet
      BY OperationsOfTheCode DEF Finally
    <2>3. CleanupCommon(1) \in Seq(Quiet)
      BY <2>2, CleanupPart
    <2>4. r \in Seq(Quiet)
      BY <1>2, <2>3, IfIsASequence
    <2>5. PreferPr(j) \in Seq(Operation) /\ <<o>> \in Seq(Operation) /\ r \in Seq(Operation)
      BY <1>1, <2>1, <2>4, PreferPrPart, ShortSequences, SeqMonotonic
    <2>6. Test(j) = PreferPr(j) \o <<o>> \o r
      BY <1>6 DEF Test
    <2> HIDE DEF o, r
    <2>7. Test(j) = PreferPr(j) \o (<<o>> \o r)
      BY <2>5, <2>6, ConcatAssociative
    <2> QED
      BY <1>5, <1>6, <2>1, <2>4, <2>7
  <1>7. CASE j.test = "pipelines"
    <2> DEFINE o == Do("run_multi", "pipelines")
               p == Finally(1, "plot", "all")
               q == If(j.cleanupOnExit, <<Finally(2, "raise", "NameError")>>)
               r == <<p>> \o q
    <2>1. o \in Operation /\ o.level = 0
      BY <1>1 DEF Do
    <2>2. p \in Quiet /\ Finally(2, "raise", "NameError") \in Quiet
      BY <1>1 DEF Finally
    <2>3. q \in Seq(Quiet) /\ <<p>> \in Seq(Quiet)
      BY <1>2, <2>2, ShortSequences, IfIsASequence
    <2>4. Test(j) = PreferPr(j) \o <<o, p>> \o q
      BY <1>7 DEF Test
    <2> HIDE DEF o, p, q
    <2>5. r \in Seq(Quiet)
      BY <2>3, Concat
    <2>6. PreferPr(j) \in Seq(Operation) /\ <<o>> \in Seq(Operation) /\ <<p>> \in Seq(Operation)
          /\ q \in Seq(Operation)
      <3>1. PreferPr(j) \in Seq(Operation) /\ <<o>> \in Seq(Operation)
        BY <1>1, <2>1, PreferPrPart, ShortSequences
      <3>2. <<p>> \in Seq(Operation)
        BY <2>2, ShortSequences
      <3>3. Quiet \subseteq Operation
        OBVIOUS
      <3>4. q \in Seq(Operation)
        BY <2>3, <3>3, SeqMonotonic
      <3> QED
        BY <3>1, <3>2, <3>4
    <2>7. <<o, p>> = <<o>> \o <<p>>
      BY <2>1, <2>2, Pair
    <2>8. <<o>> \o <<p>> \in Seq(Operation)
      BY <2>6, Concat
    <2>9. PreferPr(j) \o (<<o>> \o <<p>>) \o q = PreferPr(j) \o ((<<o>> \o <<p>>) \o q)
      BY <2>6, <2>8, ConcatAssociative
    <2>10. (<<o>> \o <<p>>) \o q = <<o>> \o (<<p>> \o q)
      BY <2>6, ConcatAssociative
    <2>11. Test(j) = PreferPr(j) \o (<<o>> \o r)
      BY <2>4, <2>7, <2>9, <2>10
    <2> HIDE DEF r
    <2> QED
      BY <1>5, <1>7, <2>1, <2>5, <2>11
  <1> QED
    BY <1>2, <1>4, <1>6, <1>7 DEF Tests

\* In a sequence, an operation comes after another.
Precedes(s, o, q) == \A i \in 1 .. Len(s) : s[i] = q => \E k \in 1 .. i - 1 : s[k] = o

LEMMA PrecedesNothing ==
  ASSUME NEW S, NEW s \in Seq(S), NEW o, NEW q, q \notin S
  PROVE  Precedes(s, o, q)
  <1>1. \A i \in 1 .. Len(s) : s[i] \in S
    OBVIOUS
  <1> QED
    BY <1>1 DEF Precedes

LEMMA PrecedesConcat ==
  ASSUME NEW s \in Seq(Operation), NEW t \in Seq(Operation), NEW o, NEW q,
         Precedes(s, o, q), Has(s, o) \/ Precedes(t, o, q)
  PROVE  Precedes(s \o t, o, q)
  <1> SUFFICES ASSUME NEW i \in 1 .. Len(s \o t), (s \o t)[i] = q
               PROVE  \E k \in 1 .. i - 1 : (s \o t)[k] = o
    BY DEF Precedes
  <1>0. Len(s) \in Nat /\ Len(t) \in Nat /\ Len(s \o t) = Len(s) + Len(t) /\ i \in Int
    BY Concat
  <1>1. CASE i \in 1 .. Len(s)
    <2>1. s[i] = q
      BY <1>1, Concat
    <2>2. PICK k \in 1 .. i - 1 : s[k] = o
      BY <1>1, <2>1 DEF Precedes
    <2>3. k \in 1 .. Len(s)
      BY <1>1, <2>2
    <2>4. (s \o t)[k] = o
      BY <2>2, <2>3, Concat
    <2> QED
      BY <2>4
  <1>2. CASE i \notin 1 .. Len(s) /\ Has(s, o)
    <2>1. PICK k \in 1 .. Len(s) : s[k] = o
      BY <1>2 DEF Has
    <2>2. k \in 1 .. i - 1
      BY <1>0, <1>2
    <2>3. (s \o t)[k] = o
      BY <2>1, Concat
    <2> QED
      BY <2>2, <2>3
  <1>3. CASE i \notin 1 .. Len(s) /\ Precedes(t, o, q)
    <2>1. i - Len(s) \in 1 .. Len(t) /\ i = Len(s) + (i - Len(s))
      BY <1>0, <1>3
    <2>2. t[i - Len(s)] = q
      BY <2>1, Concat
    <2>3. PICK k \in 1 .. (i - Len(s)) - 1 : t[k] = o
      BY <1>3, <2>1, <2>2 DEF Precedes
    <2>4. k \in 1 .. Len(t) /\ Len(s) + k \in 1 .. i - 1
      BY <1>0, <2>1
    <2>5. (s \o t)[Len(s) + k] = o
      BY <2>3, <2>4, Concat
    <2> QED
      BY <2>4, <2>5
  <1> QED
    BY <1>1, <1>2, <1>3

LEMMA HasLonger ==
  ASSUME NEW a, NEW b, NEW c, NEW d
  PROVE  /\ Has(<<a, b, c>>, a) /\ Has(<<a, b, c>>, b) /\ Has(<<a, b, c>>, c)
         /\ \A e, f : \A x \in {a, b, c, d, e, f} : Has(<<a, b, c, d, e, f>>, x)
  <1>1. /\ 1 \in 1 .. Len(<<a, b, c>>) /\ 2 \in 1 .. Len(<<a, b, c>>) /\ 3 \in 1 .. Len(<<a, b, c>>)
        /\ <<a, b, c>>[1] = a /\ <<a, b, c>>[2] = b /\ <<a, b, c>>[3] = c
    OBVIOUS
  <1>2. ASSUME NEW e, NEW f, NEW x \in {a, b, c, d, e, f}
        PROVE  Has(<<a, b, c, d, e, f>>, x)
    <2> DEFINE s == <<a, b, c, d, e, f>>
    <2>1. Len(s) = 6 /\ s[1] = a /\ s[2] = b /\ s[3] = c /\ s[4] = d /\ s[5] = e /\ s[6] = f
      OBVIOUS
    <2>2. \E i \in 1 .. 6 : s[i] = x
      <3> HIDE DEF s
      <3> QED
        BY <2>1
    <2> QED
      BY <2>1, <2>2 DEF Has
  <1> QED
    BY <1>1, <1>2 DEF Has

\* What a test with a Job needs is deployed by its preparation, after the keys of the configuration
\* that it is deployed with are set.
LEMMA NeededIsPrepared ==
  ASSUME NEW j \in JobType, j.test # "mcad"
  PROVE  /\ \A what \in Needed : Has(Prepare(j), Make(what))
         /\ \A role \in Roles : Has(Prepare(j), Do("scale", role))
         /\ j.test = "sdk_user" =>
              \A what \in Needed : Precedes(Prepare(j), Do("set", "namespace"), Make(what))
         /\ j.test = "pipelines" /\ j.pr => Precedes(Prepare(j), Do("set", "tag"), Make("image"))
  <1> DEFINE c == PreferPr(j)
             d == DriverPods
             setTag == Do("set", "tag")
  <1>1. /\ Make("image") \in Operation /\ Make("redis") \in Operation
        /\ Make("minio") \in Operation /\ Make("account") \in Operation
        /\ Make("namespace") \in Operation /\ Do("scale", "driver") \in Operation
        /\ Do("scale", "sutest") \in Operation /\ Do("set", "namespace") \in Operation /\ setTag \in Operation
        /\ Make("preloaded image") \in Operation /\ Make("pipelines operator") \in Operation
        /\ Make("rhods") \in Operation /\ Make("ldap") \in Operation
        /\ Make("binding") \in Operation /\ Make("secret") \in Operation
        /\ Make("pull secret") \in Operation /\ Make("image policy") \in Operation
    BY OperationsOfTheCode DEF Things, Roles, Keys
  <1>2. c \in Seq(Operation) /\ d \in Seq(Operation)
    BY <1>1, PreferPrPart, PrepareParts
  <1>3. /\ Has(d, Make("image")) /\ Has(d, Make("redis")) /\ Has(d, Make("minio")) /\ Has(d, Make("account"))
        /\ Has(d, Make("binding")) /\ Has(d, Make("secret"))
    BY HasLonger DEF DriverPods
  <1>4. CASE j.test = "sdk_user"
    <2> DEFINE a == PrepareCommon
               b == <<Do("set", "namespace"), Make("namespace"), Do("scale", "driver")>>
               e == <<Do("scale", "sutest"), Make("preloaded image")>>
               set == Do("set", "namespace")
    <2>1. a \in Seq(Operation)
      BY OperationsOfTheCode, PrepareParts DEF Things
    <2>2. b \in Seq(Operation) /\ e \in Seq(Operation)
      BY <1>1, ShortSequences
    <2>3. Prepare(j) = a \o b \o c \o d \o e
      BY <1>4 DEF Prepare
    <2>4. Has(b, set) /\ Has(b, Make("namespace")) /\ Has(b, Do("scale", "driver"))
          /\ Has(e, Do("scale", "sutest"))
      BY HasLonger, HasShort
    <2>5. ASSUME NEW what \in Needed
          PROVE  Precedes(a, set, Make(what)) /\ Precedes(b, set, Make(what))
      <3> DEFINE Other == {o \in Operation : o.arg \notin Needed}
      <3>1. /\ Make("odh") \in Other /\ Make("operators") \in Other /\ Make("kfdefs") \in Other
            /\ Make("placeholder") \in Other
        BY OperationsOfTheCode DEF Things, Needed, Make, Do
      <3>2. a \in Seq(Other)
        BY <3>1, PrepareParts
      <3>3. Make(what) \notin Other
        BY DEF Make, Do
      <3>4. Precedes(a, set, Make(what))
        <4> HIDE DEF Other, a, set
        <4> QED
          BY <3>2, <3>3, PrecedesNothing
      <3>5. set # Make(what)
        BY DEF Make, Do
      <3>6. Len(b) = 3 /\ b[1] = set
        OBVIOUS
      <3>7. \A i \in 1 .. 3 : i = 1 \/ 1 \in 1 .. i - 1
        OBVIOUS
      <3> HIDE DEF b, set
      <3>8. Precedes(b, set, Make(what))
        BY <3>5, <3>6, <3>7 DEF Precedes
      <3> QED
        BY <3>4, <3>8
    <2> HIDE DEF a, b, c, d, e, set
    <2>6. a \o b \in Seq(Operation) /\ a \o b \o c \in Seq(Operation) /\ a \o b \o c \o d \in Seq(Operation)
      BY <1>2, <2>1, <2>2, Concat
    <2>7. ASSUME NEW o
          PROVE  /\ Has(b, o) => Has(a \o b, o) /\ Has(Prepare(j), o)
                 /\ Has(d, o) => Has(Prepare(j), o)
                 /\ Has(e, o) => Has(Prepare(j), o)
      <3>1. Has(b, o) => Has(a \o b, o)
        BY <2>1, <2>2, HasConcat
      <3>2. Has(a \o b, o) => Has(a \o b \o c, o)
        BY <1>2, <2>6, HasConcat
      <3>3. Has(a \o b \o c, o) \/ Has(d, o) => Has(a \o b \o c \o d, o)
        BY <1>2, <2>6, HasConcat
      <3>4. Has(a \o b \o c \o d, o) \/ Has(e, o) => Has(a \o b \o c \o d \o e, o)
        BY <2>2, <2>6, HasConcat
      <3> QED
        BY <2>3, <3>1, <3>2, <3>3, <3>4
    <2>8. \A what \in Needed : Has(Prepare(j), Make(what))
      BY <1>3, <2>4, <2>7 DEF Needed
    <2>9. \A role \in Roles : Has(Prepare(j), Do("scale", role))
      BY <2>4, <2>7 DEF Roles
    <2>10. ASSUME NEW what \in Needed
           PROVE  Precedes(Prepare(j), set, Make(what))
      <3>1. Precedes(a \o b, set, Make(what))
        BY <2>1, <2>2, <2>5, PrecedesConcat
      <3>2. Has(a \o b, set)
        BY <2>4, <2>7
      <3>3. Precedes(a \o b \o c, set, Make(what)) /\ Has(a \o b \o c, set)
        BY <1>2, <2>6, <3>1, <3>2, PrecedesConcat, HasConcat
      <3>4. Precedes(a \o b \o c \o d, set, Make(what)) /\ Has(a \o b \o c \o d, set)
        BY <1>2, <2>6, <3>3, PrecedesConcat, HasConcat
      <3>5. Precedes(a \o b \o c \o d \o e, set, Make(what))
        BY <2>2, <2>6, <3>4, PrecedesConcat
      <3> QED
        BY <2>3, <3>5
    <2> QED
      BY <1>4, <2>8, <2>9, <2>10 DEF set
  <1>5. CASE j.test = "pipelines"
    <2> DEFINE b == <<Make("namespace"), Do("scale", "driver")>>
               e == <<Do("scale", "sutest"), Make("pipelines operator"),
                      Make("pull secret"), Make("image policy"), Make("rhods"), Make("ldap")>>
    <2>1. b \in Seq(Operation) /\ e \in Seq(Operation)
      BY <1>1, ShortSequences
    <2>2. Prepare(j) = b \o c \o d \o e
      BY <1>5 DEF Prepare
    <2>3. Has(b, Make("namespace")) /\ Has(b, Do("scale", "driver")) /\ Has(e, Do("scale", "sutest"))
      BY HasLonger, HasShort
    <2>4. Precedes(b, setTag, Make("image"))
      <3> DEFINE Other == {Make("namespace"), Do("scale", "driver")}
      <3>1. b \in Seq(Other) /\ Make("image") \notin Other
        BY DEF Make, Do
      <3> HIDE DEF Other, b, setTag
      <3> QED
        BY <3>1, PrecedesNothing
    <2>5. j.pr => Has(c, setTag) /\ Precedes(c, setTag, Make("image"))
      <3>1. j.pr => c = <<setTag>>
        BY DEF PreferPr, If
      <3>2. Has(<<setTag>>, setTag) /\ <<setTag>> \in Seq({setTag}) /\ Make("image") \notin {setTag}
        BY HasShort DEF Make, Do
      <3> HIDE DEF setTag, c
      <3> QED
        BY <3>1, <3>2, PrecedesNothing
    <2> HIDE DEF b, c, d, e, setTag
    <2>6. b \o c \in Seq(Operation) /\ b \o c \o d \in Seq(Operation)
      BY <1>2, <2>1, Concat
    <2>7. ASSUME NEW o
          PROVE  /\ Has(b, o) \/ Has(c, o) => Has(b \o c, o)
                 /\ Has(b, o) => Has(Prepare(j), o)
                 /\ Has(d, o) => Has(Prepare(j), o)
                 /\ Has(e, o) => Has(Prepare(j), o)
      <3>1. Has(b, o) \/ Has(c, o) => Has(b \o c, o)
        BY <1>2, <2>1, HasConcat
      <3>2. Has(b \o c, o) \/ Has(d, o) => Has(b \o c \o d, o)
        BY <1>2, <2>6, HasConcat
      <3>3. Has(b \o c \o d, o) \/ Has(e, o) => Has(b \o c \o d \o e, o)
        BY <2>1, <2>6, HasConcat
      <3> QED
        BY <2>2, <3>1, <3>2, <3>3
    <2>8. \A what \in Needed : Has(Prepare(j), Make(what))
      BY <1>3, <2>3, <2>7 DEF Needed
    <2>9. \A role \in Roles : Has(Prepare(j), Do("scale", role))
      BY <2>3, <2>7 DEF Roles
    <2>10. ASSUME j.pr
           PROVE  Precedes(Prepare(j), setTag, Make("image"))
      <3>1. Precedes(b \o c, setTag, Make("image")) /\ Has(b \o c, setTag)
        BY <1>2, <2>1, <2>4, <2>5, <2>7, <2>10, PrecedesConcat
      <3>2. Precedes(b \o c \o d, setTag, Make("image")) /\ Has(b \o c \o d, setTag)
        BY <1>2, <2>6, <3>1, PrecedesConcat, HasConcat
      <3>3. Precedes(b \o c \o d \o e, setTag, Make("image"))
        BY <2>1, <2>6, <3>2, PrecedesConcat
      <3> QED
        BY <2>2, <3>3
    <2> QED
      BY <1>5, <2>8, <2>9, <2>10 DEF setTag
  <1> QED
    BY <1>4, <1>5 DEF JobType, Tests

\* What the clean-up of the pipelines test removes.
LEMMA CleanupRemoves ==
  ASSUME NEW j \in JobType, j.test = "pipelines"
  PROVE  /\ Has(Cleanup(j), Do("drop homes", "all")) /\ Has(Cleanup(j), Do("drop namespace", "driver"))
         /\ Has(Cleanup(j), Do("uninstall", "rhods")) /\ Has(Cleanup(j), Do("drop", "ldap"))
         /\ Has(Cleanup(j), Do("uninstall", "pipelines operator"))
  <1> DEFINE a == Do("drop homes", "all")
             b == Do("uninstall", "rhods")
             c == Do("drop", "ldap")
             d == Do("uninstall", "pipelines operator")
             e == Do("drop namespace", "driver")
  <1>1. Cleanup(j) = <<a, b, c, d, e>>
    BY DEF Cleanup
  <1> HIDE DEF a, b, c, d, e
  <1>2. /\ Len(<<a, b, c, d, e>>) = 5 /\ <<a, b, c, d, e>>[1] = a /\ <<a, b, c, d, e>>[2] = b
        /\ <<a, b, c, d, e>>[3] = c /\ <<a, b, c, d, e>>[4] = d /\ <<a, b, c, d, e>>[5] = e
    OBVIOUS
  <1>3. 1 \in 1 .. 5 /\ 2 \in 1 .. 5 /\ 3 \in 1 .. 5 /\ 4 \in 1 .. 5 /\ 5 \in 1 .. 5
    OBVIOUS
  <1>4. Has(Cleanup(j), a) /\ Has(Cleanup(j), b) /\ Has(Cleanup(j), c) /\ Has(Cleanup(j), d) /\ Has(Cleanup(j), e)
    BY <1>1, <1>2, <1>3 DEF Has
  <1> QED
    BY <1>4 DEF a, b, c, d, e

-----------------------------------------------------------------------------
(* The configuration. *)

\* Applying the settings s to c leaves the key at v.
Leads(c, s, key, v) ==
  \/ c[key] = v /\ \A i \in 1 .. Len(s) : s[i][1] # key
  \/ \E i \in 1 .. Len(s) : s[i] = <<key, v>> /\ \A k \in i + 1 .. Len(s) : s[k][1] # key

Layered(j, key) == key \in {j.override, j.preset}
\* The value that an operation gives to a key, and the one it has without.
SetValue(key) == IF key = "tag" THEN "pr" ELSE "sdk-user-test"
Given(j, key) ==
  IF j.preset = key THEN "preset" ELSE IF j.override = key THEN "override" ELSE Base[key]

LEMMA LeadsDone ==
  ASSUME NEW c, NEW key, NEW v
  PROVE  Leads(c, <<>>, key, v) <=> c[key] = v
  BY DEF Leads

LEMMA LeadsOne ==
  ASSUME NEW c, NEW key, NEW v
  PROVE  /\ Leads(c, <<<<key, v>>>>, key, v)
         /\ \A other, w : other # key => (Leads(c, <<<<key, v>>>>, other, w) <=> c[other] = w)
  <1> DEFINE s == <<<<key, v>>>>
  <1>1. Len(s) = 1 /\ s[1] = <<key, v>> /\ s[1][1] = key /\ 1 \in 1 .. 1 /\ \A k \in 1 + 1 .. 1 : FALSE
    OBVIOUS
  <1>2. \A i \in 1 .. 1 : i = 1
    OBVIOUS
  <1> HIDE DEF s
  <1>3. Leads(c, s, key, v)
    BY <1>1 DEF Leads
  <1>4. ASSUME NEW other, NEW w, other # key
        PROVE  Leads(c, s, other, w) <=> c[other] = w
    <2>1. s[1] # <<other, w>>
      BY <1>1, <1>4
    <2> QED
      BY <1>1, <1>2, <1>4, <2>1 DEF Leads
  <1> QED
    BY <1>3, <1>4 DEF s

LEMMA LeadsNext ==
  ASSUME NEW c \in [Keys -> Values], NEW s \in Seq(Settings), s # <<>>, NEW key \in Keys, NEW v,
         Leads(c, s, key, v)
  PROVE  Leads(Updated(c, Head(s)[1], Head(s)[2]), Tail(s), key, v)
  <1> DEFINE t == Tail(s)
             u == Updated(c, Head(s)[1], Head(s)[2])
  <1>1. Len(s) \in Nat /\ Len(s) >= 1 /\ Len(t) = Len(s) - 1 /\ Head(s) = s[1]
        /\ \A i \in 1 .. Len(t) : t[i] = s[i + 1]
    BY HeadTailProperties
  <1>2. u[key] = (IF key = s[1][1] THEN s[1][2] ELSE c[key])
    BY <1>1 DEF Updated
  <1> HIDE DEF t, u
  <1>3. \A i \in 1 .. Len(t) : i + 1 \in 2 .. Len(s) /\ t[i] = s[i + 1]
    BY <1>1
  <1>4. CASE c[key] = v /\ \A i \in 1 .. Len(s) : s[i][1] # key
    <2>1. u[key] = v
      BY <1>1, <1>2, <1>4
    <2>2. \A i \in 1 .. Len(t) : t[i][1] # key
      BY <1>1, <1>3, <1>4
    <2> QED
      BY <2>1, <2>2 DEF Leads, t, u
  <1>5. ASSUME NEW i \in 1 .. Len(s), s[i] = <<key, v>>, \A k \in i + 1 .. Len(s) : s[k][1] # key
        PROVE  Leads(u, t, key, v)
    <2>1. CASE i = 1
      <3>1. u[key] = v
        BY <1>2, <1>5, <2>1
      <3>2. \A k \in 1 .. Len(t) : t[k][1] # key
        BY <1>3, <1>5, <2>1
      <3> QED
        BY <3>1, <3>2 DEF Leads
    <2>2. CASE i # 1
      <3>1. i - 1 \in 1 .. Len(t) /\ (i - 1) + 1 = i
        BY <1>1, <2>2
      <3>2. t[i - 1] = <<key, v>>
        BY <1>3, <1>5, <3>1
      <3>3. ASSUME NEW k \in (i - 1) + 1 .. Len(t)
            PROVE  t[k][1] # key
        <4>1. k \in 1 .. Len(t) /\ k + 1 \in i + 1 .. Len(s)
          BY <1>1, <3>1
        <4> QED
          BY <1>3, <1>5, <4>1
      <3> QED
        BY <3>1, <3>2, <3>3 DEF Leads
    <2> QED
      BY <2>1, <2>2
  <1>6. CASE \E i \in 1 .. Len(s) : s[i] = <<key, v>> /\ \A k \in i + 1 .. Len(s) : s[k][1] # key
    BY <1>5, <1>6 DEF t, u
  <1> QED
    BY <1>4, <1>6 DEF Leads

LEMMA LayersAre ==
  ASSUME NEW j \in JobType
  PROVE  LET o == <<j.override, "override">>
             p == <<j.preset, "preset">>
         IN  Layers(j) = IF j.override = "none"
                         THEN IF j.preset = "none" THEN <<>> ELSE <<p>>
                         ELSE IF j.preset = "none" THEN <<o>> ELSE <<o, p>>
  <1> DEFINE o == <<j.override, "override">>
             p == <<j.preset, "preset">>
             S == {o, p}
  <1>1. Layers(j) = If(j.override # "none", <<o>>) \o If(j.preset # "none", <<p>>)
    BY DEF Layers
  <1>2. o \in S /\ p \in S
    OBVIOUS
  <1> HIDE DEF o, p, S
  <1>3. <<o>> \in Seq(S) /\ <<p>> \in Seq(S) /\ <<>> \in Seq(S)
    BY <1>2, ShortSequences
  <1>4. <<o>> \o <<p>> = <<o, p>> /\ <<o>> \o <<>> = <<o>> /\ <<>> \o <<p>> = <<p>> /\ <<>> \o <<>> = <<>>
    BY <1>2, <1>3, Pair, ConcatEmptySeq
  <1>5. Layers(j) = IF j.override = "none" THEN IF j.preset = "none" THEN <<>> ELSE <<p>>
                    ELSE IF j.preset = "none" THEN <<o>> ELSE <<o, p>>
    BY <1>1, <1>4 DEF If
  <1> QED
    BY <1>5 DEF o, p

\* The layers lead to their own values, and leave the other keys.
LEMMA LayersLead ==
  ASSUME NEW j \in JobType, NEW c, NEW key \in Keys, ~Layered(j, key) => c[key] = Base[key]
  PROVE  Leads(c, Layers(j), key, Given(j, key))
  <1> DEFINE o == <<j.override, "override">>
             p == <<j.preset, "preset">>
  <1>1. key # "none"
    BY DEF Keys
  <1>2. o[1] = j.override /\ p[1] = j.preset
    OBVIOUS
  <1>3. CASE j.override = "none" /\ j.preset = "none"
    <2>1. Layers(j) = <<>>
      BY <1>3, LayersAre
    <2> QED
      BY <1>1, <1>3, <2>1, LeadsDone DEF Layered, Given
  <1>4. CASE j.override # "none" /\ j.preset = "none"
    <2>1. Layers(j) = <<o>>
      BY <1>4, LayersAre
    <2> QED
      <3>1. Leads(c, <<o>>, j.override, "override")
            /\ \A w : j.override # key => (Leads(c, <<o>>, key, w) <=> c[key] = w)
        BY LeadsOne
      <3> HIDE DEF o
      <3>2. CASE j.override = key
        BY <1>1, <1>4, <2>1, <3>1, <3>2 DEF Given
      <3>3. CASE j.override # key
        BY <1>1, <1>4, <2>1, <3>1, <3>3 DEF Given, Layered
      <3> QED
        BY <3>2, <3>3
  <1>5. CASE j.override = "none" /\ j.preset # "none"
    <2>1. Layers(j) = <<p>>
      BY <1>5, LayersAre
    <2> QED
      <3>1. Leads(c, <<p>>, j.preset, "preset")
            /\ \A w : j.preset # key => (Leads(c, <<p>>, key, w) <=> c[key] = w)
        BY LeadsOne
      <3> HIDE DEF p
      <3>2. CASE j.preset = key
        BY <1>1, <1>5, <2>1, <3>1, <3>2 DEF Given
      <3>3. CASE j.preset # key
        BY <1>1, <1>5, <2>1, <3>1, <3>3 DEF Given, Layered
      <3> QED
        BY <3>2, <3>3
  <1>6. CASE j.override # "none" /\ j.preset # "none"
    <2>1. Layers(j) = <<o, p>>
      BY <1>6, LayersAre
    <2>2. Len(<<o, p>>) = 2 /\ <<o, p>>[1] = o /\ <<o, p>>[2] = p
      OBVIOUS
    <2> HIDE DEF o, p
    <2>3. 1 \in 1 .. 2 /\ 2 \in 1 .. 2 /\ (\A i \in 1 .. 2 : i = 1 \/ i = 2) /\ (\A i \in 2 + 1 .. 2 : FALSE)
          /\ \A i \in 1 + 1 .. 2 : i = 2
      OBVIOUS
    <2>4. CASE j.preset = key
      <3>1. p = <<key, "preset">> /\ Given(j, key) = "preset"
        BY <2>4 DEF p, Given
      <3> QED
        BY <2>1, <2>2, <2>3, <3>1 DEF Leads
    <2>5. CASE j.preset # key /\ j.override = key
      <3>1. o = <<key, "override">> /\ Given(j, key) = "override"
        BY <2>5 DEF o, Given
      <3> QED
        BY <1>2, <2>1, <2>2, <2>3, <2>5, <3>1 DEF Leads
    <2>6. CASE j.preset # key /\ j.override # key
      <3>1. Given(j, key) = Base[key] /\ c[key] = Base[key]
        BY <2>6 DEF Given, Layered
      <3> QED
        BY <1>2, <2>1, <2>2, <2>3, <2>6, <3>1 DEF Leads
    <2> QED
      BY <2>4, <2>5, <2>6
  <1> QED
    BY <1>3, <1>4, <1>5, <1>6

LEMMA LayersHave ==
  ASSUME NEW j \in JobType
  PROVE  \A i \in 1 .. Len(Layers(j)) : Layers(j)[i] \in {<<j.override, "override">>, <<j.preset, "preset">>}
  <1> DEFINE o == <<j.override, "override">>
             p == <<j.preset, "preset">>
  <1>1. Layers(j) \in {<<>>, <<o>>, <<p>>, <<o, p>>}
    BY LayersAre
  <1>2. o \in {o, p} /\ p \in {o, p}
    OBVIOUS
  <1> HIDE DEF o, p
  <1>3. /\ <<>> \in Seq({o, p}) /\ <<o>> \in Seq({o, p}) /\ <<p>> \in Seq({o, p})
        /\ <<o, p>> \in Seq({o, p})
    BY <1>2, ShortSequences
  <1>4. Layers(j) \in Seq({o, p})
    BY <1>1, <1>3
  <1>5. \A i \in 1 .. Len(Layers(j)) : Layers(j)[i] \in {o, p}
    BY <1>4
  <1> QED
    BY <1>5 DEF o, p

\* A key that the layers do not have.
LEMMA LayersLeave ==
  ASSUME NEW j \in JobType, NEW c, NEW key \in Keys, ~Layered(j, key)
  PROVE  Leads(c, Layers(j), key, c[key])
  <1> DEFINE o == <<j.override, "override">>
             p == <<j.preset, "preset">>
  <1>1. o[1] # key /\ p[1] # key
    BY DEF Layered
  <1>2. \A i \in 1 .. Len(Layers(j)) : Layers(j)[i] \in {o, p}
    BY LayersHave
  <1> HIDE DEF o, p
  <1> QED
    BY <1>1, <1>2 DEF Leads

\* The operations that come with the last one that failed are not the leading ones.
LevelInv == err => at > Firm

\* A key that nothing sets is the one of the file.
Changed(c) == \A key \in Keys : ~Settable(job, key) /\ ~Layered(job, key) => c[key] = Base[key]
OriginInv ==
  /\ mem # Absent => Changed(mem)
  /\ shared \notin {Absent, Torn} => Changed(shared)
  /\ \A i \in 1 .. Len(pending) : Settable(job, pending[i][1]) \/ Layered(job, pending[i][1])

\* An entry point that has not failed has the values it has set, and those it was given.
Running == ~err /\ (pc = "run" \/ outcome = "ok")
SetBefore(key) == \E i \in 1 .. at - 1 : Ops[i].op = "set" /\ Ops[i].arg = key
ValueInv ==
  Running =>
    \A key \in Keys :
      /\ SetBefore(key) => Leads(mem, pending, key, SetValue(key))
      /\ ~Settable(job, key) => Leads(mem, pending, key, Given(job, key))

\* The namespace that the preparation of the SDK user test has set comes to its test.
SdkShared == job.test = "sdk_user" /\ job.shared /\ ~Layered(job, "namespace")
HandoverInv ==
  SdkShared =>
    /\ step = 1 => (shared = Absent /\ mem \in {Absent, Base}) \/ writing \/ shared = mem
    /\ step = 2 /\ pc \in {"start", "load"} =>
         shared \notin {Absent, Torn} /\ shared["namespace"] = "sdk-user-test"
    /\ step = 2 /\ Running => Leads(mem, pending, "namespace", "sdk-user-test")

\* A step that succeeds has nothing left to set.
OkInv == outcome = "ok" => pending = <<>> /\ ~writing

\* An operation: what it does to the configuration, and to the rest of the process.
Operates(op, failed) ==
  /\ Ready(op) /\ Return(failed)
  /\ op # "set" => pending' = pending
  /\ op = "set" => /\ ~failed
                   /\ pending' = IF Arg = "tag" THEN <<<<"tag", "pr">>>>
                                                ELSE <<<<"namespace", "sdk-user-test">>>>

LEMMA Actions ==
  ASSUME [Next]_vars
  PROVE  \/ Prechecks \/ Postchecks \/ Interrupt \/ NextStep \/ InitFails \/ Load \/ SetConfig \/ WriteCopy
         \/ \E op \in Names, failed \in BOOLEAN : Operates(op, failed)
         \/ UNCHANGED <<job, step, process, configs>>
  <1> DEFINE Some == \E op \in Names, failed \in BOOLEAN : Operates(op, failed)
             Same == UNCHANGED <<job, step, process, configs>>
             Control == \/ Prechecks \/ Postchecks \/ Interrupt \/ NextStep \/ InitFails \/ Load
                        \/ SetConfig \/ WriteCopy
  <1> SUFFICES Control \/ Some \/ Same
    OBVIOUS
  <1>0. ASSUME NEW op \in Names, op # "set", Ready(op), \E failed \in BOOLEAN : Return(failed),
               pending' = pending
        PROVE  Some
    BY <1>0 DEF Operates
  <1>1. CASE Set
    <2>1. Operates("set", FALSE)
      BY <1>1 DEF Set, Operates
    <2> QED
      BY <2>1 DEF Names
  <1>2. CASE MakeIt
    BY <1>0, <1>2 DEF MakeIt, Names
  <1>3. CASE ScaleUp
    BY <1>0, <1>3 DEF ScaleUp, Names
  <1>4. CASE Drop
    BY <1>0, <1>4 DEF Drop, Names
  <1>5. CASE Raise
    BY <1>0, <1>5 DEF Raise, Names
  <1>6. CASE RunMulti
    BY <1>0, <1>6 DEF RunMulti, Names
  <1>7. CASE Plot
    BY <1>0, <1>7 DEF Plot, Names
  <1>8. CASE McadTests
    BY <1>0, <1>8 DEF McadTests, Names
  <1>9. CASE DropHomes
    BY <1>0, <1>9 DEF DropHomes, Names
  <1>10. CASE DropNamespace
    BY <1>0, <1>10 DEF DropNamespace, Names
  <1>11. CASE StartPods \/ (\E u \in Users : NewProject(u) \/ Label(u) \/ PodEnds(u)) \/ Done \/ UNCHANGED vars
    <2>1. Same
      BY <1>11 DEF StartPods, NewProject, Label, PodEnds, Done, vars
    <2> QED
      BY <2>1
  <1>12. CASE Prechecks \/ Postchecks \/ Interrupt \/ NextStep \/ InitFails \/ Load \/ SetConfig \/ WriteCopy
    BY <1>12
  <1> HIDE DEF Some, Same, Control
  <1> QED
    BY <1>1, <1>2, <1>3, <1>4, <1>5, <1>6, <1>7, <1>8, <1>9, <1>10, <1>11, <1>12 DEF Next

\* What an operation finds: where it is, and the kind of its step.
LEMMA Operating ==
  ASSUME StepType, NEW op, Ready(op)
  PROVE  /\ pc = "run" /\ pending = <<>> /\ ~writing /\ at \in 1 .. Len(Ops) /\ Len(Ops) \in Nat
         /\ Ops[at].op = op /\ Ops[at].arg = Arg /\ Ops[at] \in Operation
         /\ job \in JobType
         /\ step = 1 => Ops[at] \in PrepareOperation(job)
         /\ step = 2 => Ops[at] \in TestOperation(job)
         /\ step = 3 => Ops[at] \in CleanupOperation
  <1>1. job \in JobType /\ Ops \in Seq(Operation) /\ Len(Ops) \in Nat /\ DOMAIN Ops = 1 .. Len(Ops)
    BY JobsAreTyped, OpsAreASequence DEF StepType
  <1>2. pc = "run" /\ pending = <<>> /\ ~writing /\ at \in 1 .. Len(Ops) /\ Ops[at].op = op
    BY <1>1 DEF Ready
  <1>3. Ops[at] \in Operation
    BY <1>1, <1>2
  <1>4. /\ step = 1 => Ops[at] \in PrepareOperation(job)
        /\ step = 2 => Ops[at] \in TestOperation(job)
        /\ step = 3 => Ops[at] \in CleanupOperation
    BY <1>1, <1>2, StepOps, OpsOfTheSteps
  <1> QED
    BY <1>1, <1>2, <1>3, <1>4 DEF Arg

\* After it: the next operation, or a later one.
LEMMA Operated ==
  ASSUME StepType, NEW op, NEW failed \in BOOLEAN, Ready(op), Return(failed)
  PROVE  /\ UNCHANGED <<job, step, pc, outcome, mem, shared, writing>> /\ Ops' = Ops
         /\ at' \in at + 1 .. Len(Ops) + 1 /\ at' > at
         /\ failed => err' /\ (at' = Len(Ops) + 1 \/ Ops[at'].level > Ops[at].level)
         /\ ~failed => err' = err /\ at' = at + 1
  <1>1. UNCHANGED <<job, step, pc, outcome, mem, shared, writing>> /\ at' = After(failed)
        /\ err' = (err \/ failed) /\ err \in BOOLEAN
    BY DEF Return, StepType
  <1>2. at \in 1 .. Len(Ops) /\ Len(Ops) \in Nat
    BY Operating
  <1>3. Ops' = Ops
    BY <1>1, SameOps
  <1>4. CASE failed
    <2>1. failed = TRUE
      BY <1>4
    <2>2. After(TRUE) \in at + 1 .. Len(Ops) + 1
          /\ (After(TRUE) = Len(Ops) + 1 \/ Ops[After(TRUE)].level > Ops[at].level)
      BY <1>2, AfterIsLater, JobsAreTyped DEF StepType
    <2>3. err' = TRUE /\ at' \in at + 1 .. Len(Ops) + 1
          /\ (at' = Len(Ops) + 1 \/ Ops[at'].level > Ops[at].level)
      BY <1>1, <2>1, <2>2
    <2>4. at' > at
      BY <1>2, <2>3
    <2> QED
      BY <1>1, <1>3, <1>4, <2>2, <2>3, <2>4
  <1>5. CASE ~failed
    <2>1. failed = FALSE
      BY <1>5
    <2>2. After(FALSE) \in at + 1 .. Len(Ops) + 1 /\ After(FALSE) = at + 1
      BY <1>2, AfterIsLater, JobsAreTyped DEF StepType
    <2>3. err' = err /\ at' = at + 1 /\ at' \in at + 1 .. Len(Ops) + 1
      BY <1>1, <2>1, <2>2
    <2>4. at' > at
      BY <1>2, <2>3
    <2> QED
      BY <1>1, <1>3, <1>5, <2>3, <2>4
  <1> QED
    BY <1>4, <1>5

LEMMA FirmOps ==
  ASSUME StepType
  PROVE  /\ Firm \in 0 .. Len(Ops) /\ Len(Ops) \in Nat
         /\ \A i \in 1 .. Firm : i \in 1 .. Len(Ops) /\ Ops[i].level = 0
  <1>1. job \in JobType /\ Len(Ops) \in Nat
    BY JobsAreTyped, OpsAreASequence DEF StepType
  <1>2. CASE step = 2
    <2>1. Firm = RunAt(job) /\ Ops = Test(job)
      BY <1>2, StepOps DEF Firm
    <2>2. Firm \in 1 .. Len(Ops) /\ \A i \in 1 .. Firm : Ops[i].level = 0
      BY <1>1, <2>1, RunIsAt
    <2> QED
      BY <1>1, <2>2
  <1>3. CASE step = 1
    <2>1. \A i \in 1 .. Len(Ops) : Ops[i].level = 0
      BY <1>1, <1>3, StepOps, OpsOfTheSteps DEF PrepareOperation
    <2> QED
      BY <1>1, <1>3, <2>1 DEF Firm
  <1>4. CASE step = 3
    <2>1. \A i \in 1 .. Len(Ops) : Ops[i].level = 0
      BY <1>1, <1>4, StepOps, OpsOfTheSteps DEF CleanupOperation
    <2> QED
      BY <1>1, <1>4, <2>1 DEF Firm
  <1> QED
    BY <1>2, <1>3, <1>4, StepOps

LEMMA LevelStays ==
  ASSUME LevelInv, UNCHANGED <<job, step, at, err>>
  PROVE  LevelInv'
  <1>1. Ops' = Ops
    BY SameOps
  <1>2. Firm' = Firm
    BY <1>1 DEF Firm
  <1> QED
    BY <1>2 DEF LevelInv

LEMMA LevelStep ==
  ASSUME StepType, LevelInv, [Next]_vars
  PROVE  LevelInv'
  <1>1. CASE Prechecks \/ Postchecks \/ Interrupt \/ Load \/ SetConfig \/ WriteCopy
             \/ UNCHANGED <<job, step, process, configs>>
    BY <1>1, LevelStays DEF Prechecks, Postchecks, Interrupt, Load, SetConfig, WriteCopy, process
  <1>2. CASE NextStep
    BY <1>2 DEF NextStep, LevelInv
  <1>3. CASE InitFails
    <2>1. UNCHANGED <<job, step>> /\ at' = Len(Ops) + 1
      BY <1>3 DEF InitFails
    <2>2. Firm' = Firm
      BY <2>1, SameOps DEF Firm
    <2> QED
      BY <2>1, <2>2, FirmOps DEF LevelInv
  <1>4. ASSUME NEW op \in Names, NEW failed \in BOOLEAN, Operates(op, failed)
        PROVE  LevelInv'
    <2>1. Ready(op) /\ Return(failed)
      BY <1>4 DEF Operates
    <2>2. at \in 1 .. Len(Ops) /\ Len(Ops) \in Nat /\ Ops[at] \in Operation
      BY <2>1, Operating
    <2>3. /\ UNCHANGED <<job, step>> /\ Ops' = Ops /\ at' > at /\ at' \in at + 1 .. Len(Ops) + 1
          /\ failed => (at' = Len(Ops) + 1 \/ Ops[at'].level > Ops[at].level)
          /\ ~failed => err' = err
      BY <2>1, Operated
    <2>4. Firm' = Firm
      BY <2>3 DEF Firm
    <2>5. CASE at > Firm
      BY <2>2, <2>3, <2>4, <2>5, FirmOps DEF LevelInv
    <2>6. CASE at <= Firm /\ failed
      <3>1. Ops[at].level = 0
        BY <2>2, <2>6, FirmOps
      <3>2. at' > Firm
        <4>1. CASE at' = Len(Ops) + 1
          BY <4>1, FirmOps
        <4>2. CASE Ops[at'].level > 0
          BY <2>2, <2>3, <4>2, FirmOps
        <4> QED
          BY <2>3, <2>6, <3>1, <4>1, <4>2
      <3> QED
        BY <2>4, <3>2 DEF LevelInv
    <2>7. CASE at <= Firm /\ ~failed
      <3>1. ~err
        BY <2>2, <2>7, FirmOps DEF LevelInv
      <3> QED
        BY <2>3, <2>7, <3>1 DEF LevelInv
    <2> QED
      BY <2>2, <2>5, <2>6, <2>7, FirmOps
  <1> QED
    BY <1>1, <1>2, <1>3, <1>4, Actions

LEMMA SetIsSettable ==
  ASSUME StepType, Ready("set")
  PROVE  Arg \in {"tag", "namespace"} /\ Settable(job, Arg)
  <1>1. Ops[at].op = "set" /\ Ops[at].arg = Arg /\ step \in {1, 2, 3}
        /\ (step = 1 => Ops[at] \in PrepareOperation(job))
        /\ (step = 2 => Ops[at] \in TestOperation(job))
        /\ (step = 3 => Ops[at] \in CleanupOperation)
    BY Operating, StepOps
  <1>2. Settable(job, Arg)
    BY <1>1 DEF PrepareOperation, TestOperation, CleanupOperation
  <1> QED
    BY <1>2 DEF Settable

\* The setting that an operation asks for.
LEMMA SetPending ==
  ASSUME StepType, NEW failed, Operates("set", failed)
  PROVE  pending' = <<<<Arg, SetValue(Arg)>>>> /\ ~failed /\ Settable(job, Arg) /\ Ready("set")
  <1>1. Ready("set") /\ ~failed
        /\ pending' = (IF Arg = "tag" THEN <<<<"tag", "pr">>>> ELSE <<<<"namespace", "sdk-user-test">>>>)
    BY DEF Operates
  <1>2. Arg \in {"tag", "namespace"} /\ Settable(job, Arg)
    BY <1>1, SetIsSettable
  <1>3. CASE Arg = "tag"
    BY <1>1, <1>2, <1>3 DEF SetValue
  <1>4. CASE Arg = "namespace"
    BY <1>1, <1>2, <1>4 DEF SetValue
  <1> QED
    BY <1>2, <1>3, <1>4

LEMMA OriginStays ==
  ASSUME OriginInv, UNCHANGED <<job, mem, shared, pending>>
  PROVE  OriginInv'
  BY DEF OriginInv, Changed

LEMMA OriginStep ==
  ASSUME StepType, ConfigType, LoadInv, OriginInv, [Next]_vars
  PROVE  OriginInv'
  <1>1. CASE Prechecks \/ Postchecks \/ Interrupt \/ InitFails \/ UNCHANGED <<job, step, process, configs>>
    BY <1>1, OriginStays DEF Prechecks, Postchecks, Interrupt, InitFails, configs
  <1>2. CASE NextStep
    <2>1. mem' = Absent /\ pending' = <<>> /\ UNCHANGED <<job, shared>>
      BY <1>2 DEF NextStep
    <2> QED
      BY <2>1 DEF OriginInv, Changed
  <1>3. CASE Load
    <2>1. mem' = (IF shared = Absent THEN Base ELSE shared) /\ pending' = Layers(job) /\ UNCHANGED <<job, shared>>
          /\ shared # Torn
      BY <1>3 DEF Load
    <2>2. \A key \in Keys : ~Settable(job, key) /\ ~Layered(job, key) => mem'[key] = Base[key]
      BY <2>1 DEF OriginInv, Changed
    <2> DEFINE o == <<job.override, "override">>
               p == <<job.preset, "preset">>
    <2>3. \A i \in 1 .. Len(Layers(job)) : Layers(job)[i] \in {o, p}
      BY LayersHave, JobsAreTyped
    <2>4. Layered(job, o[1]) /\ Layered(job, p[1])
      BY DEF Layered
    <2> HIDE DEF o, p
    <2>5. \A i \in 1 .. Len(Layers(job)) : Layered(job, Layers(job)[i][1])
      BY <2>3, <2>4
    <2> QED
      BY <2>1, <2>2, <2>5 DEF OriginInv, Changed, Layered, Settable
  <1>4. CASE SetConfig
    <2>1. mem' = Updated(mem, Head(pending)[1], Head(pending)[2]) /\ pending' = Tail(pending)
          /\ UNCHANGED job /\ pending # <<>> /\ shared' \in {Torn, shared}
      BY <1>4 DEF SetConfig
    <2>2. Len(pending) \in Nat /\ Len(pending) >= 1 /\ Len(pending') = Len(pending) - 1
          /\ Head(pending) = pending[1] /\ \A i \in 1 .. Len(pending') : pending'[i] = pending[i + 1]
      BY <2>1, HeadTailProperties DEF ConfigType
    <2>3. mem \in [Keys -> Values] /\ mem # Absent
      BY <2>1, FilesAreNotTorn DEF LoadInv
    <2>4. ASSUME NEW key \in Keys, ~Settable(job, key), ~Layered(job, key)
          PROVE  mem'[key] = Base[key]
      <3>1. key # pending[1][1]
        BY <2>2, <2>4 DEF OriginInv
      <3>2. mem'[key] = mem[key]
        BY <2>1, <2>2, <2>4, <3>1 DEF Updated
      <3> QED
        BY <2>3, <2>4, <3>2 DEF OriginInv, Changed
    <2>5. ASSUME NEW i \in 1 .. Len(pending')
          PROVE  Settable(job, pending'[i][1]) \/ Layered(job, pending'[i][1])
      <3>1. i + 1 \in 1 .. Len(pending) /\ pending'[i] = pending[i + 1]
        BY <2>2
      <3> QED
        BY <3>1 DEF OriginInv
    <2> QED
      BY <2>1, <2>4, <2>5 DEF OriginInv, Changed, Layered, Settable
  <1>5. CASE WriteCopy
    <2>1. shared' = mem /\ UNCHANGED <<job, mem, pending>> /\ mem # Absent
      BY <1>5, FilesAreNotTorn DEF WriteCopy, LoadInv
    <2> QED
      BY <2>1 DEF OriginInv, Changed
  <1>6. ASSUME NEW op \in Names, NEW failed \in BOOLEAN, Operates(op, failed)
        PROVE  OriginInv'
    <2>1. UNCHANGED <<job, mem, shared>>
      BY <1>6, Operated DEF Operates
    <2>2. CASE op # "set"
      BY <1>6, <2>1, <2>2, OriginStays DEF Operates
    <2>3. CASE op = "set"
      <3>1. pending' = <<<<Arg, SetValue(Arg)>>>> /\ Settable(job, Arg)
        BY <1>6, <2>3, SetPending
      <3>2. \A i \in 1 .. Len(pending') : pending'[i][1] = Arg
        BY <3>1
      <3> QED
        BY <2>1, <3>1, <3>2 DEF OriginInv, Changed, Settable, Layered
    <2> QED
      BY <2>2, <2>3
  <1> QED
    BY <1>1, <1>2, <1>3, <1>4, <1>5, <1>6, Actions

LEMMA ValueStays ==
  ASSUME ValueInv, UNCHANGED <<job, step, at, mem, pending>>, Running' => Running
  PROVE  ValueInv'
  <1>1. Ops' = Ops
    BY SameOps
  <1>2. ASSUME NEW key \in Keys
        PROVE  (SetBefore(key)' <=> SetBefore(key)) /\ Settable(job, key)' = Settable(job, key)
    BY <1>1 DEF SetBefore
  <1> QED
    BY <1>2 DEF ValueInv

LEMMA ValueStep ==
  ASSUME StepType, ConfigType, LoadInv, OriginInv, OutcomeInv, ValueInv, [Next]_vars
  PROVE  ValueInv'
  <1>1. CASE Prechecks \/ Interrupt \/ InitFails
    <2>1. ~Running'
      BY <1>1 DEF Prechecks, Interrupt, InitFails, Running
    <2> QED
      BY <2>1 DEF ValueInv
  <1>2. CASE NextStep
    <2>1. ~Running'
      BY <1>2 DEF NextStep, Running
    <2> QED
      BY <2>1 DEF ValueInv
  <1>3. CASE Postchecks \/ WriteCopy
    <2>1. Running' => Running
      BY <1>3 DEF Postchecks, WriteCopy, Running, process
    <2>2. UNCHANGED <<job, step, at, mem, pending>>
      BY <1>3 DEF Postchecks, WriteCopy, configs, process
    <2> QED
      BY <2>1, <2>2, ValueStays
  <1>4. CASE UNCHANGED <<job, step, process, configs>>
    <2>1. Running' => Running
      BY <1>4 DEF Running, process
    <2> QED
      BY <1>4, <2>1, ValueStays DEF process, configs
  <1>5. CASE Load
    <2>1. mem' = (IF shared = Absent THEN Base ELSE shared) /\ pending' = Layers(job) /\ UNCHANGED <<job, at>>
          /\ shared # Torn /\ at = 1
      BY <1>5 DEF Load, LoadInv
    <2>2. ASSUME NEW key \in Keys
          PROVE  ~SetBefore(key)'
      BY <2>1 DEF SetBefore
    <2>3. ASSUME NEW key \in Keys, ~Settable(job, key)
          PROVE  Leads(mem', pending', key, Given(job, key))
      <3>1. ~Layered(job, key) => mem'[key] = Base[key]
        BY <2>1, <2>3 DEF OriginInv, Changed
      <3> QED
        BY <2>1, <3>1, LayersLead, JobsAreTyped
    <2> QED
      BY <2>1, <2>2, <2>3 DEF ValueInv
  <1>6. CASE SetConfig
    <2>1. mem' = Updated(mem, Head(pending)[1], Head(pending)[2]) /\ pending' = Tail(pending)
          /\ UNCHANGED <<job, step, process>> /\ pending # <<>>
      BY <1>6 DEF SetConfig
    <2>2. mem \in [Keys -> Values] /\ pending \in Seq(Settings)
      BY <2>1 DEF LoadInv, ConfigType
    <2>3. ASSUME NEW key \in Keys, NEW v, Leads(mem, pending, key, v)
          PROVE  Leads(mem', pending', key, v)
      BY <2>1, <2>2, <2>3, LeadsNext
    <2>4. Running' => Running
      BY <2>1 DEF Running, process
    <2>5. Ops' = Ops /\ at' = at
      BY <2>1, SameOps DEF process
    <2>6. \A key \in Keys : SetBefore(key)' <=> SetBefore(key)
      BY <2>5 DEF SetBefore
    <2> QED
      BY <2>1, <2>3, <2>4, <2>6 DEF ValueInv
  <1>7. ASSUME NEW op \in Names, NEW failed \in BOOLEAN, Operates(op, failed)
        PROVE  ValueInv'
    <2>1. Ready(op) /\ Return(failed)
      BY <1>7 DEF Operates
    <2>2. pc = "run" /\ pending = <<>> /\ at \in 1 .. Len(Ops) /\ Len(Ops) \in Nat
          /\ Ops[at].op = op /\ Ops[at].arg = Arg
      BY <2>1, Operating
    <2>3. /\ UNCHANGED <<job, step, mem>> /\ Ops' = Ops
          /\ failed => err'
          /\ ~failed => err' = err /\ at' = at + 1
      BY <2>1, Operated
    <2> SUFFICES ASSUME Running', NEW key \in Keys
                 PROVE  /\ SetBefore(key)' => Leads(mem', pending', key, SetValue(key))
                        /\ ~Settable(job, key) => Leads(mem', pending', key, Given(job, key))
      BY <2>3 DEF ValueInv
    <2>4. ~failed /\ Running /\ at' = at + 1
      BY <2>2, <2>3 DEF Running
    <2>5. SetBefore(key)' => SetBefore(key) \/ (op = "set" /\ Arg = key)
      <3>1. \A i \in 1 .. (at + 1) - 1 : i = at \/ i \in 1 .. at - 1
        BY <2>2
      <3> QED
        BY <2>2, <2>3, <2>4, <3>1 DEF SetBefore
    <2>6. /\ SetBefore(key) => mem[key] = SetValue(key)
          /\ ~Settable(job, key) => mem[key] = Given(job, key)
      BY <2>2, <2>4, LeadsDone DEF ValueInv
    <2>7. CASE op # "set"
      <3>1. pending' = <<>>
        BY <1>7, <2>2, <2>7 DEF Operates
      <3> QED
        BY <2>3, <2>5, <2>6, <2>7, <3>1, LeadsDone
    <2>8. CASE op = "set"
      <3>1. pending' = <<<<Arg, SetValue(Arg)>>>> /\ Settable(job, Arg)
        BY <1>7, <2>8, SetPending
      <3>2. CASE key = Arg
        BY <2>3, <3>1, <3>2, LeadsOne
      <3>3. CASE key # Arg
        <4>1. \A w : Leads(mem', pending', key, w) <=> mem[key] = w
          BY <2>3, <3>1, <3>3, LeadsOne
        <4> QED
          BY <2>5, <2>6, <3>3, <4>1
      <3> QED
        BY <3>2, <3>3
    <2> QED
      BY <2>7, <2>8
  <1> QED
    BY <1>1, <1>2, <1>3, <1>4, <1>5, <1>6, <1>7, Actions

LEMMA OkStep ==
  ASSUME OutcomeInv, OkInv, StepType, [Next]_vars
  PROVE  OkInv'
  <1>1. CASE Prechecks \/ Interrupt \/ NextStep
    BY <1>1 DEF Prechecks, Interrupt, NextStep, OkInv
  <1>2. CASE Postchecks
    BY <1>2 DEF Postchecks, OkInv, configs
  <1>3. CASE InitFails \/ Load \/ SetConfig \/ WriteCopy
    <2>1. outcome = "none" /\ outcome' = outcome
      BY <1>3 DEF InitFails, Load, SetConfig, WriteCopy, OutcomeInv, process
    <2> QED
      BY <2>1 DEF OkInv
  <1>4. CASE UNCHANGED <<job, step, process, configs>>
    BY <1>4 DEF OkInv, process, configs
  <1>5. ASSUME NEW op \in Names, NEW failed \in BOOLEAN, Operates(op, failed)
        PROVE  OkInv'
    <2>1. pc = "run" /\ outcome' = outcome
      BY <1>5, Operating, Operated DEF Operates
    <2> QED
      BY <2>1 DEF OkInv, OutcomeInv
  <1> QED
    BY <1>1, <1>2, <1>3, <1>4, <1>5, Actions

\* A preparation that has gone past its operations has set what it sets.
LEMMA NamespaceIsSet ==
  ASSUME StepType, step = 1, job.test = "sdk_user", at = Len(Ops) + 1
  PROVE  SetBefore("namespace")
  <1>1. job \in JobType /\ Ops = Prepare(job) /\ Len(Ops) \in Nat
    BY JobsAreTyped, OpsAreASequence, StepOps DEF StepType
  <1>2. Has(Prepare(job), Make("namespace"))
        /\ Precedes(Prepare(job), Do("set", "namespace"), Make("namespace"))
    BY <1>1, NeededIsPrepared DEF Needed
  <1>3. PICK i \in 1 .. Len(Prepare(job)) : Prepare(job)[i] = Make("namespace")
    BY <1>2 DEF Has
  <1>4. PICK k \in 1 .. i - 1 : Prepare(job)[k] = Do("set", "namespace")
    BY <1>2, <1>3 DEF Precedes
  <1>5. k \in 1 .. at - 1
    BY <1>1, <1>3, <1>4
  <1> QED
    BY <1>1, <1>4, <1>5 DEF SetBefore, Do

LEMMA HandoverStays ==
  ASSUME HandoverInv, UNCHANGED <<job, step, mem, shared, pending, writing>>,
         Running' => Running, pc' \in {"start", "load"} => pc \in {"start", "load"}
  PROVE  HandoverInv'
  <1>1. SdkShared' = SdkShared
    BY DEF SdkShared, Layered
  <1> QED
    BY <1>1 DEF HandoverInv

LEMMA HandoverStep ==
  ASSUME StepType, ConfigType, LoadInv, OutcomeInv, OkInv, ValueInv, HandoverInv, [Next]_vars
  PROVE  HandoverInv'
  <1>0. "namespace" \in Keys /\ Absent["namespace"] = "absent" /\ Base["namespace"] = "driver"
        /\ Torn["namespace"] = "torn"
    BY DEF Keys, Absent, Base, Torn, File
  <1>1. CASE Prechecks \/ Postchecks \/ Interrupt \/ InitFails
    <2>1. UNCHANGED <<job, step, mem, shared, pending, writing>>
      BY <1>1 DEF Prechecks, Postchecks, Interrupt, InitFails, configs
    <2>2. Running' => Running
      BY <1>1 DEF Prechecks, Postchecks, Interrupt, InitFails, Running
    <2>3. pc' \in {"start", "load"} => pc \in {"start", "load"}
      BY <1>1 DEF Prechecks, Postchecks, Interrupt, InitFails
    <2> QED
      BY <2>1, <2>2, <2>3, HandoverStays
  <1>2. CASE UNCHANGED <<job, step, process, configs>>
    <2>1. UNCHANGED <<job, step, mem, shared, pending, writing>>
      BY <1>2 DEF configs
    <2>2. (Running' => Running) /\ pc' = pc
      BY <1>2 DEF process, Running
    <2> QED
      BY <2>1, <2>2, HandoverStays
  <1> SUFFICES ASSUME SdkShared'
               PROVE  /\ step' = 1 => (shared' = Absent /\ mem' \in {Absent, Base}) \/ writing' \/ shared' = mem'
                      /\ step' = 2 /\ pc' \in {"start", "load"} =>
                           shared' \notin {Absent, Torn} /\ shared'["namespace"] = "sdk-user-test"
                      /\ step' = 2 /\ Running' => Leads(mem', pending', "namespace", "sdk-user-test")
    BY DEF HandoverInv
  <1>3. CASE NextStep
    <2>1. pc' = "start" /\ outcome' = "none" /\ UNCHANGED <<job, shared>> /\ pc = "over"
          /\ step' = (IF step = 1 /\ outcome # "ok" THEN 3 ELSE step + 1)
      BY <1>3 DEF NextStep
    <2>2. ~Running' /\ step' # 1
      BY <2>1, StepOps DEF Running
    <2>3. ASSUME step' = 2
          PROVE  shared' \notin {Absent, Torn} /\ shared'["namespace"] = "sdk-user-test"
      <3>1. step = 1 /\ outcome = "ok"
        BY <2>1, <2>3, StepOps
      <3>2. at = Len(Ops) + 1 /\ ~err /\ pending = <<>> /\ ~writing
        BY <3>1 DEF OutcomeInv, OkInv
      <3>3. SdkShared /\ job.test = "sdk_user"
        BY <2>1 DEF SdkShared, Layered
      <3>4. SetBefore("namespace") /\ Running
        BY <3>1, <3>2, <3>3, NamespaceIsSet DEF Running
      <3>5. SetValue("namespace") = "sdk-user-test"
        BY DEF SetValue
      <3>6. mem["namespace"] = "sdk-user-test"
        BY <1>0, <3>2, <3>4, <3>5, LeadsDone DEF ValueInv
      <3>7. mem \notin {Absent, Base, Torn}
        BY <1>0, <3>6
      <3>8. shared = mem
        BY <3>1, <3>2, <3>3, <3>7 DEF HandoverInv
      <3> QED
        BY <2>1, <3>6, <3>7, <3>8
    <2> QED
      BY <2>1, <2>2, <2>3
  <1>4. CASE Load
    <2>1. mem' = (IF shared = Absent THEN Base ELSE shared) /\ pending' = Layers(job)
          /\ UNCHANGED <<job, step, shared, writing>> /\ pc = "load" /\ pc' = "run" /\ shared # Torn
      BY <1>4 DEF Load
    <2>2. SdkShared
      BY <2>1 DEF SdkShared, Layered
    <2>3. step' = 1 => (shared' = Absent /\ mem' \in {Absent, Base}) \/ writing' \/ shared' = mem'
      BY <2>1
    <2>4. ASSUME step = 2
          PROVE  Leads(mem', pending', "namespace", "sdk-user-test")
      <3>1. shared # Absent /\ shared["namespace"] = "sdk-user-test"
        BY <2>1, <2>2, <2>4 DEF HandoverInv
      <3>2. mem' = shared /\ mem'["namespace"] = "sdk-user-test"
        BY <2>1, <3>1
      <3>3. ~Layered(job, "namespace")
        BY <2>2 DEF SdkShared
      <3>4. Leads(mem', Layers(job), "namespace", mem'["namespace"])
        BY <1>0, <3>3, LayersLeave, JobsAreTyped
      <3> QED
        BY <2>1, <3>2, <3>4
    <2> QED
      BY <2>1, <2>3, <2>4
  <1>5. CASE SetConfig
    <2>1. mem' = Updated(mem, Head(pending)[1], Head(pending)[2]) /\ pending' = Tail(pending)
          /\ UNCHANGED <<job, step, process>> /\ pending # <<>> /\ writing' = job.shared /\ pc = "run"
      BY <1>5 DEF SetConfig
    <2>2. SdkShared /\ job.shared
      BY <2>1 DEF SdkShared, Layered
    <2>3. mem \in [Keys -> Values] /\ pending \in Seq(Settings)
      BY <2>1 DEF LoadInv, ConfigType
    <2>4. Running' => Running
      BY <2>1 DEF Running, process
    <2>5. pc' = pc
      BY <2>1 DEF process
    <2>6. step = 2 /\ Running => Leads(mem', pending', "namespace", "sdk-user-test")
      <3>1. step = 2 /\ Running => Leads(mem, pending, "namespace", "sdk-user-test")
        BY <2>2 DEF HandoverInv
      <3> QED
        BY <1>0, <2>1, <2>3, <3>1, LeadsNext
    <2> QED
      BY <2>1, <2>2, <2>4, <2>5, <2>6
  <1>6. CASE WriteCopy
    <2>1. shared' = mem /\ UNCHANGED <<job, step, process, mem, pending>> /\ pc = "run"
      BY <1>6 DEF WriteCopy
    <2>2. SdkShared /\ (Running' => Running) /\ pc' = pc
      BY <2>1 DEF SdkShared, Layered, Running, process
    <2> QED
      BY <2>1, <2>2 DEF HandoverInv
  <1>7. ASSUME NEW op \in Names, NEW failed \in BOOLEAN, Operates(op, failed)
        PROVE  HandoverInv'
    <2>1. Ready(op) /\ Return(failed)
      BY <1>7 DEF Operates
    <2>2. pc = "run" /\ pending = <<>>
      BY <2>1, Operating
    <2>3. UNCHANGED <<job, step, pc, outcome, mem, shared, writing>> /\ (failed => err') /\ (~failed => err' = err)
      BY <2>1, Operated
    <2>4. Running' => Running
      BY <2>2, <2>3 DEF Running
    <2>5. CASE op # "set"
      <3>1. pending' = pending
        BY <1>7, <2>5 DEF Operates
      <3> QED
        BY <2>3, <2>4, <3>1, HandoverStays
    <2>6. CASE op = "set"
      <3>1. pending' = <<<<Arg, SetValue(Arg)>>>>
        BY <1>7, <2>6, SetPending
      <3>2. SdkShared
        BY <2>3 DEF SdkShared, Layered
      <3>3. step = 2 /\ Running => Leads(mem', pending', "namespace", "sdk-user-test")
        <4>1. step = 2 /\ Running => mem["namespace"] = "sdk-user-test"
          BY <2>2, <3>2, LeadsDone DEF HandoverInv
        <4>2. CASE Arg = "namespace"
          <5>1. SetValue(Arg) = "sdk-user-test"
            BY <4>2 DEF SetValue
          <5> QED
            BY <3>1, <4>2, <5>1, LeadsOne
        <4>3. CASE Arg # "namespace"
          BY <2>3, <3>1, <4>1, <4>3, LeadsOne
        <4> QED
          BY <4>2, <4>3
      <3> QED
        BY <2>2, <2>3, <2>4, <3>2, <3>3 DEF HandoverInv
    <2> QED
      BY <2>5, <2>6
  <1> QED
    BY <1>1, <1>2, <1>3, <1>4, <1>5, <1>6, <1>7, Actions DEF HandoverInv

\* The invariant of the configuration, of the positions and of the verdicts.
ConfigInv == Types /\ EarnedInv /\ OutcomeInv /\ OkInv /\ LevelInv /\ OriginInv /\ ValueInv /\ HandoverInv

LEMMA ConfigInit == Init => ConfigInv
  <1> SUFFICES ASSUME Init
               PROVE  ConfigInv
    OBVIOUS
  <1>1. Types /\ EarnedInv /\ OutcomeInv
    BY TypesInit, VerdictsInit
  <1>2. OkInv /\ LevelInv
    BY DEF Init, OkInv, LevelInv
  <1>3. OriginInv
    BY DEF Init, OriginInv
  <1>4. ValueInv
    BY DEF Init, ValueInv, Running
  <1>5. HandoverInv
    BY DEF Init, HandoverInv, Running
  <1> QED
    BY <1>1, <1>2, <1>3, <1>4, <1>5 DEF ConfigInv

LEMMA ConfigStep == ConfigInv /\ [Next]_vars => ConfigInv'
  <1> SUFFICES ASSUME ConfigInv, [Next]_vars
               PROVE  ConfigInv'
    OBVIOUS
  <1>1. Types /\ StepType /\ ConfigType /\ LoadInv /\ EarnedInv /\ OutcomeInv /\ OkInv /\ LevelInv /\ OriginInv
        /\ ValueInv /\ HandoverInv
    BY DEF ConfigInv, Types
  <1>2. Types'
    BY <1>1, TypesStep
  <1>3. EarnedInv' /\ OutcomeInv' /\ OkInv' /\ LevelInv' /\ OriginInv'
    BY <1>1, EarnedStep, OutcomeStep, OkStep, LevelStep, OriginStep
  <1>4. ValueInv' /\ HandoverInv'
    BY <1>1, ValueStep, HandoverStep
  <1> QED
    BY <1>2, <1>3, <1>4 DEF ConfigInv

-----------------------------------------------------------------------------
(* What the test needs. *)

\* The sizing rounds up.
LEMMA CeilCovers ==
  ASSUME NEW a \in Nat \ {0}, NEW b \in Nat \ {0}
  PROVE  Ceil(a, b) \in Nat \ {0} /\ Ceil(a, b) * b >= a /\ (Ceil(a, b) - 1) * b < a
  <1> DEFINE x == a + b - 1
             q == x \div b
             r == x % b
  <1>1. x \in Nat /\ x >= b /\ b > 0
    OBVIOUS
  <1>2. q \in Int /\ r \in 0 .. b - 1 /\ x = b * q + r
    BY <1>1
  <1> HIDE DEF q, r
  <1>3. q >= 1
    <2>1. CASE q <= 0
      <3>1. b * q <= 0
        BY <1>1, <1>2, <2>1
      <3> QED
        BY <1>1, <1>2, <3>1
    <2> QED
      BY <1>2, <2>1
  <1>4. q * b = b * q /\ (q - 1) * b = b * q - b
    BY <1>2
  <1>5. q * b >= a /\ (q - 1) * b < a
    BY <1>2, <1>4
  <1> QED
    BY <1>2, <1>3, <1>5 DEF Ceil, q

LEMMA SizeIsEnough ==
  ASSUME NEW j \in JobType, NEW role \in Roles
  PROVE  LET n == MachineCount(j, role)
         IN  /\ n \in Nat
             /\ n * NodeCpu >= j.users * PodSize(j, role).cpu
             /\ n * NodeMemory >= j.users * PodSize(j, role).memory
             /\ n * MaxPodPerNode >= j.users
  <1> DEFINE U == j.users
             cpu == U * PodSize(j, role).cpu
             memory == U * PodSize(j, role).memory
             byCpu == Ceil(cpu, NodeCpu)
             byMemory == Ceil(memory, NodeMemory)
             count == IF byCpu > byMemory THEN byCpu ELSE byMemory
             byPods == Ceil(U, MaxPodPerNode)
             n == MachineCount(j, role)
  <1>1. U \in Nat \ {0} /\ cpu \in Nat \ {0} /\ memory \in Nat \ {0}
    <2>1. j.users \in Nat \ {0} /\ PodSize(j, role).cpu \in Nat \ {0} /\ PodSize(j, role).memory \in Nat \ {0}
      BY DEF JobType, PodSize
    <2> QED
      BY <2>1
  <1>2. NodeCpu \in Nat \ {0} /\ NodeMemory \in Nat \ {0} /\ MaxPodPerNode \in Nat \ {0}
    BY DEF NodeCpu, NodeMemory, MaxPodPerNode
  <1>3. n = IF Ceil(U, count) > MaxPodPerNode THEN byPods ELSE count
    BY DEF MachineCount
  <1> HIDE DEF U, cpu, memory, n
  <1>4. byCpu \in Nat \ {0} /\ byCpu * NodeCpu >= cpu
    BY <1>1, <1>2, CeilCovers
  <1>5. byMemory \in Nat \ {0} /\ byMemory * NodeMemory >= memory
    BY <1>1, <1>2, CeilCovers
  <1>6. byPods \in Nat \ {0} /\ byPods * MaxPodPerNode >= U
    BY <1>1, <1>2, CeilCovers
  <1> HIDE DEF byCpu, byMemory, byPods
  <1>7. count \in Nat \ {0} /\ count >= byCpu /\ count >= byMemory
    BY <1>4, <1>5
  <1> HIDE DEF count
  <1>8. Ceil(U, count) \in Nat \ {0} /\ Ceil(U, count) * count >= U /\ (Ceil(U, count) - 1) * count < U
    BY <1>1, <1>7, CeilCovers
  <1>9. ASSUME NEW a \in Nat, NEW b \in Nat, NEW c \in Nat, a >= b
        PROVE  a * c >= b * c
    <2>1. (a - b) * c >= 0
      BY <1>9
    <2>2. a * c = b * c + (a - b) * c
      BY <1>9
    <2> QED
      BY <2>1, <2>2
  <1>10. n \in Nat /\ n >= count /\ n * MaxPodPerNode >= U
    <2>1. CASE Ceil(U, count) > MaxPodPerNode
      <3>1. Ceil(U, count) - 1 >= MaxPodPerNode /\ Ceil(U, count) - 1 \in Nat
        BY <1>2, <1>8, <2>1
      <3>2. (Ceil(U, count) - 1) * count >= MaxPodPerNode * count
        BY <1>2, <1>7, <1>9, <3>1
      <3>3. U > MaxPodPerNode * count
        BY <1>1, <1>2, <1>7, <1>8, <3>1, <3>2
      <3>4. byPods * MaxPodPerNode > count * MaxPodPerNode
        BY <1>1, <1>2, <1>6, <1>7, <3>3 DEF MaxPodPerNode
      <3>5. byPods >= count
        BY <1>6, <1>7, <3>4 DEF MaxPodPerNode
      <3> QED
        BY <1>3, <1>6, <2>1, <3>5
    <2>2. CASE ~(Ceil(U, count) > MaxPodPerNode)
      <3>1. Ceil(U, count) <= MaxPodPerNode /\ n = count
        BY <1>2, <1>3, <1>8, <2>2
      <3>2. MaxPodPerNode * count >= Ceil(U, count) * count
        BY <1>2, <1>7, <1>8, <1>9, <3>1
      <3> QED
        BY <1>1, <1>2, <1>7, <1>8, <3>1, <3>2 DEF MaxPodPerNode
    <2> QED
      BY <2>1, <2>2
  <1>11. n * NodeCpu >= byCpu * NodeCpu /\ n * NodeMemory >= byMemory * NodeMemory
    BY <1>4, <1>5, <1>7, <1>10 DEF NodeCpu, NodeMemory
  <1>12. n * NodeCpu >= cpu /\ n * NodeMemory >= memory
    BY <1>1, <1>4, <1>5, <1>10, <1>11 DEF NodeCpu, NodeMemory
  <1> QED
    BY <1>10, <1>12 DEF U, cpu, memory, n

\* Where the Job finds what it needs, whatever step deploys it.
WantedNamespace == IF job.test = "sdk_user" THEN "sdk-user-test" ELSE Given(job, "namespace")
WantedTag == IF job.pr THEN "pr" ELSE Given(job, "tag")
Wanted(what) ==
  IF what # "image" THEN <<what, WantedNamespace, "-">>
  ELSE <<what, WantedNamespace, IF job.test = "pipelines" THEN WantedTag ELSE "codeflare-sdk">>

\* What the preparation has gone past is there, through the test.
MadeBy(o) ==
  /\ o.op = "make" /\ o.arg \in Needed => Wanted(o.arg) \in cluster
  /\ o.op = "scale" => nodes[o.arg] \in NodeRequirement(job, o.arg)
MadeInv ==
  job.test # "mcad" =>
    /\ step = 1 /\ ~err => \A i \in 1 .. at - 1 : MadeBy(Ops[i])
    /\ step = 2 => \A i \in 1 .. Len(Prepare(job)) : MadeBy(Prepare(job)[i])

LEMMA PlacedAsWanted ==
  ASSUME job \in JobType, job.test # "mcad", NEW what \in Needed, mem["namespace"] = WantedNamespace,
         what = "image" /\ job.test = "pipelines" => mem["tag"] = WantedTag
  PROVE  Placed(what) = Wanted(what)
  <1>1. job.test \in {"sdk_user", "pipelines"}
    BY DEF JobType, Tests
  <1>2. CASE what = "image" /\ job.test = "pipelines"
    BY <1>2 DEF Placed, Wanted
  <1>3. CASE what = "image" /\ job.test = "sdk_user"
    <2>1. Placed(what) = <<what, mem["namespace"], "codeflare-sdk">>
      BY <1>3 DEF Placed
    <2>2. Wanted(what) = <<what, WantedNamespace, "codeflare-sdk">>
      BY <1>3 DEF Wanted
    <2> QED
      BY <2>1, <2>2
  <1>4. CASE what # "image"
    <2>1. what \in {"namespace", "redis", "minio", "account", "binding", "secret"}
      BY <1>4 DEF Needed
    <2>2. Placed(what) = <<what, mem["namespace"], "-">>
      BY <1>4, <2>1 DEF Placed
    <2>3. Wanted(what) = <<what, WantedNamespace, "-">>
      BY <1>4 DEF Wanted
    <2> QED
      BY <2>2, <2>3
  <1> QED
    BY <1>1, <1>2, <1>3, <1>4

\* The values that the operations of a step work with.
LEMMA ValuesOfOperation ==
  ASSUME ConfigInv, NEW op, Ready(op), ~err, NEW key \in Keys
  PROVE  /\ SetBefore(key) => mem[key] = SetValue(key)
         /\ ~Settable(job, key) => mem[key] = Given(job, key)
         /\ SdkShared /\ step = 2 => mem["namespace"] = "sdk-user-test"
  <1>1. StepType
    BY DEF ConfigInv, Types
  <1>2. pc = "run" /\ pending = <<>>
    BY <1>1, Operating
  <1>3. Running
    BY <1>2 DEF Running
  <1> QED
    BY <1>2, <1>3, LeadsDone DEF ConfigInv, ValueInv, HandoverInv

\* What is deployed for the Job is where the Job will look for it.
LEMMA MadeWhereWanted ==
  ASSUME ConfigInv, step = 1, Ready("make"), ~err, job.test # "mcad", Arg \in Needed
  PROVE  Placed(Arg) = Wanted(Arg)
  <1>1. StepType /\ job \in JobType
    BY JobsAreTyped DEF ConfigInv, Types
  <1>2. at \in 1 .. Len(Ops) /\ Ops = Prepare(job) /\ Ops[at].op = "make" /\ Ops[at].arg = Arg
        /\ Ops[at] \in PrepareOperation(job)
    BY <1>1, Operating, StepOps
  <1>3. Ops[at] = Make(Arg)
    BY <1>2 DEF PrepareOperation, Operation, Make, Do
  <1>4. "namespace" \in Keys /\ "tag" \in Keys
    BY DEF Keys
  <1>5. job.test \in {"sdk_user", "pipelines"}
    BY <1>1 DEF JobType, Tests
  <1>6. mem["namespace"] = WantedNamespace
    <2>1. CASE job.test = "sdk_user"
      <3>1. Precedes(Prepare(job), Do("set", "namespace"), Make(Arg))
        BY <1>1, <2>1, NeededIsPrepared
      <3>2. PICK k \in 1 .. at - 1 : Ops[k] = Do("set", "namespace")
        BY <1>2, <1>3, <3>1 DEF Precedes
      <3>3. SetBefore("namespace")
        BY <3>2 DEF SetBefore, Do
      <3>4. mem["namespace"] = SetValue("namespace")
        BY <1>4, <3>3, ValuesOfOperation
      <3> QED
        BY <2>1, <3>4 DEF SetValue, WantedNamespace
    <2>2. CASE job.test = "pipelines"
      <3>1. ~Settable(job, "namespace")
        BY <2>2 DEF Settable
      <3> QED
        BY <1>4, <2>2, <3>1, ValuesOfOperation DEF WantedNamespace
    <2> QED
      BY <1>5, <2>1, <2>2
  <1>7. ASSUME Arg = "image", job.test = "pipelines"
        PROVE  mem["tag"] = WantedTag
    <2>1. CASE job.pr
      <3>1. Precedes(Prepare(job), Do("set", "tag"), Make("image"))
        BY <1>1, <1>7, <2>1, NeededIsPrepared
      <3>2. PICK k \in 1 .. at - 1 : Ops[k] = Do("set", "tag")
        BY <1>2, <1>3, <1>7, <3>1 DEF Precedes
      <3>3. SetBefore("tag")
        BY <3>2 DEF SetBefore, Do
      <3>4. mem["tag"] = SetValue("tag")
        BY <1>4, <3>3, ValuesOfOperation
      <3> QED
        BY <2>1, <3>4 DEF SetValue, WantedTag
    <2>2. CASE ~job.pr
      <3>1. ~Settable(job, "tag")
        BY <2>2 DEF Settable
      <3> QED
        BY <1>4, <2>2, <3>1, ValuesOfOperation DEF WantedTag
    <2> QED
      BY <2>1, <2>2
  <1> QED
    BY <1>1, <1>6, <1>7, PlacedAsWanted

\* What changes the cluster.
LEMMA ThingActions ==
  ASSUME [Next]_vars
  PROVE  \/ MakeIt \/ ScaleUp \/ Drop \/ DropNamespace
         \/ /\ UNCHANGED things
            /\ \/ Prechecks \/ Postchecks \/ Interrupt \/ NextStep \/ InitFails \/ Load \/ SetConfig \/ WriteCopy
               \/ \E op \in Names \ {"make", "scale", "drop", "uninstall", "drop namespace"},
                     failed \in BOOLEAN : Ready(op) /\ Return(failed)
               \/ UNCHANGED <<job, step, process>>
  <1> DEFINE Others == Names \ {"make", "scale", "drop", "uninstall", "drop namespace"}
             Some == \E op \in Others, failed \in BOOLEAN : Ready(op) /\ Return(failed)
             Same == UNCHANGED <<job, step, process>>
             Control == \/ Prechecks \/ Postchecks \/ Interrupt \/ NextStep \/ InitFails \/ Load
                        \/ SetConfig \/ WriteCopy
  <1> SUFFICES MakeIt \/ ScaleUp \/ Drop \/ DropNamespace \/ (UNCHANGED things /\ (Control \/ Some \/ Same))
    OBVIOUS
  <1>1. CASE Set \/ Raise
    <2>1. FALSE \in BOOLEAN /\ TRUE \in BOOLEAN /\ "set" \in Others /\ "raise" \in Others
      BY DEF Names
    <2>2. Some /\ UNCHANGED things
      BY <1>1, <2>1 DEF Set, Raise
    <2> QED
      BY <2>2
  <1>2. CASE RunMulti \/ Plot \/ McadTests \/ DropHomes
    <2>1. "run_multi" \in Others /\ "plot" \in Others /\ "mcad tests" \in Others /\ "drop homes" \in Others
      BY DEF Names
    <2>2. Some /\ UNCHANGED things
      BY <1>2, <2>1 DEF RunMulti, Plot, McadTests, DropHomes
    <2> QED
      BY <2>2
  <1>3. CASE StartPods \/ (\E u \in Users : NewProject(u) \/ Label(u) \/ PodEnds(u)) \/ Done \/ UNCHANGED vars
    <2>1. UNCHANGED things /\ Same
      BY <1>3 DEF StartPods, NewProject, Label, PodEnds, Done, vars
    <2> QED
      BY <2>1
  <1>4. CASE Prechecks \/ Postchecks \/ Interrupt \/ NextStep \/ InitFails \/ Load \/ SetConfig \/ WriteCopy
    <2>1. UNCHANGED things
      BY <1>4 DEF Prechecks, Postchecks, Interrupt, NextStep, InitFails, Load, SetConfig, WriteCopy
    <2> QED
      BY <1>4, <2>1
  <1>5. CASE MakeIt \/ ScaleUp \/ Drop \/ DropNamespace
    BY <1>5
  <1> HIDE DEF Some, Same, Control
  <1> QED
    BY <1>1, <1>2, <1>3, <1>4, <1>5 DEF Next

\* What is there stays there.
LEMMA MadeStays ==
  ASSUME MadeInv, UNCHANGED <<job, step, things>>, ~err' => ~err /\ at' = at
  PROVE  MadeInv'
  <1>1. Ops' = Ops
    BY SameOps
  <1>2. UNCHANGED <<job, things>>
    OBVIOUS
  <1>3. \A i \in 1 .. at - 1 : MadeBy(Ops[i])' <=> MadeBy(Ops[i])
    BY <1>1, <1>2 DEF MadeBy, Wanted, WantedNamespace, WantedTag, things
  <1>4. \A i \in 1 .. Len(Prepare(job)) : MadeBy(Prepare(job)[i])' <=> MadeBy(Prepare(job)[i])
    BY <1>2 DEF MadeBy, Wanted, WantedNamespace, WantedTag, things
  <1> QED
    BY <1>1, <1>2, <1>3, <1>4 DEF MadeInv

\* The next operation of the preparation has done what it has to.
LEMMA MadeNext ==
  ASSUME StepType, MadeInv, NEW op, Ready(op), NEW failed \in BOOLEAN, Return(failed), step # 2,
         \A o \in Operation : MadeBy(o) => MadeBy(o)',
         step = 1 /\ ~err /\ ~failed /\ job.test # "mcad" => \A o \in Operation : o = Ops[at] => MadeBy(o)'
  PROVE  MadeInv'
  <1>1. /\ UNCHANGED <<job, step>> /\ Ops' = Ops
        /\ failed => err'
        /\ ~failed => err' = err /\ at' = at + 1
    BY Operated
  <1>2. at \in 1 .. Len(Ops) /\ Len(Ops) \in Nat /\ Ops \in Seq(Operation)
    BY Operating, OpsAreASequence, JobsAreTyped DEF StepType
  <1> SUFFICES ASSUME job.test # "mcad", step = 1, ~err', NEW i \in 1 .. at' - 1
               PROVE  MadeBy(Ops[i])'
    BY <1>1 DEF MadeInv
  <1>3. ~failed /\ ~err /\ at' = at + 1
    BY <1>1
  <1>4. CASE i = at
    <2>1. \A o \in Operation : o = Ops[at] => MadeBy(o)'
      BY <1>3
    <2>2. Ops[i] = Ops[at] /\ Ops[at] \in Operation
      BY <1>2, <1>4
    <2>3. \A o \in Operation : o = Ops[i] => MadeBy(o)'
      BY <2>1, <2>2
    <2> QED
      BY <1>1, <2>2, <2>3
  <1>5. CASE i # at
    <2>1. i \in 1 .. at - 1 /\ i \in 1 .. Len(Ops)
      BY <1>2, <1>3, <1>5
    <2>2. Ops[i] \in Operation /\ MadeBy(Ops[i])
      BY <1>2, <1>3, <2>1 DEF MadeInv
    <2>3. \A o \in Operation : o = Ops[i] => MadeBy(o)'
      BY <2>2
    <2> QED
      BY <1>1, <2>2, <2>3
  <1> QED
    BY <1>4, <1>5

LEMMA MadeStep ==
  ASSUME ConfigInv, MadeInv, [Next]_vars
  PROVE  MadeInv'
  <1>0. StepType /\ ThingType /\ LoadInv /\ LevelInv /\ OutcomeInv /\ job \in JobType
    BY JobsAreTyped DEF ConfigInv, Types
  <1>a. \A n : n = 2 => n # 1
    OBVIOUS
  <1>1. CASE UNCHANGED things /\ (Prechecks \/ Postchecks \/ Interrupt \/ InitFails \/ Load \/ SetConfig \/ WriteCopy)
    <2>1. UNCHANGED <<job, step>> /\ (~err' => ~err /\ at' = at)
      BY <1>1 DEF Prechecks, Postchecks, Interrupt, InitFails, Load, SetConfig, WriteCopy, process
    <2> QED
      BY <1>1, <2>1, MadeStays
  <1>2. CASE UNCHANGED things /\ UNCHANGED <<job, step, process>>
    BY <1>2, MadeStays DEF process
  <1>3. CASE UNCHANGED things /\ NextStep
    <2>1. UNCHANGED <<job, things>> /\ at' = 1 /\ step' = (IF step = 1 /\ outcome # "ok" THEN 3 ELSE step + 1)
      BY <1>3 DEF NextStep
    <2>2. step' = 2 => step = 1 /\ outcome = "ok"
      BY <1>0, <2>1, StepOps
    <2>3. step' # 1
      BY <1>0, <2>1, StepOps
    <2>4. ASSUME step' = 2, job.test # "mcad", NEW i \in 1 .. Len(Prepare(job))
          PROVE  MadeBy(Prepare(job)[i])'
      <3>1. step = 1 /\ ~err /\ at = Len(Ops) + 1 /\ Ops = Prepare(job) /\ Len(Ops) \in Nat
        BY <1>0, <2>2, <2>4, StepOps, OpsAreASequence DEF OutcomeInv, StepType
      <3>2. MadeBy(Prepare(job)[i])
        BY <2>4, <3>1 DEF MadeInv
      <3> QED
        BY <2>1, <3>2 DEF MadeBy, Wanted, WantedNamespace, WantedTag, things
    <2> QED
      BY <2>1, <2>3, <2>4 DEF MadeInv
  <1>4. ASSUME UNCHANGED things,
               NEW op \in Names \ {"make", "scale", "drop", "uninstall", "drop namespace"},
               NEW failed \in BOOLEAN, Ready(op), Return(failed)
        PROVE  MadeInv'
    <2>1. UNCHANGED <<job, step>> /\ Ops' = Ops
      BY <1>0, <1>4, Operated
    <2>2. CASE step = 2
      <3>1. \A i \in 1 .. Len(Prepare(job)) : MadeBy(Prepare(job)[i]) => MadeBy(Prepare(job)[i])'
        BY <1>4, <2>1 DEF MadeBy, Wanted, WantedNamespace, WantedTag, things
      <3>2. job' = job /\ step' = 2
        <4>1. job' = job /\ step' = step
          BY <2>1
        <4> QED
          BY <2>2, <4>1
      <3>3. job.test # "mcad" => \A i \in 1 .. Len(Prepare(job)) : MadeBy(Prepare(job)[i])
        BY <2>2 DEF MadeInv
      <3>4. step' # 1
        BY <1>a, <3>2
      <3> QED
        BY <3>1, <3>2, <3>3, <3>4 DEF MadeInv
    <2>3. CASE step # 2
      <3>1. \A o \in Operation : MadeBy(o) => MadeBy(o)'
        BY <1>4, <2>1 DEF MadeBy, Wanted, WantedNamespace, WantedTag, things
      <3>2. Ops[at].op = op
        BY <1>0, <1>4, Operating
      <3>3. \A o \in Operation : o = Ops[at] => MadeBy(o)'
        BY <1>4, <3>2 DEF MadeBy
      <3> QED
        BY <1>0, <1>4, <2>3, <3>1, <3>3, MadeNext
    <2> QED
      BY <2>2, <2>3
  <1>5. CASE MakeIt
    <2>1. PICK failed \in BOOLEAN :
            /\ Return(failed)
            /\ cluster \subseteq cluster'
            /\ ~failed => cluster' = cluster \cup {Placed(Arg)}
      BY <1>5 DEF MakeIt
    <2>2. Ready("make") /\ nodes' = nodes
      BY <1>5 DEF MakeIt
    <2>3. UNCHANGED <<job, step>> /\ Ops[at].op = "make" /\ Ops[at].arg = Arg
          /\ (step = 2 => Ops[at] \in TestOperation(job))
      BY <1>0, <2>1, <2>2, Operated, Operating
    <2>4. step # 2
      BY <2>3 DEF TestOperation
    <2>5. \A o \in Operation : MadeBy(o) => MadeBy(o)'
      BY <2>1, <2>2, <2>3 DEF MadeBy, Wanted, WantedNamespace, WantedTag
    <2>6. ASSUME step = 1, ~err, ~failed, job.test # "mcad"
          PROVE  \A o \in Operation : o = Ops[at] => MadeBy(o)'
      <3>1. Arg \in Needed => Wanted(Arg) \in cluster'
        BY <2>1, <2>2, <2>6, MadeWhereWanted
      <3>2. \A what : Wanted(what)' = Wanted(what)
        BY <2>3 DEF Wanted, WantedNamespace, WantedTag
      <3>3. \A o \in Operation : o = Ops[at] => o.op = "make" /\ o.arg = Arg
        BY <2>3
      <3> QED
        BY <3>1, <3>2, <3>3 DEF MadeBy
    <2> QED
      BY <1>0, <2>1, <2>2, <2>4, <2>5, <2>6, MadeNext
  <1>6. CASE ScaleUp
    <2>1. PICK failed \in BOOLEAN :
            /\ Return(failed)
            /\ \/ \E count \in NodeRequirement(job, Arg) : nodes' = [nodes EXCEPT ![Arg] = count]
               \/ failed /\ nodes' = nodes
      BY <1>6 DEF ScaleUp
    <2>2. Ready("scale") /\ cluster' = cluster
      BY <1>6 DEF ScaleUp
    <2>3. UNCHANGED <<job, step>> /\ Ops[at].op = "scale" /\ Ops[at].arg = Arg
          /\ (step = 2 => Ops[at] \in TestOperation(job))
      BY <1>0, <2>1, <2>2, Operated, Operating
    <2>4. step # 2
      BY <2>3 DEF TestOperation
    <2>5. Arg \in Roles /\ nodes \in [Roles -> Nat]
      BY <1>0, <2>2, ScaledForARole DEF ThingType
    <2>6. /\ \A role \in Roles : nodes'[role] = nodes[role] \/ nodes'[role] \in NodeRequirement(job, role)
          /\ ~failed => nodes'[Arg] \in NodeRequirement(job, Arg)
      <3>1. ASSUME NEW count \in NodeRequirement(job, Arg), nodes' = [nodes EXCEPT ![Arg] = count]
            PROVE  /\ nodes'[Arg] \in NodeRequirement(job, Arg)
                   /\ \A role \in Roles : nodes'[role] = nodes[role] \/ nodes'[role] \in NodeRequirement(job, role)
        BY <2>5, <3>1
      <3> QED
        BY <2>1, <3>1
    <2>7. \A role \in Roles :
            nodes[role] \in NodeRequirement(job, role) => nodes'[role] \in NodeRequirement(job, role)
      BY <2>6
    <2>8. \A o \in Operation : o.op = "scale" => o.arg \in Roles
      BY DEF Operation
    <2>9. \A o \in Operation : MadeBy(o) => MadeBy(o)'
      BY <2>2, <2>3, <2>7, <2>8 DEF MadeBy, Wanted, WantedNamespace, WantedTag
    <2>10. ASSUME ~failed
           PROVE  \A o \in Operation : o = Ops[at] => MadeBy(o)'
      <3>1. \A o \in Operation : o = Ops[at] => o.op = "scale" /\ o.arg = Arg
        BY <2>3
      <3> QED
        BY <2>3, <2>6, <2>10, <3>1 DEF MadeBy
    <2> QED
      BY <1>0, <2>1, <2>2, <2>4, <2>9, <2>10, MadeNext
  <1>7. CASE Drop
    <2>1. PICK failed \in BOOLEAN : Return(failed) /\ cluster' \in {cluster \ {Placed(Arg)}, cluster}
      BY <1>7 DEF Drop
    <2>2. PICK op \in {"drop", "uninstall"} : Ready(op)
      BY <1>7 DEF Drop
    <2>3. nodes' = nodes
      BY <1>7 DEF Drop
    <2>4. UNCHANGED <<job, step>> /\ Ops[at].op = op /\ Ops[at].arg = Arg
          /\ (step = 1 => Ops[at] \in PrepareOperation(job))
          /\ (step = 2 => Ops[at] \in TestOperation(job))
      BY <1>0, <2>1, <2>2, Operated, Operating
    <2>5. step # 1
      BY <2>2, <2>4 DEF PrepareOperation
    <2>6. ASSUME step = 2
          PROVE  \A what \in Needed : Wanted(what) \in cluster => Wanted(what) \in cluster'
      <3>1. Arg \in {"kfdefs", "operators"}
        BY <2>2, <2>4, <2>6 DEF TestOperation
      <3>2. Placed(Arg) = <<Arg, "-", "-">>
        BY <3>1 DEF Placed
      <3>3. \A what \in Needed : Wanted(what)[1] = what /\ what # Arg
        BY <3>1 DEF Wanted, Needed
      <3>4. Placed(Arg)[1] = Arg
        BY <3>2
      <3>5. \A what \in Needed : Wanted(what) # Placed(Arg)
        BY <3>3, <3>4
      <3> QED
        BY <2>1, <3>5
    <2>7. ASSUME step = 2
          PROVE  \A i \in 1 .. Len(Prepare(job)) : MadeBy(Prepare(job)[i]) => MadeBy(Prepare(job)[i])'
      <3>1. \A what : Wanted(what)' = Wanted(what)
        BY <2>4 DEF Wanted, WantedNamespace, WantedTag
      <3> QED
        BY <2>3, <2>4, <2>6, <2>7, <3>1 DEF MadeBy
    <2> QED
      BY <2>4, <2>5, <2>7 DEF MadeInv
  <1>8. CASE DropNamespace
    <2>1. PICK failed \in BOOLEAN : Return(failed)
      BY <1>8 DEF DropNamespace
    <2>2. Ready("drop namespace")
      BY <1>8 DEF DropNamespace
    <2>3. UNCHANGED <<job, step>> /\ Ops[at].op = "drop namespace"
          /\ (step = 1 => Ops[at] \in PrepareOperation(job))
          /\ (step = 2 => Ops[at] \in TestOperation(job))
      BY <1>0, <2>1, <2>2, Operated, Operating
    <2>4. step # 1 /\ step # 2
      BY <2>3 DEF PrepareOperation, TestOperation
    <2> QED
      BY <2>3, <2>4 DEF MadeInv
  <1> QED
    BY <1>1, <1>2, <1>3, <1>4, <1>5, <1>6, <1>7, <1>8, ThingActions

LEMMA ReadyFollows == ConfigInv /\ MadeInv => TestIsReady
  <1> SUFFICES ASSUME ConfigInv, MadeInv, Ready("run_multi"),
                      job.test = "sdk_user" => job.shared /\ "namespace" \notin {job.override, job.preset}
               PROVE  /\ {Placed(r) : r \in Needed} \subseteq cluster
                      /\ \A role \in Roles :
                           IF job.test = "pipelines" /\ role \in job.unsized
                           THEN nodes[role] \in SizingErrors
                           ELSE job.test = "sdk_user" \/ MachineCount(job, role) < 256 =>
                                  /\ nodes[role] * NodeCpu >= job.users * PodSize(job, role).cpu
                                  /\ nodes[role] * NodeMemory >= job.users * PodSize(job, role).memory
                                  /\ nodes[role] * MaxPodPerNode >= job.users
    BY DEF TestIsReady, Needed
  <1>1. StepType /\ LevelInv /\ job \in JobType
    BY JobsAreTyped DEF ConfigInv, Types
  <1>2. at \in 1 .. Len(Ops) /\ Ops[at].op = "run_multi" /\ step \in {1, 2, 3}
        /\ (step = 1 => Ops[at] \in PrepareOperation(job)) /\ (step = 3 => Ops[at] \in CleanupOperation)
    BY <1>1, Operating, StepOps
  <1>3. step = 2
    BY <1>2 DEF PrepareOperation, CleanupOperation
  <1>4. Ops = Test(job)
    BY <1>1, <1>3, StepOps
  <1>5. at = RunAt(job) /\ job.test # "mcad" /\ (job.pr => Ops[1] = Do("set", "tag"))
    BY <1>1, <1>2, <1>4, RunIsAt
  <1>6. ~err
    <2>1. Firm = at /\ at \in Int
      BY <1>2, <1>3, <1>5 DEF Firm
    <2> QED
      BY <1>1, <2>1 DEF LevelInv
  <1>7. job.test \in {"sdk_user", "pipelines"} /\ "namespace" \in Keys /\ "tag" \in Keys
    BY <1>1, <1>5 DEF JobType, Tests, Keys
  <1>8. mem["namespace"] = WantedNamespace
    <2>1. CASE job.test = "sdk_user"
      <3>1. SdkShared
        BY <2>1 DEF SdkShared, Layered
      <3> QED
        BY <1>3, <1>6, <1>7, <2>1, <3>1, ValuesOfOperation DEF WantedNamespace
    <2>2. CASE job.test = "pipelines"
      <3>1. ~Settable(job, "namespace")
        BY <2>2 DEF Settable
      <3> QED
        BY <1>6, <1>7, <2>2, <3>1, ValuesOfOperation DEF WantedNamespace
    <2> QED
      BY <1>7, <2>1, <2>2
  <1>9. mem["tag"] = WantedTag
    <2>1. CASE job.pr
      <3>1. RunAt(job) = 2
        BY <1>5, <2>1 DEF RunAt
      <3>2. 1 \in 1 .. at - 1 /\ Ops[1].op = "set" /\ Ops[1].arg = "tag"
        BY <1>5, <2>1, <3>1 DEF Do
      <3>3. SetBefore("tag")
        BY <3>2 DEF SetBefore
      <3>4. mem["tag"] = SetValue("tag")
        BY <1>6, <1>7, <3>3, ValuesOfOperation
      <3> QED
        BY <2>1, <3>4 DEF SetValue, WantedTag
    <2>2. CASE ~job.pr
      <3>1. ~Settable(job, "tag")
        BY <2>2 DEF Settable
      <3> QED
        BY <1>6, <1>7, <2>2, <3>1, ValuesOfOperation DEF WantedTag
    <2> QED
      BY <2>1, <2>2
  <1>10. \A i \in 1 .. Len(Prepare(job)) : MadeBy(Prepare(job)[i])
    BY <1>3, <1>5 DEF MadeInv
  <1>11. ASSUME NEW what \in Needed
         PROVE  Placed(what) \in cluster
    <2>1. Has(Prepare(job), Make(what))
      BY <1>1, <1>5, NeededIsPrepared
    <2>2. MadeBy(Make(what))
      BY <1>10, <2>1 DEF Has
    <2>3. Make(what).op = "make" /\ Make(what).arg = what
      BY DEF Make, Do
    <2>4. Wanted(what) \in cluster
      BY <2>2, <2>3 DEF MadeBy
    <2> QED
      BY <1>1, <1>5, <1>8, <1>9, <2>4, PlacedAsWanted
  <1>12. ASSUME NEW role \in Roles
         PROVE  nodes[role] \in NodeRequirement(job, role)
    <2>1. Has(Prepare(job), Do("scale", role))
      BY <1>1, <1>5, NeededIsPrepared
    <2>2. MadeBy(Do("scale", role))
      BY <1>10, <2>1 DEF Has
    <2>3. Do("scale", role).op = "scale" /\ Do("scale", role).arg = role
      BY DEF Do
    <2> QED
      BY <2>2, <2>3 DEF MadeBy
  <1>13. ASSUME NEW role \in Roles, job.test = "pipelines", role \in job.unsized
         PROVE  nodes[role] \in SizingErrors
    BY <1>1, <1>12, <1>13, NodesAreCounted
  <1>14. ASSUME NEW role \in Roles, ~(job.test = "pipelines" /\ role \in job.unsized),
                job.test = "sdk_user" \/ MachineCount(job, role) < 256
         PROVE  /\ nodes[role] * NodeCpu >= job.users * PodSize(job, role).cpu
                /\ nodes[role] * NodeMemory >= job.users * PodSize(job, role).memory
                /\ nodes[role] * MaxPodPerNode >= job.users
    <2>1. nodes[role] = MachineCount(job, role)
      <3>1. CASE job.test = "sdk_user"
        BY <1>1, <1>12, <3>1, NodesAreCounted
      <3>2. CASE job.test # "sdk_user"
        BY <1>1, <1>7, <1>12, <1>14, <3>2, NodesAreCounted
      <3> QED
        BY <3>1, <3>2
    <2> QED
      BY <1>1, <2>1, SizeIsEnough
  <1> QED
    BY <1>11, <1>13, <1>14

\* A test starts its Job with what its Pods need: deployed by another step, in the namespace and with
\* the image that it has in its own configuration, on nodes for all the Pods.
THEOREM TestsAreReady == Spec => []TestIsReady
  <1> DEFINE Inv == ConfigInv /\ MadeInv
  <1>1. Init => Inv
    <2>1. Init => MadeInv
      BY DEF Init, MadeInv
    <2> QED
      BY <2>1, ConfigInit
  <1>2. Inv /\ [Next]_vars => Inv'
    BY ConfigStep, MadeStep
  <1>3. Inv => TestIsReady
    BY ReadyFollows
  <1> QED
    BY <1>1, <1>2, <1>3, PTL DEF Spec

-----------------------------------------------------------------------------
(* What a clean-up leaves. *)

LEMMA JobStays == [Next]_vars => job' = job
  <1> SUFFICES ASSUME [Next]_vars
               PROVE  job' = job
    OBVIOUS
  <1>1. CASE Prechecks \/ Postchecks \/ Interrupt \/ NextStep \/ InitFails \/ Load \/ SetConfig \/ WriteCopy
    BY <1>1 DEF Prechecks, Postchecks, Interrupt, NextStep, InitFails, Load, SetConfig, WriteCopy
  <1>2. ASSUME NEW op \in Names, NEW failed \in BOOLEAN, Operates(op, failed)
        PROVE  job' = job
    BY <1>2 DEF Operates, Return
  <1> QED
    BY <1>1, <1>2, Actions

\* What the preparation of the pipelines test may have left, with the other steps.
Deployable ==
  {Wanted(what) : what \in Needed} \cup {<<what, "-", "-">> : what \in Installed \cup BrewAccess}
ClusterInv == job.test = "pipelines" => cluster \subseteq Deployable

LEMMA ClusterStep ==
  ASSUME ConfigInv, ClusterInv, [Next]_vars
  PROVE  ClusterInv'
  <1>1. StepType /\ LevelInv /\ job' = job
    BY JobStays DEF ConfigInv, Types
  <1>2. Deployable' = Deployable
    BY <1>1 DEF Deployable, Wanted, WantedNamespace, WantedTag
  <1>3. CASE MakeIt
    <2> SUFFICES ASSUME job.test = "pipelines"
                 PROVE  cluster' \subseteq Deployable
      BY <1>1, <1>2 DEF ClusterInv
    <2>1. Ready("make") /\ cluster' \subseteq cluster \cup {Placed(Arg)}
      BY <1>3 DEF MakeIt
    <2>2. at \in 1 .. Len(Ops) /\ Len(Ops) \in Nat /\ Ops[at].op = "make" /\ Ops[at].arg = Arg
          /\ (step = 1 => Ops[at] \in PrepareOperation(job))
          /\ (step = 2 => Ops[at] \in TestOperation(job))
          /\ (step = 3 => Ops[at] \in CleanupOperation)
      BY <1>1, <2>1, Operating
    <2>3. step = 1
      BY <1>1, <2>2, StepOps DEF TestOperation, CleanupOperation
    <2>4. Arg \in Needed \cup Installed \cup BrewAccess
      BY <2>2, <2>3 DEF PrepareOperation
    <2>5. ~err
      <3>1. Firm = Len(Ops)
        BY <2>3 DEF Firm
      <3> QED
        BY <1>1, <2>2, <3>1 DEF LevelInv
    <2>6. CASE Arg \in Needed
      BY <2>1, <2>3, <2>5, <2>6, MadeWhereWanted DEF ClusterInv, Deployable
    <2>7. CASE Arg \in Installed \cup BrewAccess
      <3>1. Placed(Arg) = <<Arg, "-", "-">>
        BY <2>7 DEF Placed, Installed, BrewAccess
      <3> QED
        BY <2>1, <2>7, <3>1 DEF ClusterInv, Deployable
    <2> QED
      BY <2>4, <2>6, <2>7
  <1>4. CASE ScaleUp \/ Drop \/ DropNamespace \/ UNCHANGED things
    <2>1. cluster' \subseteq cluster
      BY <1>4 DEF ScaleUp, Drop, DropNamespace, things
    <2> QED
      BY <1>1, <1>2, <2>1 DEF ClusterInv
  <1> QED
    BY <1>3, <1>4, ThingActions

\* The Pods run where the Job was started, and each has the namespace of its user as far as it got.
HomeOf(u) ==
  /\ pod[u] \in {"none", "running"} => home[u] = "none"
  /\ pod[u] = "creating" => home[u] = "bare"
  /\ pod[u] \in {"testing", "done"} => home[u] \in {"labelled", "none"}
PodInv ==
  job.test = "pipelines" =>
    /\ jobIn = "none" => \A u \in Users : pod[u] = "none"
    /\ jobIn # "none" => step # 1 /\ jobIn = WantedNamespace
    /\ \A u \in Users : HomeOf(u)

\* The test starts the Job in the namespace of the preparation.
LEMMA StartedWhereWanted ==
  ASSUME ConfigInv, Ready("run_multi"), job.test = "pipelines"
  PROVE  step = 2 /\ mem["namespace"] = WantedNamespace /\ mem["namespace"] \in Values
  <1>1. StepType /\ ConfigType /\ LevelInv /\ job \in JobType
    BY JobsAreTyped DEF ConfigInv, Types
  <1>2. at \in 1 .. Len(Ops) /\ Ops[at].op = "run_multi" /\ step \in {1, 2, 3} /\ pc = "run"
        /\ (step = 1 => Ops[at] \in PrepareOperation(job)) /\ (step = 3 => Ops[at] \in CleanupOperation)
        /\ at \in DOMAIN Ops
    BY <1>1, Operating, StepOps DEF Ready
  <1>3. step = 2
    BY <1>2 DEF PrepareOperation, CleanupOperation
  <1>4. at = RunAt(job)
    BY <1>1, <1>2, <1>3, StepOps, RunIsAt
  <1>5. ~err
    <2>1. Firm = at /\ at \in Int
      BY <1>2, <1>3, <1>4 DEF Firm
    <2> QED
      BY <1>1, <2>1 DEF LevelInv
  <1>6. mem["namespace"] = WantedNamespace
    <2>1. ~Settable(job, "namespace") /\ "namespace" \in Keys
      BY DEF Settable, Keys
    <2> QED
      BY <1>5, <2>1, ValuesOfOperation DEF WantedNamespace
  <1>7. mem \in [Keys -> Values]
    BY <1>1, <1>2 DEF ConfigType
  <1> QED
    BY <1>3, <1>6, <1>7 DEF Keys

LEMMA PodsStay ==
  ASSUME PodInv, UNCHANGED <<job, step, pods>>
  PROVE  PodInv'
  <1>1. UNCHANGED <<pod, home, jobIn>> /\ WantedNamespace' = WantedNamespace
    BY DEF pods, WantedNamespace
  <1> QED
    BY <1>1 DEF PodInv, HomeOf

\* What changes the Pods.
LEMMA PodActions ==
  ASSUME [Next]_vars
  PROVE  \/ NextStep \/ StartPods \/ DropHomes \/ DropNamespace
         \/ \E u \in Users : NewProject(u) \/ Label(u) \/ PodEnds(u)
         \/ UNCHANGED <<job, step, pods>>
  <1>1. CASE Prechecks \/ Postchecks \/ Interrupt \/ InitFails \/ Load \/ SetConfig \/ WriteCopy
    BY <1>1 DEF Prechecks, Postchecks, Interrupt, InitFails, Load, SetConfig, WriteCopy
  <1>2. CASE Set \/ MakeIt \/ ScaleUp \/ Drop \/ Raise
    BY <1>2 DEF Set, MakeIt, ScaleUp, Drop, Raise, Return
  <1>3. CASE RunMulti \/ Plot \/ McadTests
    BY <1>3 DEF RunMulti, Plot, McadTests, Return
  <1>4. CASE Done \/ UNCHANGED vars
    BY <1>4 DEF Done, vars
  <1> QED
    BY <1>1, <1>2, <1>3, <1>4 DEF Next

LEMMA PodStep ==
  ASSUME ConfigInv, PodInv, [Next]_vars
  PROVE  PodInv'
  <1>1. StepType /\ PodType /\ job' = job /\ WantedNamespace' = WantedNamespace
    <2>1. job' = job
      BY JobStays
    <2> QED
      BY <2>1 DEF ConfigInv, Types, WantedNamespace
  <1> SUFFICES ASSUME job.test = "pipelines"
               PROVE  PodInv'
    BY <1>1 DEF PodInv
  <1>2. /\ jobIn = "none" => \A u \in Users : pod[u] = "none"
        /\ jobIn # "none" => step # 1 /\ jobIn = WantedNamespace
        /\ \A u \in Users : HomeOf(u)
    BY DEF PodInv
  <1> DEFINE PodStates == {"none", "running", "creating", "testing", "done", "killed"}
  <1>3. pod \in [Users -> PodStates] /\ home \in [Users -> {"none", "bare", "labelled"}]
    BY <1>1 DEF PodType
  \* It is enough to look at each user.
  <1>4. ASSUME step' = step, jobIn' = jobIn, jobIn = "none" => \A u \in Users : pod'[u] = "none",
               \A u \in Users : HomeOf(u)'
        PROVE  PodInv'
    BY <1>1, <1>2, <1>4 DEF PodInv
  <1>5. CASE NextStep
    <2>1. step' # 1 /\ UNCHANGED <<pod, home, jobIn>>
      BY <1>1, <1>5, StepOps DEF NextStep, pods
    <2> QED
      BY <1>1, <1>2, <2>1 DEF PodInv, HomeOf
  <1>6. CASE StartPods
    <2>1. Ready("run_multi") /\ jobIn = "none" /\ jobIn' = mem["namespace"]
          /\ pod' = [u \in Users |-> "running"] /\ UNCHANGED <<step, home>>
      BY <1>6 DEF StartPods
    <2>2. step = 2 /\ jobIn' = WantedNamespace /\ jobIn' # "none"
      <3>1. "none" \notin Values
        BY DEF Values
      <3> QED
        BY <2>1, <3>1, StartedWhereWanted
    <2>3. \A u \in Users : HomeOf(u)'
      BY <1>2, <2>1 DEF HomeOf
    <2>4. step' # 1
      BY <2>1, <2>2
    <2> QED
      BY <1>1, <2>2, <2>3, <2>4 DEF PodInv
  <1>7. CASE DropHomes
    <2>1. UNCHANGED <<step, pod, jobIn>>
          /\ home' \in {[u \in Users |-> IF home[u] = "labelled" THEN "none" ELSE home[u]], home}
      BY <1>7 DEF DropHomes, Return
    <2>2. \A u \in Users : home'[u] = home[u] \/ (home[u] = "labelled" /\ home'[u] = "none")
      BY <2>1
    <2>3. \A u \in Users : HomeOf(u)'
      BY <1>2, <2>1, <2>2 DEF HomeOf
    <2> QED
      BY <1>2, <1>4, <2>1, <2>3
  <1>8. CASE DropNamespace
    <2>1. UNCHANGED <<step, home, jobIn>>
          /\ pod' \in {[u \in Users |-> IF u \in Active /\ jobIn = mem["namespace"] THEN "killed" ELSE pod[u]],
                       pod}
      BY <1>8 DEF DropNamespace, Return
    <2>2. \A u \in Users : pod'[u] = pod[u] \/ (pod[u] # "none" /\ pod'[u] = "killed")
      BY <2>1 DEF Active
    <2>3. \A u \in Users : HomeOf(u)'
      BY <1>2, <2>1, <2>2 DEF HomeOf
    <2> QED
      BY <1>2, <1>4, <2>1, <2>2, <2>3
  <1>9. ASSUME NEW u \in Users, NewProject(u) \/ Label(u) \/ PodEnds(u)
        PROVE  PodInv'
    <2>1. UNCHANGED <<step, jobIn>> /\ pod[u] # "none"
      BY <1>9 DEF NewProject, Label, PodEnds, Active
    <2>2. ASSUME NEW v \in Users
          PROVE  HomeOf(v)'
      <3>1. CASE NewProject(u)
        <4>1. pod' = [pod EXCEPT ![u] = "creating"] /\ home' = [home EXCEPT ![u] = "bare"]
          BY <3>1 DEF NewProject
        <4>2. v # u => pod'[v] = pod[v] /\ home'[v] = home[v]
          BY <1>3, <4>1
        <4>3. pod'[u] = "creating" /\ home'[u] = "bare"
          BY <1>3, <4>1
        <4> QED
          BY <1>2, <4>2, <4>3 DEF HomeOf
      <3>2. CASE Label(u)
        <4>1. pod[u] = "creating" /\ pod' = [pod EXCEPT ![u] = "testing"]
              /\ home' = [home EXCEPT ![u] =
                            IF job.test = "pipelines" /\ home[u] = "bare" THEN "labelled" ELSE home[u]]
          BY <3>2 DEF Label
        <4>2. v # u => pod'[v] = pod[v] /\ home'[v] = home[v]
          BY <1>3, <4>1
        <4>3. home[u] = "bare"
          BY <1>2, <4>1 DEF HomeOf
        <4>4. pod'[u] = "testing" /\ home'[u] = "labelled"
          BY <1>3, <4>1, <4>3
        <4> QED
          BY <1>2, <4>2, <4>4 DEF HomeOf
      <3>3. CASE PodEnds(u)
        <4>1. pod' = [pod EXCEPT ![u] = IF pod[u] = "testing" THEN "done" ELSE "killed"] /\ home' = home
          BY <3>3 DEF PodEnds
        <4>2. v # u => pod'[v] = pod[v]
          BY <1>3, <4>1
        <4>3. pod'[u] = IF pod[u] = "testing" THEN "done" ELSE "killed"
          BY <1>3, <4>1
        <4> QED
          BY <1>2, <4>1, <4>2, <4>3 DEF HomeOf
      <3> QED
        BY <1>9, <3>1, <3>2, <3>3
    <2> QED
      BY <1>2, <1>4, <2>1, <2>2
  <1>10. CASE UNCHANGED <<job, step, pods>>
    BY <1>10, PodsStay
  <1> QED
    BY <1>5, <1>6, <1>7, <1>8, <1>9, <1>10, PodActions

\* The namespaces of the users are gone, but those that the Pods make later or leave unlabelled.
HomesGone ==
  /\ Active \subseteq outlived
  /\ \A u \in Users : home[u] # "none" => u \in outlived \/ (home[u] = "bare" /\ pod[u] = "killed")
\* What an operation of the clean-up removes is not there.
GoneBy(o) ==
  /\ o.op \in {"drop", "uninstall"} /\ o.arg \in Installed => <<o.arg, "-", "-">> \notin cluster
  /\ o.op = "drop homes" => HomesGone
  /\ o.op = "drop namespace" => Active = {} /\ \A r \in cluster : r[2] # WantedNamespace \/ r[1] \in ClusterScoped
GoneInv ==
  job.test = "pipelines" /\ step = 3 /\ ~err => \A i \in 1 .. at - 1 : GoneBy(Ops[i])

\* Nothing comes back.
LEMMA GoneStays ==
  ASSUME job' = job, cluster' \subseteq cluster, Active' \subseteq Active, HomesGone => HomesGone',
         NEW o, GoneBy(o)
  PROVE  GoneBy(o)'
  <1>1. WantedNamespace' = WantedNamespace
    BY DEF WantedNamespace
  <1>2. o.op \in {"drop", "uninstall"} /\ o.arg \in Installed => <<o.arg, "-", "-">> \notin cluster'
    BY DEF GoneBy
  <1>3. o.op = "drop homes" => HomesGone'
    BY DEF GoneBy
  <1>4. o.op = "drop namespace" =>
          Active' = {} /\ \A r \in cluster' : r[2] # WantedNamespace \/ r[1] \in ClusterScoped
    BY DEF GoneBy
  <1> QED
    BY <1>1, <1>2, <1>3, <1>4 DEF GoneBy

LEMMA SameHomesGone ==
  ASSUME Active' \subseteq Active, UNCHANGED <<home, outlived>>,
         \A u \in Users : pod'[u] = pod[u] \/ (pod[u] # "killed" /\ pod'[u] = "killed"), HomesGone
  PROVE  HomesGone'
  BY DEF HomesGone

\* The clean-up goes on, past the operations after which all is gone.
LEMMA GoneNext ==
  ASSUME StepType, GoneInv, UNCHANGED <<job, step>>,
         job.test = "pipelines" /\ step = 3 /\ ~err' =>
           /\ ~err
           /\ cluster' \subseteq cluster /\ Active' \subseteq Active /\ (HomesGone => HomesGone')
           /\ \/ at' = at
              \/ at' = at + 1 /\ (\A o : o = Ops[at] => GoneBy(o)')
  PROVE  GoneInv'
  <1>1. Ops' = Ops
    BY SameOps
  <1> SUFFICES ASSUME job.test = "pipelines", step = 3, ~err', NEW i \in 1 .. at' - 1
               PROVE  \A o : o = Ops[i] => GoneBy(o)'
    BY <1>1 DEF GoneInv
  <1>2. at \in Int
    BY JobsAreTyped, OpsAreASequence DEF StepType
  <1>3. CASE i \in 1 .. at - 1
    <2>1. GoneBy(Ops[i])
      BY <1>3 DEF GoneInv
    <2> QED
      BY <2>1, GoneStays
  <1>4. CASE i \notin 1 .. at - 1
    <2>1. at' = at + 1 /\ i = at
      BY <1>2, <1>4
    <2> QED
      BY <1>2, <2>1
  <1> QED
    BY <1>3, <1>4

\* Of the operations, a clean-up only has those that remove something.
LEMMA CleanupOnlyRemoves ==
  ASSUME StepType, step = 3, NEW op, Ready(op)
  PROVE  op \in {"drop homes", "uninstall", "drop", "drop namespace", "raise"}
  BY Operating DEF CleanupOperation

LEMMA DropGone ==
  ASSUME ConfigInv, GoneInv, Drop
  PROVE  GoneInv'
  <1>1. StepType
    BY DEF ConfigInv, Types
  <1>2. PICK failed \in BOOLEAN :
          /\ Return(failed)
          /\ cluster' \in {cluster \ {Placed(Arg)}} \cup IF failed THEN {cluster} ELSE {}
    BY DEF Drop
  <1>3. PICK op \in {"drop", "uninstall"} : Ready(op)
    BY DEF Drop
  <1>4. UNCHANGED <<pod, home, outlived>>
    BY DEF Drop, pods
  <1>5. UNCHANGED <<job, step>> /\ Ops[at].op = op /\ Ops[at].arg = Arg
        /\ (failed => err') /\ (~failed => err' = err /\ at' = at + 1)
    BY <1>1, <1>2, <1>3, Operated, Operating
  <1>6. cluster' \subseteq cluster /\ (~failed => cluster' = cluster \ {Placed(Arg)})
    BY <1>2
  <1>7. Active' = Active /\ (HomesGone => HomesGone')
    BY <1>4 DEF Active, HomesGone
  <1>8. ASSUME ~failed, NEW o, o = Ops[at]
        PROVE  GoneBy(o)'
    <2>1. o.op \notin {"drop homes", "drop namespace"} /\ o.arg = Arg
      BY <1>3, <1>5, <1>8
    <2>2. Arg \in Installed => Placed(Arg) = <<Arg, "-", "-">>
      BY DEF Placed, Installed
    <2> QED
      BY <1>6, <1>8, <2>1, <2>2 DEF GoneBy
  <1> QED
    BY <1>1, <1>5, <1>6, <1>7, <1>8, GoneNext

LEMMA DropHomesGone ==
  ASSUME ConfigInv, PodInv, GoneInv, DropHomes
  PROVE  GoneInv'
  <1>1. StepType /\ PodType
    BY DEF ConfigInv, Types
  <1> DEFINE unlabelled == [u \in Users |-> IF home[u] = "labelled" THEN "none" ELSE home[u]]
  <1>2. PICK failed \in BOOLEAN : Return(failed) /\ (~failed => home' = unlabelled)
    BY DEF DropHomes
  <1>3. Ready("drop homes") /\ outlived' = Active /\ UNCHANGED <<cluster, pod>>
    BY DEF DropHomes, things
  <1>4. UNCHANGED <<job, step>> /\ Ops[at].op = "drop homes"
        /\ (failed => err') /\ (~failed => err' = err /\ at' = at + 1)
    BY <1>1, <1>2, <1>3, Operated, Operating
  <1>5. Active' = Active
    BY <1>3 DEF Active
  <1>6. ASSUME ~failed, job.test = "pipelines"
        PROVE  HomesGone'
    <2>1. ASSUME NEW u \in Users, home'[u] # "none", u \notin Active
          PROVE  home'[u] = "bare" /\ pod'[u] = "killed"
      <3>1. home[u] = "bare" /\ home'[u] = "bare"
        BY <1>1, <1>2, <1>6, <2>1 DEF PodType
      <3>2. HomeOf(u)
        BY <1>6 DEF PodInv
      <3>3. pod[u] = "killed"
        BY <1>1, <2>1, <3>1, <3>2 DEF HomeOf, PodType, Active
      <3> QED
        BY <1>3, <3>1, <3>3
    <2> QED
      BY <1>3, <1>5, <2>1 DEF HomesGone
  <1>7. ASSUME ~failed, job.test = "pipelines", NEW o, o = Ops[at]
        PROVE  GoneBy(o)'
    BY <1>4, <1>6, <1>7 DEF GoneBy
  <1>8. ASSUME job.test = "pipelines", ~err'
        PROVE  ~err /\ HomesGone' /\ at' = at + 1 /\ \A o : o = Ops[at] => GoneBy(o)'
    <2>1. ~failed
      BY <1>4, <1>8
    <2>2. err' = err /\ at' = at + 1
      BY <1>4, <2>1
    <2>3. ~err
      BY <1>8, <2>2
    <2>4. HomesGone' /\ \A o : o = Ops[at] => GoneBy(o)'
      BY <1>6, <1>7, <1>8, <2>1
    <2> QED
      BY <2>2, <2>3, <2>4
  <1> QED
    BY <1>1, <1>3, <1>4, <1>5, <1>8, GoneNext

LEMMA DropNamespaceGone ==
  ASSUME ConfigInv, PodInv, GoneInv, DropNamespace
  PROVE  GoneInv'
  <1>1. StepType /\ PodType
    BY DEF ConfigInv, Types
  <1> DEFINE kept == {r \in cluster : r[2] # mem["namespace"] \/ r[1] \in ClusterScoped}
             killed == [u \in Users |-> IF u \in Active /\ jobIn = mem["namespace"] THEN "killed" ELSE pod[u]]
  <1>2. PICK failed \in BOOLEAN :
          Return(failed) /\ ((cluster' = kept /\ pod' = killed) \/ (failed /\ UNCHANGED <<cluster, pod>>))
    BY DEF DropNamespace
  <1>3. Ready("drop namespace") /\ UNCHANGED <<home, outlived>>
    BY DEF DropNamespace
  <1>4. UNCHANGED <<job, step>> /\ Ops[at].op = "drop namespace"
        /\ (failed => err') /\ (~failed => err' = err /\ at' = at + 1)
    BY <1>1, <1>2, <1>3, Operated, Operating
  <1>5. cluster' \subseteq cluster
    BY <1>2
  <1>6. \A u \in Users : pod'[u] = pod[u] \/ (pod[u] # "killed" /\ pod'[u] = "killed")
    BY <1>2 DEF Active
  <1>7. Active' \subseteq Active
    BY <1>6 DEF Active
  <1>8. HomesGone => HomesGone'
    BY <1>3, <1>6, <1>7, SameHomesGone
  <1>9. ASSUME ~failed, ~err, job.test = "pipelines", NEW o, o = Ops[at]
        PROVE  GoneBy(o)'
    <2>1. mem["namespace"] = WantedNamespace
      <3>1. ~Settable(job, "namespace") /\ "namespace" \in Keys
        BY <1>9 DEF Settable, Keys
      <3> QED
        BY <1>3, <1>9, <3>1, ValuesOfOperation DEF WantedNamespace
    <2>2. WantedNamespace' = WantedNamespace
      BY <1>4 DEF WantedNamespace
    <2>3. \A r \in cluster' : r[2] # WantedNamespace' \/ r[1] \in ClusterScoped
      BY <1>2, <1>9, <2>1, <2>2
    <2>4. ASSUME NEW u \in Active
          PROVE  pod'[u] = "killed"
      <3>1. u \in Users /\ pod[u] # "none"
        BY <2>4 DEF Active
      <3>2. jobIn = WantedNamespace
        BY <1>9, <3>1 DEF PodInv
      <3> QED
        BY <1>2, <1>9, <2>1, <2>4, <3>1, <3>2
    <2>5. Active' = {}
      BY <1>7, <2>4 DEF Active
    <2>6. o.op = "drop namespace"
      BY <1>4, <1>9
    <2> QED
      BY <2>3, <2>5, <2>6 DEF GoneBy
  <1>10. ASSUME job.test = "pipelines", ~err'
         PROVE  ~err /\ at' = at + 1 /\ \A o : o = Ops[at] => GoneBy(o)'
    <2>1. ~failed
      BY <1>4, <1>10
    <2>2. err' = err /\ at' = at + 1
      BY <1>4, <2>1
    <2>3. ~err
      BY <1>10, <2>2
    <2>4. \A o : o = Ops[at] => GoneBy(o)'
      BY <1>9, <1>10, <2>1, <2>3
    <2> QED
      BY <2>2, <2>3, <2>4
  <1> QED
    BY <1>1, <1>4, <1>5, <1>7, <1>8, <1>10, GoneNext

\* A Pod that goes on outlived the clean-up of the namespaces.
LEMMA PodGone ==
  ASSUME ConfigInv, PodInv, GoneInv, NEW u \in Users, NewProject(u) \/ Label(u) \/ PodEnds(u)
  PROVE  GoneInv'
  <1>1. StepType /\ pod \in [Users -> {"none", "running", "creating", "testing", "done", "killed"}]
        /\ home \in [Users -> {"none", "bare", "labelled"}]
    BY DEF ConfigInv, Types, PodType
  <1>2. UNCHANGED <<job, step, at, err, cluster, outlived>> /\ u \in Active
    BY DEF NewProject, Label, PodEnds, Active, process, things
  <1>3. \A v \in Users : v # u => pod'[v] = pod[v] /\ home'[v] = home[v]
    BY <1>1 DEF NewProject, Label, PodEnds
  <1>4. Active' \subseteq Active
    BY <1>2, <1>3 DEF Active
  <1>5. HomesGone => HomesGone'
    <2> SUFFICES ASSUME HomesGone
                 PROVE  HomesGone'
      OBVIOUS
    <2>1. u \in outlived' /\ Active' \subseteq outlived'
      BY <1>2, <1>4 DEF HomesGone
    <2>2. \A v \in Users : v # u /\ home'[v] # "none" => v \in outlived' \/ (home'[v] = "bare" /\ pod'[v] = "killed")
      BY <1>2, <1>3 DEF HomesGone
    <2> QED
      BY <2>1, <2>2 DEF HomesGone
  <1> QED
    BY <1>1, <1>2, <1>4, <1>5, GoneNext

LEMMA GoneStep ==
  ASSUME ConfigInv, PodInv, GoneInv, [Next]_vars
  PROVE  GoneInv'
  <1>1. StepType /\ job' = job
    BY JobStays DEF ConfigInv, Types
  <1>2. CASE Prechecks \/ Postchecks \/ Interrupt \/ InitFails \/ Load \/ SetConfig \/ WriteCopy
             \/ Done \/ UNCHANGED vars
    <2>1. UNCHANGED <<job, step, cluster, pod, home, outlived>> /\ (~err' => ~err /\ at' = at)
      BY <1>2 DEF Prechecks, Postchecks, Interrupt, InitFails, Load, SetConfig, WriteCopy, Done, vars,
                  process, things, pods
    <2>2. Active' = Active /\ (HomesGone => HomesGone')
      BY <2>1 DEF Active, HomesGone
    <2> QED
      BY <1>1, <2>1, <2>2, GoneNext
  <1>3. CASE NextStep
    BY <1>3 DEF NextStep, GoneInv
  <1>4. CASE Set \/ MakeIt \/ ScaleUp \/ StartPods \/ RunMulti \/ Plot \/ McadTests
    <2>1. step' = step
      BY <1>4 DEF Set, MakeIt, ScaleUp, StartPods, RunMulti, Plot, McadTests, Return
    <2>2. \E op \in {"set", "make", "scale", "run_multi", "plot", "mcad tests"} : Ready(op)
      BY <1>4 DEF Set, MakeIt, ScaleUp, StartPods, RunMulti, Plot, McadTests
    <2>3. step # 3
      BY <1>1, <2>2, CleanupOnlyRemoves
    <2> QED
      BY <2>1, <2>3 DEF GoneInv
  <1>5. CASE Raise
    BY <1>5 DEF Raise, Return, GoneInv
  <1>6. CASE \E u \in Users : NewProject(u) \/ Label(u) \/ PodEnds(u)
    BY <1>6, PodGone
  <1> QED
    BY <1>2, <1>3, <1>4, <1>5, <1>6, DropGone, DropHomesGone, DropNamespaceGone DEF Next

LEMMA CleanupFollows == ConfigInv /\ ClusterInv /\ GoneInv => CleanupIsComplete
  <1> SUFFICES ASSUME ConfigInv, ClusterInv, GoneInv,
                      job.test = "pipelines", Steps[step] = "cleanup_cluster_ci", outcome = "ok"
               PROVE  (\A r \in cluster : r[1] \in NotUndone) /\ Active = {} /\ HomesGone
    BY DEF CleanupIsComplete, HomesGone
  <1>1. StepType /\ OutcomeInv /\ job \in JobType
    BY JobsAreTyped DEF ConfigInv, Types
  <1>2. step = 3 /\ Ops = Cleanup(job) /\ ~err /\ at = Len(Ops) + 1 /\ Len(Ops) \in Nat
    BY <1>1, StepOps, OpsAreASequence DEF OutcomeInv, StepType
  <1>3. \A i \in 1 .. Len(Ops) : GoneBy(Ops[i])
    BY <1>2 DEF GoneInv
  <1>4. ASSUME NEW o, Has(Cleanup(job), o)
        PROVE  GoneBy(o)
    BY <1>2, <1>3, <1>4 DEF Has
  <1> DEFINE removed == {Do("uninstall", "rhods"), Do("drop", "ldap"), Do("uninstall", "pipelines operator")}
  <1>10. /\ GoneBy(Do("drop homes", "all")) /\ GoneBy(Do("drop namespace", "driver"))
         /\ \A o \in removed : GoneBy(o)
    BY <1>1, <1>4, CleanupRemoves
  <1>5. HomesGone
    <2>1. Do("drop homes", "all").op = "drop homes"
      BY DEF Do
    <2> QED
      BY <1>10, <2>1 DEF GoneBy
  <1>6. Active = {} /\ \A r \in cluster : r[2] # WantedNamespace \/ r[1] \in ClusterScoped
    <2>1. Do("drop namespace", "driver").op = "drop namespace"
      BY DEF Do
    <2> QED
      BY <1>10, <2>1 DEF GoneBy
  <1>7. ASSUME NEW what \in Installed
        PROVE  <<what, "-", "-">> \notin cluster
    <2>1. \E o \in removed : o.arg = what /\ o.op \in {"drop", "uninstall"}
      BY DEF Installed, Do
    <2> QED
      BY <1>10, <2>1 DEF GoneBy
  <1>8. \A what : Wanted(what)[2] = WantedNamespace
    BY DEF Wanted
  <1>9. ASSUME NEW r \in cluster
        PROVE  r[1] \in NotUndone
    <2>1. CASE \E what \in Needed : r = Wanted(what)
      <3>1. r[1] \in ClusterScoped
        BY <1>6, <1>8, <2>1
      <3> QED
        BY <3>1 DEF ClusterScoped, NotUndone
    <2>2. CASE \E what \in Installed \cup BrewAccess : r = <<what, "-", "-">>
      <3>1. r[1] \in BrewAccess
        BY <1>7, <2>2
      <3> QED
        BY <3>1 DEF BrewAccess, NotUndone
    <2> QED
      BY <2>1, <2>2 DEF ClusterInv, Deployable
  <1> QED
    BY <1>5, <1>6, <1>9

\* A clean-up of the pipelines test that succeeds leaves nothing of what its preparation deployed, but
\* what it changed in the whole cluster for good, and no Pod; and of the namespaces that the Pods made,
\* those of the Pods that it did not wait for, and those without the label that it looks for.
THEOREM CleanupsAreComplete == Spec => []CleanupIsComplete
  <1> DEFINE Inv == ConfigInv /\ ClusterInv /\ PodInv /\ GoneInv
  <1>1. Init => Inv
    <2>1. Init => ClusterInv /\ PodInv /\ GoneInv
      BY DEF Init, ClusterInv, PodInv, HomeOf, GoneInv
    <2> QED
      BY <2>1, ConfigInit
  <1>2. Inv /\ [Next]_vars => Inv'
    BY ConfigStep, ClusterStep, PodStep, GoneStep
  <1>3. Inv => CleanupIsComplete
    BY CleanupFollows
  <1> QED
    BY <1>1, <1>2, <1>3, PTL DEF Spec
=============================================================================
