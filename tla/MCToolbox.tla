------------------------------ MODULE MCToolbox ------------------------------
(***************************************************************************)
(* Toolbox for TLC: every command of the toolbox, called in every way, by  *)
(* a process next to another one.                                          *)
(***************************************************************************)
EXTENDS Toolbox, FiniteSetsExt

\* The optional parameters a call gives at most: the checks of the commands
\* relate two of them, and a third one is needed to satisfy two checks.
MaxOptional == 3

Commonly(c, given) ==
  [cmd |-> c, given |-> given, off |-> {}, odd |-> {}, suffix |-> "",
   via |-> "config", how |-> "run"]

\* Every choice of optional parameters and of special values.
Chosen(c) ==
  {[Commonly(c, c.required \cup chosen) EXCEPT !.off = off, !.odd = odd] :
     chosen \in UNION {kSubset(n, c.optional) : n \in 0..MaxOptional},
     off \in {{}, c.on}, odd \in {{}} \cup {{o} : o \in c.odd}}

\* The other ways to call it, and the calls that are not accepted.
Ways(c) ==
  LET call1 == Commonly(c, c.required) IN
  {[call1 EXCEPT !.via = via, !.how = how] :
     via \in {"cli", "no file", "no key", "bad extra", "config"},
     how \in {"run", "help", "partial", "show_args"}}
  \cup {[Commonly(c, c.required \cup {"unknown"}) EXCEPT !.via = via] :
          via \in {"cli", "config"}}
  \cup {[Commonly(c, c.required \ {r}) EXCEPT !.via = via] :
          r \in c.required, via \in {"cli", "config"}}

TwoProcs == {1, 2}
Pair(a, b) == [p \in TwoProcs |-> IF p = 1 THEN a ELSE b]

Capture ==
  Commonly(CHOOSE c \in ClusterScale : c.command = "capture_environment", {})

\* Next to the capture of the state of the cluster, or the same call twice,
\* with the same parameters or with other ones.
AllStarts ==
  LET common == {Commonly(c, c.required) : c \in Commands} IN
  {Pair(call1, Capture) : call1 \in UNION {Chosen(c) \cup Ways(c) : c \in Commands}}
  \cup {Pair(call1, [call1 EXCEPT !.suffix = s]) : call1 \in common, s \in {"", "x"}}

\* No directory, or the one of an earlier command.
AnyFound ==
  {{}, {[index |-> 0, group |-> "cluster", command |-> "set_scale", suffix |-> ""]}}
=============================================================================
