------------------------------ MODULE MCCiSteps ------------------------------
(* The constants of CiSteps for TLC.                                       *)
EXTENDS CiSteps

\* Both tests with Pods, with every combination of what changes the
\* configuration, for two users; larger loads, 275 nodes at most, the MCAD
\* test and the other options, sizing commands that fail among them, without
\* changes of the configuration.
MCJobs ==
  {j \in [test : Tests, shared : BOOLEAN, sameDir : BOOLEAN, pr : BOOLEAN,
           override : Keys \cup {Unknown, "none"}, preset : {"tag", Unknown, "none"},
           users : {2, 100, 1100},
           unsized : SUBSET Roles, cleanupOnExit : BOOLEAN] :
     /\ j.test = "mcad" => ~j.pr /\ j.users = 2 /\ j.unsized = {}
     /\ j.test = "mcad" \/ j.sameDir \/ j.cleanupOnExit \/ j.users # 2 \/ j.unsized # {} =>
          j.override = "none" /\ j.preset = "none"
     /\ j.users # 2 => ~j.sameDir /\ ~j.cleanupOnExit
     /\ j.unsized # {} => ~j.sameDir /\ ~j.cleanupOnExit /\ ~j.pr /\ j.users = 2}
=============================================================================
