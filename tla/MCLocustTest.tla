---------------------------- MODULE MCLocustTest ----------------------------
(***************************************************************************)
(* LocustTest for TLC: the sizes of the runs.                              *)
(***************************************************************************)
EXTENDS LocustTest

\* Users that share a worker, and a worker that has no user.
Shared == {[users |-> 2, workers |-> 1], [users |-> 1, workers |-> 2]}

=============================================================================
