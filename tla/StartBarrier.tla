---------------------------- MODULE StartBarrier ----------------------------
(***************************************************************************)
(* What the users of local_ci_run_multi are promised by the StateSignal    *)
(* barrier: the Pods of a Job gather, one verdict is given for all of      *)
(* them, and "go" is given only once every Pod is there.                   *)
(***************************************************************************)
EXTENDS Integers

CONSTANT Pods           \* the Pods of the Job, one per user

VARIABLES arrived,      \* the Pods that have reached the barrier
          decision,     \* the verdict of the barrier: "none", "go" or "abort"
          verdict       \* the verdict each Pod has left the barrier with

barrierVars == <<arrived, decision, verdict>>

Decisions == {"go", "abort"}

Init ==
  /\ arrived = {}
  /\ decision = "none"
  /\ verdict = [p \in Pods |-> "none"]

\* A Pod reaches the barrier. It may come after the verdict: it then waits.
Arrive(p) ==
  /\ p \notin arrived
  /\ arrived' = arrived \cup {p}
  /\ UNCHANGED <<decision, verdict>>

\* The barrier opens: every Pod is there.
Go ==
  /\ decision = "none"
  /\ arrived = Pods
  /\ decision' = "go"
  /\ UNCHANGED <<arrived, verdict>>

\* The barrier is given up: some Pods are missing or do not answer.
Abort ==
  /\ decision = "none"
  /\ decision' = "abort"
  /\ UNCHANGED <<arrived, verdict>>

\* A Pod leaves the barrier with the common verdict.
Leave(p) ==
  /\ p \in arrived
  /\ decision # "none"
  /\ verdict[p] = "none"
  /\ verdict' = [verdict EXCEPT ![p] = decision]
  /\ UNCHANGED <<arrived, decision>>

Next == Go \/ Abort \/ \E p \in Pods : Arrive(p) \/ Leave(p)

Spec == Init /\ [][Next]_barrierVars

=============================================================================
